------------------------------ MODULE TlsSocket ------------------------------
(***************************************************************************)
(* Application data through two tls_connection objects over TCP: send /    *)
(* co_send on one side, recv / co_recv on the other, in blocking mode, in  *)
(* non-blocking mode (would_block) or as coroutines that share one         *)
(* tls_co_executor.  The kernel takes and hands over any number of bytes   *)
(* at a time; one action is one turn of a loop around ::send or ::recv.    *)
(*                                                                         *)
(* A record is RecordUnits pieces of the stream, the first its header.     *)
(* Record i of the stream of records carries the payload i.                *)
(***************************************************************************)
EXTENDS Naturals, Sequences, SequencesExt

CONSTANTS
  RecordUnits,  \* pieces of a record
  Capacity,     \* pieces the kernel holds between the two sockets
  MaxSeq,       \* bound on write_seq: calls to send stop there
  Uses          \* how the two connections are used

Modes == {"blocking", "nonblocking", "coroutine"}

(***************************************************************************)
(* A use is                                                                *)
(*   ver         session_.ver,                                             *)
(*   kinds       the content type of each record,                          *)
(*   last        the last record of each message: one send() per message,  *)
(*   send, recv  the mode of each side,                                    *)
(*   closes      the callers may close their connections early,            *)
(*   datagram    datagram_: a record is one UDP datagram,                  *)
(*   ktls        the receiver may hand the record layer to the kernel.     *)
(***************************************************************************)
Use ==
  [ver : {12, 13}, kinds : Seq({"data", "ticket", "alert"}), last : Seq(Nat \ {0}),
   send : Modes, recv : Modes, closes : BOOLEAN, datagram : BOOLEAN, ktls : BOOLEAN]

ASSUME SizesAssumption ==
  RecordUnits \in Nat \ {0, 1} /\ Capacity \in Nat \ {0} /\ MaxSeq \in Nat

ASSUME UsesAssumption ==
  \A u \in Uses :
    /\ u \in Use
    /\ \A m \in 2 .. Len(u.last) : u.last[m - 1] < u.last[m]
    /\ \A m \in 1 .. Len(u.last) : u.last[m] <= Len(u.kinds)

VARIABLES
  use,               \* the use, chosen once
  s_open, s_state,   \* the sending connection: open_, and where its call is
  write_seq,         \* the session's record number for writing
  next,              \* the message the caller sends next
  rec, off,          \* write_all: what is left to write, how much has been written
  r_open, r_state,   \* the receiving connection
  read_seq,          \* the session's record number for reading
  rbuf,              \* bytes read and not consumed
  ktls_active,       \* the kernel opens the records of the receiver
  out,               \* payloads this call to recv has collected (out, got_app)
  pipe,              \* bytes in the kernel
  waiters, ready, active,  \* the executor: suspended, about to resume, running
  received,          \* payloads of the calls to recv that returned true
  dropped,           \* payloads collected by calls that returned false
  failed             \* tls_decrypt has failed

sendVars == <<s_open, s_state, write_seq, next, rec, off>>
recvVars == <<r_open, r_state, read_seq, rbuf, ktls_active, out, received, dropped, failed>>
execVars == <<waiters, ready, active>>
vars == <<use, sendVars, recvVars, pipe, execVars>>

Ver == use.ver
Kinds == use.kinds
LastRecord == use.last
SendMode == use.send
RecvMode == use.recv

Init ==
  /\ use \in Uses
  /\ s_open = TRUE /\ s_state = "idle" /\ write_seq = 0 /\ next = 1
  /\ rec = <<>> /\ off = 0
  /\ r_open = TRUE /\ r_state = "idle" /\ read_seq = 0 /\ rbuf = <<>> /\ out = <<>>
  /\ ktls_active = FALSE
  /\ pipe = <<>>
  /\ waiters = <<>> /\ ready = <<>> /\ active = "none"
  /\ received = <<>> /\ dropped = <<>> /\ failed = FALSE

-----------------------------------------------------------------------------
(* Coroutines: one thread runs them, from one suspension to the next *)

Mode(c) == IF c = "send" THEN SendMode ELSE RecvMode

\* A call may start when no coroutine is running; a started coroutine runs at once.
Starts(c) ==
  IF Mode(c) = "coroutine"
  THEN active = "none" /\ active' = c /\ UNCHANGED <<waiters, ready>>
  ELSE UNCHANGED execVars

Runs(c) == Mode(c) = "coroutine" => active = c

Ends(c) ==
  IF Mode(c) = "coroutine"
  THEN active' = "none" /\ UNCHANGED <<waiters, ready>>
  ELSE UNCHANGED execVars

\* socket_wait_awaiter: add_waiter, and back to whoever resumed the coroutine.
add_waiter(c) ==
  /\ waiters' = Append(waiters, c)
  /\ active' = "none"
  /\ UNCHANGED ready

\* The kernel takes some of the bytes of a stream, a datagram only as a whole.
Room == Len(pipe) + (IF use.datagram THEN RecordUnits ELSE 1) <= Capacity

\* What poll reports: room or data, or the other side is gone.
Polled(c) ==
  IF c = "send" THEN Room \/ ~r_open ELSE pipe # <<>> \/ ~s_open

\* Mutant: the waiters that are not ready are erased too.
run_once_clears ==
  /\ active = "none" /\ ready = <<>>
  /\ \E i \in DOMAIN waiters : Polled(waiters[i]) /\ ready' = <<waiters[i]>>
  /\ waiters' = <<>>
  /\ UNCHANGED <<sendVars, recvVars, pipe, active>>

\* run_once takes the waiters that are ready, last one first; two coroutines share
\* the executor, so either every waiter is ready or one of the two is ...
run_once ==
  /\ active = "none" /\ ready = <<>>
  /\ \/ /\ waiters # <<>> /\ \A i \in DOMAIN waiters : Polled(waiters[i])
        /\ ready' = Reverse(waiters) /\ waiters' = <<>>
     \/ \E i, j \in DOMAIN waiters :
          /\ Polled(waiters[i]) /\ ~Polled(waiters[j])
          /\ ready' = <<waiters[i]>> /\ waiters' = <<waiters[j]>>
  /\ UNCHANGED <<sendVars, recvVars, pipe, active>>

\* ... and resumes them one after the other: what poll saw may no longer hold.
resume ==
  /\ active = "none" /\ ready # <<>>
  /\ active' = Head(ready)
  /\ ready' = Tail(ready)
  /\ s_state' = IF Head(ready) = "send" THEN "writing" ELSE s_state
  /\ r_state' = IF Head(ready) = "recv" THEN "reading" ELSE r_state
  /\ UNCHANGED <<s_open, write_seq, next, rec, off, r_open, read_seq, rbuf, ktls_active,
                 out, received, dropped, failed, pipe, waiters>>

-----------------------------------------------------------------------------
(* send and co_send *)

FirstRecord(m) == IF m = 1 THEN 1 ELSE LastRecord[m - 1] + 1

\* tls_encrypt: the message becomes records, each takes the next record number.
tls_encrypt(m) ==
  [u \in 1 .. (LastRecord[m] - FirstRecord(m) + 1) * RecordUnits |->
     LET k == (u - 1) \div RecordUnits
     IN  [id |-> FirstRecord(m) + k, seq |-> write_seq + k, part |-> ((u - 1) % RecordUnits) + 1]]

send ==
  /\ s_state = "idle" /\ s_open
  /\ next <= Len(LastRecord)
  /\ write_seq + (LastRecord[next] - FirstRecord(next) + 1) <= MaxSeq
  /\ Starts("send")
  /\ rec' = tls_encrypt(next) /\ off' = 0
  /\ write_seq' = write_seq + (LastRecord[next] - FirstRecord(next) + 1)
  /\ s_state' = "writing"
  /\ UNCHANGED <<s_open, next, recvVars, pipe>>

\* ::send takes some of the bytes; send_one_datagram sends the next record.
WriteSome ==
  /\ s_state = "writing" /\ Runs("send")
  /\ \E n \in IF use.datagram THEN {RecordUnits} ELSE 1 .. Len(rec) :
       /\ n <= Len(rec)
       /\ Len(pipe) + n <= Capacity
       /\ pipe' = pipe \o SubSeq(rec, 1, n)
       /\ rec' = SubSeq(rec, n + 1, Len(rec))
       /\ off' = off + n
  /\ UNCHANGED <<s_open, s_state, write_seq, next, recvVars, execVars>>

\* Everything is written: send returns true.
WriteDone ==
  /\ s_state = "writing" /\ Runs("send")
  /\ rec = <<>>
  /\ s_state' = "idle" /\ next' = next + 1
  /\ Ends("send")
  /\ UNCHANGED <<s_open, write_seq, rec, off, recvVars, pipe>>

WriteBlocked == s_state = "writing" /\ Runs("send") /\ rec # <<>> /\ ~Room /\ r_open

\* Mutant: would-block is reported also in the middle of a write.
WriteWouldBlockAnywhere ==
  /\ WriteBlocked /\ SendMode = "nonblocking"
  /\ s_state' = "idle" /\ rec' = <<>>
  /\ UNCHANGED <<s_open, write_seq, next, off, recvVars, pipe, execVars>>

\* EAGAIN before the first byte, in datagram mode before any datagram: "would
\* block"; the caller keeps the message and sends it again.
WriteWouldBlock ==
  /\ WriteBlocked /\ SendMode = "nonblocking"
  /\ off = 0 \/ use.datagram
  /\ s_state' = "idle" /\ rec' = <<>>
  /\ UNCHANGED <<s_open, write_seq, next, off, recvVars, pipe, execVars>>

\* EAGAIN later: wait for room, and close the connection when none comes.
PartialWriteTimeout ==
  /\ WriteBlocked /\ SendMode = "nonblocking"
  /\ off > 0 /\ ~use.datagram
  /\ s_open' = FALSE /\ s_state' = "idle" /\ rec' = <<>>
  /\ UNCHANGED <<write_seq, next, off, recvVars, pipe, execVars>>

WriteSuspends ==
  /\ WriteBlocked /\ SendMode = "coroutine"
  /\ s_state' = "suspended"
  /\ add_waiter("send")
  /\ UNCHANGED <<s_open, write_seq, next, rec, off, recvVars, pipe>>

\* ::send fails, which it may once the peer has closed.
WriteFails ==
  /\ s_state = "writing" /\ Runs("send")
  /\ rec # <<>> /\ ~r_open
  /\ s_open' = FALSE /\ s_state' = "idle"
  /\ Ends("send")
  /\ UNCHANGED <<write_seq, next, rec, off, recvVars, pipe>>

\* close() between two calls: shutdown; what is in the kernel still arrives.
CloseSender ==
  /\ s_open /\ s_state = "idle"
  /\ use.closes \/ next > Len(LastRecord)
  /\ s_open' = FALSE
  /\ UNCHANGED <<s_state, write_seq, next, rec, off, recvVars, pipe, execVars>>

-----------------------------------------------------------------------------
(* recv and co_recv *)

\* Mutant: out is not cleared.
recv_not_cleared ==
  /\ r_state = "idle" /\ r_open
  /\ Starts("recv")
  /\ r_state' = "reading"
  /\ UNCHANGED <<sendVars, pipe, r_open, read_seq, rbuf, ktls_active, out, received, dropped, failed>>

recv ==
  /\ r_state = "idle" /\ r_open
  /\ Starts("recv")
  /\ r_state' = "reading" /\ out' = <<>>
  /\ UNCHANGED <<sendVars, pipe, r_open, read_seq, rbuf, ktls_active, received, dropped, failed>>

ReturnTrue(o) ==
  /\ r_state' = "idle"
  /\ received' = received \o o
  /\ UNCHANGED dropped
  /\ Ends("recv")

ReturnFalse(o) ==
  /\ r_state' = "idle"
  /\ dropped' = dropped \o o
  /\ UNCHANGED received
  /\ Ends("recv")

Continue == UNCHANGED <<r_state, received, dropped, execVars>>

Reading == r_state = "reading" /\ Runs("recv") /\ ~ktls_active

\* fill_rbuf asks for the header first, then for the rest of the record.
min_total == IF rbuf = <<>> THEN 1 ELSE RecordUnits

\* fill_rbuf: ::recv hands over some of the bytes, or a datagram.
FillSome ==
  /\ Reading /\ Len(rbuf) < RecordUnits
  /\ \E n \in 1 .. Len(pipe) :
       /\ IF use.datagram THEN n = RecordUnits ELSE Len(rbuf) + n <= min_total
       /\ rbuf' = rbuf \o SubSeq(pipe, 1, n)
       /\ pipe' = SubSeq(pipe, n + 1, Len(pipe))
  /\ UNCHANGED <<sendVars, r_open, r_state, read_seq, ktls_active, out, received, dropped, failed, execVars>>

FillBlocked == Reading /\ Len(rbuf) < RecordUnits /\ pipe = <<>> /\ (s_open \/ use.datagram)

\* EAGAIN: "would block"; what is in rbuf_ stays there.
FillWouldBlock ==
  /\ FillBlocked /\ RecvMode = "nonblocking"
  /\ ReturnFalse(out)
  /\ UNCHANGED <<sendVars, pipe, r_open, read_seq, rbuf, ktls_active, out, failed>>

FillSuspends ==
  /\ FillBlocked /\ RecvMode = "coroutine"
  /\ r_state' = "suspended"
  /\ add_waiter("recv")
  /\ UNCHANGED <<sendVars, pipe, r_open, read_seq, rbuf, ktls_active, out, received, dropped, failed>>

\* ::recv returns 0: "connection closed by peer".
FillEof ==
  /\ Reading /\ Len(rbuf) < RecordUnits
  /\ pipe = <<>> /\ ~s_open /\ ~use.datagram
  /\ r_open' = FALSE /\ rbuf' = <<>>
  /\ ReturnFalse(out)
  /\ UNCHANGED <<sendVars, pipe, read_seq, ktls_active, out, failed>>

\* close() drops what has been read and not consumed.
CloseReceiver ==
  /\ r_open /\ r_state = "idle" /\ use.closes
  /\ r_open' = FALSE /\ rbuf' = <<>> /\ ktls_active' = FALSE
  /\ UNCHANGED <<sendVars, pipe, r_state, read_seq, out, received, dropped, failed, execVars>>

\* rbuf_ has been consumed, so only the kernel may hold more.
more_data_pending == pipe # <<>>

\* Application data is collected; the call returns unless more has arrived.
DataRecord(i) ==
  /\ out' = Append(out, i)
  /\ IF more_data_pending THEN Continue ELSE ReturnTrue(out')
  /\ UNCHANGED <<r_open, failed>>

\* close_notify: recv closes and returns what it has; co_recv does so in 1.2 only,
\* in 1.3 it takes the alert for an unexpected content type.
AlertRecord ==
  /\ IF RecvMode = "coroutine" /\ Ver = 13
     THEN ReturnFalse(out) /\ UNCHANGED r_open
     ELSE /\ r_open' = FALSE
          /\ IF out # <<>> THEN ReturnTrue(out) ELSE ReturnFalse(out)
  /\ UNCHANGED <<out, failed>>

\* The call fails and the connection stays open, but for an alert of TLS 1.2.
DecryptFails(i) ==
  /\ ReturnFalse(out)
  /\ failed' = TRUE
  /\ r_open' = ~(Ver = 12 /\ Kinds[i] = "alert")
  /\ UNCHANGED out

\* A record opens under the number the session expects.
tls_decrypt(r) == r.seq = read_seq

\* Mutant: tickets are not opened in TLS 1.3 either.
SkippedAlways(i) == Kinds[i] = "ticket"

\* In TLS 1.2 the content type is visible: a handshake record is skipped unopened.
SkippedUnopened(i) == Ver = 12 /\ Kinds[i] = "ticket"

\* read_record and what follows it: tls_decrypt advances the number, also when
\* the record turns out not to have it.
read_record ==
  /\ Reading /\ Len(rbuf) = RecordUnits
  /\ LET i     == rbuf[1].id
         opens == tls_decrypt(rbuf[1])
     IN  /\ read_seq' = IF SkippedUnopened(i) THEN read_seq ELSE read_seq + 1
         /\ \/ ~SkippedUnopened(i) /\ ~opens /\ DecryptFails(i)
            \/ opens /\ Kinds[i] = "data" /\ DataRecord(i)
            \/ /\ SkippedUnopened(i) \/ (opens /\ Kinds[i] = "ticket")
               /\ Continue /\ UNCHANGED <<out, r_open, failed>>
            \/ opens /\ Kinds[i] = "alert" /\ AlertRecord
  /\ rbuf' = <<>>
  /\ UNCHANGED <<sendVars, ktls_active, pipe>>

-----------------------------------------------------------------------------
(* kTLS at the receiver, and datagrams that are lost *)

\* The kernel goes on from the session's record number; rbuf_ is dropped.
enable_ktls ==
  /\ use.ktls /\ ~ktls_active
  /\ r_open /\ r_state = "idle" /\ ~use.datagram
  /\ ktls_active' = TRUE /\ rbuf' = <<>>
  /\ UNCHANGED <<sendVars, pipe, r_open, r_state, read_seq, out, received, dropped, failed, execVars>>

\* recv under kTLS: one ::recv, which gives the plaintext of the next record; a
\* record that does not open, or is not data, makes it fail.
KtlsRecord ==
  /\ r_state = "reading" /\ ktls_active
  /\ Len(pipe) >= RecordUnits
  /\ LET opens == pipe[1].part = 1 /\ pipe[1].seq = read_seq
     IN  IF opens /\ Kinds[pipe[1].id] = "data"
         THEN out' = <<pipe[1].id>> /\ ReturnTrue(out') /\ UNCHANGED <<r_open, ktls_active, failed>>
         ELSE /\ ReturnFalse(out)
              /\ r_open' = FALSE /\ ktls_active' = FALSE /\ failed' = (failed \/ ~opens)
              /\ UNCHANGED out
  /\ pipe' = SubSeq(pipe, RecordUnits + 1, Len(pipe))
  /\ read_seq' = read_seq + 1
  /\ UNCHANGED <<sendVars, rbuf>>

KtlsEof ==
  /\ r_state = "reading" /\ ktls_active
  /\ Len(pipe) < RecordUnits /\ ~s_open
  /\ r_open' = FALSE /\ ktls_active' = FALSE
  /\ ReturnFalse(out)
  /\ UNCHANGED <<sendVars, pipe, read_seq, rbuf, out, failed>>

LoseDatagram ==
  /\ use.datagram /\ pipe # <<>>
  /\ pipe' = SubSeq(pipe, RecordUnits + 1, Len(pipe))
  /\ UNCHANGED <<sendVars, recvVars, execVars>>

-----------------------------------------------------------------------------

SenderStep ==
  /\ UNCHANGED use
  /\ \/ send \/ WriteSome \/ WriteDone \/ WriteWouldBlock \/ PartialWriteTimeout
     \/ WriteSuspends \/ WriteFails \/ CloseSender

ReceiverStep ==
  /\ UNCHANGED use
  /\ \/ recv \/ FillSome \/ FillWouldBlock \/ FillSuspends \/ FillEof \/ read_record
     \/ CloseReceiver \/ KtlsRecord \/ KtlsEof

ExecutorStep ==
  /\ UNCHANGED use
  /\ run_once \/ resume

\* The caller may switch to kTLS, the network may lose a datagram; neither must.
Optional ==
  /\ UNCHANGED use
  /\ enable_ktls \/ LoseDatagram

Next == SenderStep \/ ReceiverStep \/ ExecutorStep \/ Optional

Spec == Init /\ [][Next]_vars

\* Both threads, or the thread that drives the executor, keep running.
FairSpec ==
  /\ Spec
  /\ WF_vars(SenderStep) /\ WF_vars(ReceiverStep) /\ WF_vars(ExecutorStep)

-----------------------------------------------------------------------------
(* Properties *)

\* What is buffered, in the kernel and still to be written are whole records one
\* after the other, whatever the partial reads and writes: a call that returns
\* would-block leaves neither a cut record nor a gap behind.
StreamFramed ==
  LET s == rbuf \o pipe \o (IF s_open THEN rec ELSE <<>>)
  IN  r_open =>
      /\ s # <<>> => s[1].part = 1
      /\ s # <<>> /\ s_open => s[Len(s)].part = RecordUnits
      /\ \A i \in 1 .. Len(s) - 1 :
           IF s[i].part = RecordUnits THEN s[i + 1].part = 1
           ELSE s[i + 1] = [s[i] EXCEPT !.part = @ + 1]

\* tls_decrypt, or the kernel after enable_ktls, opens every record of an honest
\* peer: unless a send that would block is repeated, the record numbers of the two sessions stay in step.
NoDecryptFailure == SendMode # "nonblocking" => ~failed

\* "The caller keeps the data and retries when the socket is writable: safe"
\* (write_all): what is sent again can be decrypted.
RetryIsSafe == ~failed

\* Calls that wait until they can go on: no would-block is reported.  The alert of
\* TLS 1.3, which co_recv does not know, is left out too.
Waits ==
  /\ SendMode # "nonblocking" /\ RecvMode # "nonblocking" /\ ~use.closes
  /\ ~(RecvMode = "coroutine" /\ Ver = 13)

\* Payloads reach the caller in the order they were sent, each at most once, also
\* when a send that would block after some of its records is repeated; blocking recv
\* and co_recv, and recv after enable_ktls, return the stream without a gap.
OrderedOnce ==
  /\ \A i, j \in DOMAIN received : i < j => received[i] < received[j]
  /\ \A i \in DOMAIN received : received[i] \in DOMAIN Kinds /\ Kinds[received[i]] = "data"
  /\ Waits => \A i \in DOMAIN received : \A n \in 1 .. received[i] :
                Kinds[n] = "data" => \E j \in DOMAIN received : received[j] = n

DataUpTo(n) == SelectSeq([i \in 1 .. n |-> i], LAMBDA i : Kinds[i] = "data")

\* A blocking recv or co_recv that returns false has not taken payloads out of the
\* stream that no later call returns, and everything that is sent is received, also
\* when a message does not fit into the kernel's buffer and both sides, or two
\* coroutines of one thread, have to wait for each other.
AllDelivered == Waits => [](dropped = <<>>) /\ <>(received = DataUpTo(Len(Kinds)))
=============================================================================
