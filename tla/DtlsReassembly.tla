--------------------------- MODULE DtlsReassembly ---------------------------
(***************************************************************************)
(* collect_handshake of dtls.cpp: one endpoint turns handshake fragments,  *)
(* which the network loses, duplicates, reorders and the peer cuts at any  *)
(* offset (differently each time it retransmits), into whole handshake     *)
(* messages handed to process() in message_seq order.                      *)
(*                                                                         *)
(* One action is one iteration of the while loop of collect_handshake: the *)
(* iterations share no state but the session, so a payload that carries    *)
(* several fragments is the composition of their actions.                  *)
(***************************************************************************)
EXTENDS Naturals, Sequences, FiniteSets

CONSTANTS
  Msgs,         \* the peer's messages: Msgs[k] = [type |-> t, body |-> bytes]
  FragmentSize  \* the cut the peer falls back on when it retransmits (fairness only)

ASSUME MsgsAssumption == Msgs \in Seq([type : STRING, body : Seq(Nat)])

ASSUME FragmentSizeAssumption == FragmentSize \in Nat \ {0}

VARIABLES
  recv_msg_seq,          \* message_seq expected next
  reassembly_buf,        \* bytes of the message being reassembled, <<>> when none is
  reassembly_received,   \* which of those bytes have arrived
  reassembly_remaining,  \* how many have not
  reassembly_msg_seq,    \* message_seq the buffer belongs to
  reassembly_total_len,  \* length that message announced
  retransmit_requested,  \* an old message_seq was seen: resend last_sent
  processed,             \* what process() has accepted, in order
  failed                 \* process() returned false: the connection is closed

buffers == <<reassembly_buf, reassembly_received, reassembly_remaining,
             reassembly_msg_seq, reassembly_total_len>>
vars == <<recv_msg_seq, buffers, retransmit_requested, processed, failed>>

-----------------------------------------------------------------------------

Total(k) == Len(Msgs[k].body)

\* The fragments the peer can send: any range of bytes of any of its messages.
FragmentRanges(k) ==
  {r \in (0 .. Total(k)) \X (0 .. Total(k)) : r[1] + r[2] <= Total(k)}

Fragment(k, foff, flen) == SubSeq(Msgs[k].body, foff + 1, foff + flen)

InRange(i, foff, flen) == foff < i /\ i <= foff + flen

Init ==
  /\ recv_msg_seq = 0
  /\ reassembly_buf = <<>>
  /\ reassembly_received = <<>>
  /\ reassembly_remaining = 0
  /\ reassembly_msg_seq = 0
  /\ reassembly_total_len = 0
  /\ retransmit_requested = FALSE
  /\ processed = <<>>
  /\ failed = FALSE

\* mseq < s.recv_msg_seq: a retransmission of something already processed.
OldMessage(k) ==
  /\ ~failed
  /\ k - 1 < recv_msg_seq
  /\ retransmit_requested' = TRUE
  /\ UNCHANGED <<recv_msg_seq, buffers, processed, failed>>

\* mseq > s.recv_msg_seq: a message from the future is skipped, not buffered.
FutureMessage(k) ==
  /\ ~failed
  /\ k - 1 > recv_msg_seq
  /\ UNCHANGED vars

\* Mutant: the message is processed but the expected message_seq stays.
AcceptWithoutAdvance(type, body) ==
  /\ processed' = Append(processed, [type |-> type, body |-> body])
  /\ UNCHANGED <<recv_msg_seq, failed>>

\* process(s, mtype, mseq, body) accepts the message or rejects it.
Accept(type, body) ==
  /\ processed' = Append(processed, [type |-> type, body |-> body])
  /\ recv_msg_seq' = recv_msg_seq + 1
  /\ UNCHANGED failed

Reject ==
  /\ failed' = TRUE
  /\ UNCHANGED <<processed, recv_msg_seq>>

\* Mutant: a message from the future is processed when it arrives whole.
WholeMessageOutOfOrder(k, foff, flen) ==
  /\ ~failed
  /\ k - 1 >= recv_msg_seq
  /\ foff = 0 /\ flen = Total(k) /\ reassembly_buf = <<>>
  /\ Accept(Msgs[k].type, Msgs[k].body)
  /\ UNCHANGED <<buffers, retransmit_requested>>

\* The expected message arrives in one piece and nothing of it is buffered.
WholeMessage(k, foff, flen) ==
  /\ ~failed
  /\ k - 1 = recv_msg_seq
  /\ foff = 0 /\ flen = Total(k) /\ reassembly_buf = <<>>
  /\ \/ Accept(Msgs[k].type, Msgs[k].body)
     \/ Reject
  /\ UNCHANGED <<buffers, retransmit_requested>>

\* The buffers a fragment with this total finds or allocates.
BufBefore(total) ==
  IF reassembly_buf = <<>> THEN [i \in 1 .. total |-> 0] ELSE reassembly_buf

ReceivedBefore(total) ==
  IF reassembly_buf = <<>> THEN [i \in 1 .. total |-> FALSE] ELSE reassembly_received

RemainingBefore(total) ==
  IF reassembly_buf = <<>> THEN total ELSE reassembly_remaining

MsgSeqBefore(mseq) == IF reassembly_buf = <<>> THEN mseq ELSE reassembly_msg_seq

TotalBefore(total) == IF reassembly_buf = <<>> THEN total ELSE reassembly_total_len

\* The loop that copies the bytes not seen before, and counts them.
BufAfter(frag, foff, flen, total) ==
  [i \in 1 .. total |->
      IF ~ReceivedBefore(total)[i] /\ InRange(i, foff, flen)
      THEN frag[i - foff] ELSE BufBefore(total)[i]]

ReceivedAfter(foff, flen, total) ==
  [i \in 1 .. total |-> ReceivedBefore(total)[i] \/ InRange(i, foff, flen)]

NewBytes(foff, flen, total) ==
  {i \in 1 .. total : InRange(i, foff, flen) /\ ~ReceivedBefore(total)[i]}

\* Mutant: every byte of the fragment is counted, also those received before.
RemainingAfterOverlap(foff, flen, total) == RemainingBefore(total) - flen

RemainingAfter(foff, flen, total) ==
  RemainingBefore(total) - Cardinality(NewBytes(foff, flen, total))

\* The fragment is stored and the message is still incomplete.  A fragment the
\* buffer was not allocated for (the msg_seq / total test) is ignored, which is
\* a stuttering step; BufferIsCurrent shows that it never happens here.
StoreFragment(k, foff, flen) ==
  /\ ~failed
  /\ k - 1 = recv_msg_seq
  /\ ~(foff = 0 /\ flen = Total(k) /\ reassembly_buf = <<>>)
  /\ MsgSeqBefore(k - 1) = k - 1 /\ TotalBefore(Total(k)) = Total(k)
  /\ RemainingAfter(foff, flen, Total(k)) # 0
  /\ reassembly_buf' = BufAfter(Fragment(k, foff, flen), foff, flen, Total(k))
  /\ reassembly_received' = ReceivedAfter(foff, flen, Total(k))
  /\ reassembly_remaining' = RemainingAfter(foff, flen, Total(k))
  /\ reassembly_msg_seq' = k - 1
  /\ reassembly_total_len' = Total(k)
  /\ UNCHANGED <<recv_msg_seq, retransmit_requested, processed, failed>>

\* Mutant: the buffer of a processed message is kept.
KeepBuffers == UNCHANGED <<reassembly_buf, reassembly_received>>

ClearBuffers == reassembly_buf' = <<>> /\ reassembly_received' = <<>>

\* The fragment completes the message: process() gets the buffer, which is
\* cleared when it accepts.
LastFragment(k, foff, flen) ==
  LET buf == BufAfter(Fragment(k, foff, flen), foff, flen, Total(k))
  IN  /\ ~failed
      /\ k - 1 = recv_msg_seq
      /\ ~(foff = 0 /\ flen = Total(k) /\ reassembly_buf = <<>>)
      /\ MsgSeqBefore(k - 1) = k - 1 /\ TotalBefore(Total(k)) = Total(k)
      /\ RemainingAfter(foff, flen, Total(k)) = 0
      /\ \/ Accept(Msgs[k].type, buf) /\ ClearBuffers
         \/ /\ Reject
            /\ reassembly_buf' = buf
            /\ reassembly_received' = ReceivedAfter(foff, flen, Total(k))
      /\ reassembly_remaining' = 0
      /\ reassembly_msg_seq' = k - 1
      /\ reassembly_total_len' = Total(k)
      /\ UNCHANGED retransmit_requested

\* client_step / server_step clear the flag once they have resent last_sent.
EndStep ==
  /\ ~failed
  /\ retransmit_requested
  /\ retransmit_requested' = FALSE
  /\ UNCHANGED <<recv_msg_seq, buffers, processed, failed>>

Collect(k, foff, flen) ==
  \/ OldMessage(k)
  \/ FutureMessage(k)
  \/ WholeMessage(k, foff, flen)
  \/ StoreFragment(k, foff, flen)
  \/ LastFragment(k, foff, flen)

Next ==
  \/ EndStep
  \/ \E k \in 1 .. Len(Msgs) : \E r \in FragmentRanges(k) : Collect(k, r[1], r[2])

Spec == Init /\ [][Next]_vars

\* The peer retransmits its flight until it is answered, always cut the same way,
\* and the network does not lose a datagram for ever.
RetransmittedCut(k) ==
  {r \in FragmentRanges(k) :
      /\ r[1] % FragmentSize = 0
      /\ \/ r[2] = FragmentSize
         \/ r[2] < FragmentSize /\ r[1] + r[2] = Total(k)}

Fairness ==
  \A k \in 1 .. Len(Msgs) : \A r \in RetransmittedCut(k) :
    WF_vars(Collect(k, r[1], r[2]))

FairSpec == Spec /\ Fairness

-----------------------------------------------------------------------------
(* Properties *)

\* Types of the reassembly fields of dtls_session: both buffers always have the
\* length the current message announced, or are empty together.
TypeOK ==
  /\ recv_msg_seq \in 0 .. Len(Msgs)
  /\ reassembly_total_len \in Nat
  /\ reassembly_msg_seq \in Nat
  /\ reassembly_remaining \in 0 .. reassembly_total_len
  /\ retransmit_requested \in BOOLEAN
  /\ failed \in BOOLEAN
  /\ \/ reassembly_buf = <<>> /\ reassembly_received = <<>>
     \/ /\ reassembly_buf \in [1 .. reassembly_total_len -> Nat]
        /\ reassembly_received \in [1 .. reassembly_total_len -> BOOLEAN]

\* A buffer left by collect_handshake belongs to the message expected next and
\* has its length: no fragment of that message is ever refused by the
\* reassembly_msg_seq / reassembly_total_len test, and no bytes of an earlier
\* message leak into a later one.
BufferIsCurrent ==
  reassembly_buf # <<>> =>
    /\ recv_msg_seq < Len(Msgs)
    /\ reassembly_msg_seq = recv_msg_seq
    /\ reassembly_total_len = Total(recv_msg_seq + 1)

\* Every byte marked received holds the byte the peer sent at that offset,
\* whatever the order, overlap and repetition of the fragments it came in.
ReceivedBytesFaithful ==
  reassembly_buf # <<>> =>
    \A i \in 1 .. reassembly_total_len :
      reassembly_received[i] => reassembly_buf[i] = Msgs[recv_msg_seq + 1].body[i]

\* reassembly_remaining counts exactly the bytes still missing, so process() runs
\* when the last one arrives: never earlier, on a buffer with holes, and never
\* later (overlapping fragments are not counted twice).
RemainingIsMissing ==
  reassembly_buf # <<>> =>
    reassembly_remaining =
      Cardinality({i \in 1 .. reassembly_total_len : ~reassembly_received[i]})

\* process() has seen exactly the first recv_msg_seq messages of the peer.
InOrderExactlyOnce ==
  /\ Len(processed) = recv_msg_seq
  /\ \A k \in 1 .. Len(processed) : processed[k] = Msgs[k]

\* collect_handshake implements in-order, exactly-once, byte-faithful delivery.
Abstract == INSTANCE InOrderDelivery WITH delivered <- processed, aborted <- failed
ImplementsInOrderDelivery == Abstract!Spec

\* However the retransmissions are cut and reordered, every message is processed
\* in the end unless process() rejects one: a half-filled buffer never wedges.
EveryMessageProcessed == <>(failed \/ recv_msg_seq = Len(Msgs))
=============================================================================
