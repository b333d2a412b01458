---------------------------- MODULE TlsEndpoints ----------------------------
(***************************************************************************)
(* Which object holds which socket: tls_connection and tls_listener of     *)
(* src/src/tls_socket.cpp, the application that lends or gives them        *)
(* descriptors, and the coroutines suspended in tls_co_executor, which     *)
(* remember a descriptor by its number.  The kernel gives any free number  *)
(* to the next socket, so a number that has been closed comes back.        *)
(*                                                                         *)
(* set_socket_nonblocking does not fail: its argument is a descriptor      *)
(* that was just created, accepted or found to be open.                    *)
(***************************************************************************)
EXTENDS Naturals

CONSTANTS Connections,  \* the tls_connection objects
          listener,     \* the tls_listener object
          app,          \* the application
          nobody,       \* the holder of a number that is not in use
          MaxFd         \* bound: descriptors are 1 .. MaxFd

ASSUME EndpointsAssumption ==
  /\ MaxFd \in Nat
  /\ listener \notin Connections /\ app \notin Connections \cup {listener}
  /\ nobody \notin Connections \cup {listener, app}

Fds == 1 .. MaxFd
Invalid == 0               \* INVALID_SOCKET_HANDLE
Objects == Connections \cup {listener}

VARIABLES
  kernel,   \* the type of each descriptor: "free", "stream" or "dgram"
  obj,      \* each object: [sock, open, owns, dgram]; dgram is datagram_ or udp_
  duty,     \* who has to close a descriptor, by the contract of attach and accept
  lent,     \* descriptors a listener has accept_udp-ed away while they were only lent
  waiters,  \* suspended coroutines: [fd, conn]
  misused   \* what has been done to a descriptor by someone it does not belong to

vars == <<kernel, obj, duty, lent, waiters, misused>>

Unset == [sock |-> Invalid, open |-> FALSE, owns |-> TRUE, dgram |-> FALSE]

Init ==
  /\ kernel = [f \in Fds |-> "free"]
  /\ obj = [o \in Objects |-> Unset]
  /\ duty = [f \in Fds |-> nobody]
  /\ lent = {} /\ waiters = {} /\ misused = {}

-----------------------------------------------------------------------------
(* close() *)

Holds(o, f) == obj[o].open /\ obj[o].sock = f

\* The descriptors close() closes.
Closed(o) == IF obj[o].open /\ obj[o].sock # Invalid /\ obj[o].owns THEN {obj[o].sock} ELSE {}

\* Mutant: owns_socket_ is not reset.
Reset_Borrowing(o) == [Unset EXCEPT !.owns = obj[o].owns]

\* What close() leaves behind.
Reset(o) == Unset

\* The kernel and the duties once object o has closed what it holds.
KernelWithout(o) == [f \in Fds |-> IF f \in Closed(o) THEN "free" ELSE kernel[f]]
DutyWithout(o) == [f \in Fds |-> IF f \in Closed(o) THEN nobody ELSE duty[f]]
MisusedBy(o) == misused \cup {<<"closed", f>> : f \in {g \in Closed(o) : duty[g] # o /\ g \notin lent}}

Close(o) ==
  /\ kernel' = KernelWithout(o)
  /\ duty' = DutyWithout(o)
  /\ misused' = MisusedBy(o)
  /\ obj' = [obj EXCEPT ![o] = Reset(o)]
  /\ lent' = lent \ Closed(o)
  /\ UNCHANGED waiters

-----------------------------------------------------------------------------
(* The application's own descriptors *)

Free(k) == {f \in Fds : k[f] = "free"}

AppSocket ==
  \E type \in {"stream", "dgram"}, f \in Free(kernel) :
    /\ kernel' = [kernel EXCEPT ![f] = type]
    /\ duty' = [duty EXCEPT ![f] = app]
    /\ UNCHANGED <<obj, lent, waiters, misused>>

\* The application closes what is its own and no object is using.
AppClose ==
  \E f \in Fds :
    /\ duty[f] = app /\ \A o \in Objects : ~Holds(o, f)
    /\ kernel' = [kernel EXCEPT ![f] = "free"]
    /\ duty' = [duty EXCEPT ![f] = nobody]
    /\ lent' = lent \ {f}
    /\ UNCHANGED <<obj, waiters, misused>>

\* attach of a connection or of a listener: close(), then the new descriptor.
\* attach gives owns_socket_ the caller's choice; the contract gives the duty.
attach ==
  \E o \in Objects, f \in Fds, take_ownership \in BOOLEAN :
    /\ duty[f] = app /\ \A p \in Objects : ~Holds(p, f)
    /\ kernel' = KernelWithout(o)
    /\ duty' = [DutyWithout(o) EXCEPT ![f] = IF take_ownership THEN o ELSE app]
    /\ misused' = MisusedBy(o)
    /\ obj' = [obj EXCEPT ![o] = [sock |-> f, open |-> TRUE, owns |-> take_ownership,
                                  dgram |-> kernel[f] = "dgram"]]
    /\ lent' = lent \ Closed(o)
    /\ UNCHANGED waiters

\* set_datagram_mode may contradict the socket's type only to turn the mode off.
set_datagram_mode ==
  \E c \in Connections, enable \in BOOLEAN :
    /\ enable => obj[c].sock # Invalid /\ kernel[obj[c].sock] = "dgram"
    /\ obj' = [obj EXCEPT ![c].dgram = enable]
    /\ UNCHANGED <<kernel, duty, lent, waiters, misused>>

-----------------------------------------------------------------------------
(* Sockets the library opens itself *)

\* close(), then a new socket of the given type, which o keeps as keep says.
Opens(o, type, keep) ==
  \E f \in Free(KernelWithout(o)) :
      /\ kernel' = [KernelWithout(o) EXCEPT ![f] = type]
      /\ duty' = [DutyWithout(o) EXCEPT ![f] = o]
      /\ obj' = [obj EXCEPT ![o] = [keep EXCEPT !.sock = f, !.open = TRUE]]
      /\ misused' = MisusedBy(o)
      /\ lent' = lent \ Closed(o)
      /\ UNCHANGED waiters

\* establish_tcp: owns_socket_ and datagram_ are what close() left.
establish_tcp == \E c \in Connections : Opens(c, "stream", Reset(c))

\* Every address failed: each socket was closed again, the connection stays closed.
\* The same for listen and listen_udp.
OpeningFails == \E o \in Objects : Free(KernelWithout(o)) # {} /\ Close(o)

listen == Opens(listener, "stream", [Unset EXCEPT !.owns = TRUE])
listen_udp == Opens(listener, "dgram", [Unset EXCEPT !.owns = TRUE, !.dgram = TRUE])

\* accept: the new descriptor exists before the connection closes its old one.
accept ==
  \E c \in Connections, f \in Free(kernel) :
    /\ obj[listener].open /\ ~obj[listener].dgram
    /\ kernel' = [KernelWithout(c) EXCEPT ![f] = "stream"]
    /\ duty' = [DutyWithout(c) EXCEPT ![f] = c]
    /\ obj' = [obj EXCEPT ![c] = [sock |-> f, open |-> TRUE, owns |-> TRUE, dgram |-> FALSE]]
    /\ misused' = MisusedBy(c)
    /\ lent' = lent \ Closed(c)
    /\ UNCHANGED waiters

\* Mutant: the listener keeps its reference.
accept_udp_shared ==
  \E c \in Connections :
    /\ obj[listener].open /\ obj[listener].dgram
    /\ LET f == obj[listener].sock
       IN  /\ kernel' = KernelWithout(c)
           /\ duty' = [DutyWithout(c) EXCEPT ![f] = IF @ = listener THEN c ELSE @]
           /\ lent' = (lent \ Closed(c)) \cup (IF duty[f] = listener THEN {} ELSE {f})
           /\ obj' = [obj EXCEPT ![c] = [sock |-> f, open |-> TRUE, owns |-> TRUE, dgram |-> TRUE]]
    /\ misused' = MisusedBy(c)
    /\ UNCHANGED waiters

\* accept_udp hands the listening socket itself to the connection, as its own, also
\* when the listener had only borrowed it.
accept_udp ==
  \E c \in Connections :
    /\ obj[listener].open /\ obj[listener].dgram
    /\ LET f == obj[listener].sock
       IN  /\ kernel' = KernelWithout(c)
           /\ duty' = [DutyWithout(c) EXCEPT ![f] = IF @ = listener THEN c ELSE @]
           /\ lent' = (lent \ Closed(c)) \cup (IF duty[f] = listener THEN {} ELSE {f})
           /\ obj' = [obj EXCEPT ![c] = [sock |-> f, open |-> TRUE, owns |-> TRUE, dgram |-> TRUE],
                                 ![listener].sock = Invalid, ![listener].open = FALSE]
    /\ misused' = MisusedBy(c)
    /\ UNCHANGED waiters

-----------------------------------------------------------------------------
(* Coroutines *)

\* co_recv or co_send finds the socket not ready: the executor gets its number.
Suspend ==
  \E c \in Connections :
    /\ obj[c].open /\ \A w \in waiters : w.conn # c
    /\ waiters' = waiters \cup {[fd |-> obj[c].sock, conn |-> c]}
    /\ UNCHANGED <<kernel, obj, duty, lent, misused>>

\* Mutant: the coroutine goes on with the descriptor it was suspended on.
SocketOf_Remembered(w) == w.fd

\* ::recv and ::send are called with sock_ as it is now.
SocketOf(w) == obj[w.conn].sock

\* The descriptor is ready, or no longer valid (POLLNVAL), and the coroutine makes
\* its call: on no descriptor at all it fails and close() follows; otherwise the
\* coroutine ends, or closes at the end of the stream, or waits again.
Resume ==
  \E w \in waiters :
    LET f == SocketOf(w)
    IN  /\ waiters' = waiters \ {w}
        /\ \/ /\ f # Invalid
              /\ misused' = IF kernel[f] # "free" /\ ~Holds(w.conn, f)
                            THEN misused \cup {<<"used", f>>} ELSE misused
              /\ UNCHANGED <<kernel, obj, duty, lent>>
           \/ /\ kernel' = KernelWithout(w.conn) /\ duty' = DutyWithout(w.conn)
              /\ obj' = [obj EXCEPT ![w.conn] = Reset(w.conn)]
              /\ lent' = lent \ Closed(w.conn)
              /\ misused' = MisusedBy(w.conn)

-----------------------------------------------------------------------------

\* close() by the caller, by the destructor, or by a handshake or a call that fails.
CloseObject == \E o \in Objects : obj[o].open /\ Close(o)

Next ==
  \/ AppSocket \/ AppClose \/ attach \/ set_datagram_mode \/ CloseObject
  \/ establish_tcp \/ OpeningFails \/ listen \/ listen_udp \/ accept \/ accept_udp
  \/ Suspend \/ Resume

Spec == Init /\ [][Next]_vars

-----------------------------------------------------------------------------
(* Properties *)

\* Types; the descriptor of an open object is open.
TypeOK ==
  /\ kernel \in [Fds -> {"free", "stream", "dgram"}]
  /\ obj \in [Objects -> [sock : Fds \cup {Invalid}, open : BOOLEAN, owns : BOOLEAN, dgram : BOOLEAN]]
  /\ duty \in [Fds -> Objects \cup {app, nobody}]
  /\ lent \subseteq Fds
  /\ waiters \subseteq [fd : Fds, conn : Connections]

\* Nobody closes a descriptor that is someone else's to close: not one that was only
\* lent to it ("close() does not close, does not shutdown", tls_socket.hpp), not one
\* it handed on, not a number the kernel has given to another socket meanwhile.
\* Descriptors lent to a UDP listener are excepted, since accept_udp makes them the
\* connection's own: BorrowedIsNotClosed is about these.
ClosedByOwner == \A m \in misused : m[1] # "closed"

\* What an application has only lent is not closed by any object that has come to hold
\* it: "take_ownership=false: only borrowed, close() neither closes nor shuts down, the
\* caller manages it" (tls_socket.hpp), said of connections and listeners alike.
BorrowedIsNotClosed == \A o \in Objects, f \in Fds : f \in Closed(o) => duty[f] # app

\* No call leaves a descriptor open that nobody will close: what the contract makes
\* an object's is held by it, and its close() closes it; and no two objects use the
\* same descriptor, or one that has been closed.
NothingLeaks ==
  /\ \A f \in Fds :
       /\ kernel[f] = "free" <=> duty[f] = nobody
       /\ duty[f] \in Objects => Holds(duty[f], f) /\ obj[duty[f]].owns
  /\ \A o \in Objects :
       obj[o].open => /\ kernel[obj[o].sock] # "free"
                      /\ \A p \in Objects \ {o} : ~Holds(p, obj[o].sock)

\* A coroutine that is resumed after close(), also after the number it waited on has
\* been given to another connection, reads and writes only what its own connection
\* holds then.
NoForeignIo == \A m \in misused : m[1] # "used"

-----------------------------------------------------------------------------
(* The inductive invariant behind them *)

OpenHasSocket == \A o \in Objects : obj[o].open <=> obj[o].sock # Invalid

\* What an object would close is its own, or was lent to a UDP listener.
OwnsItsDuty ==
  \A o \in Objects :
    obj[o].open /\ obj[o].owns => duty[obj[o].sock] = o \/ obj[o].sock \in lent

LentIsHeld ==
  \A f \in lent : duty[f] = app /\ \E c \in Connections : Holds(c, f) /\ obj[c].owns

EndpointsInv ==
  /\ TypeOK /\ NothingLeaks
  /\ OpenHasSocket /\ OwnsItsDuty /\ LentIsHeld
  /\ misused = {}
=============================================================================
