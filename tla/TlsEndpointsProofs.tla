------------------------- MODULE TlsEndpointsProofs -------------------------
(***************************************************************************)
(* For any number of connections and descriptors: no descriptor is closed  *)
(* or used by an object it does not belong to, and none is left open       *)
(* without an owner.  EndpointsInv is inductive.                           *)
(***************************************************************************)
EXTENDS TlsEndpoints, TLAPS

USE EndpointsAssumption DEF EndpointsAssumption

\* What close() closes is the object's own, so closing it is no misuse.
LEMMA ClosingIsAllowed ==
  ASSUME EndpointsInv, NEW o \in Objects
  PROVE  /\ MisusedBy(o) = {}
         /\ Closed(o) \subseteq {obj[o].sock}
         /\ \A f \in Closed(o) : f \in Fds /\ Holds(o, f) /\ (duty[f] = o \/ f \in lent)
  BY DEF EndpointsInv, OwnsItsDuty, OpenHasSocket, MisusedBy, Closed, TypeOK, Holds, Invalid

\* The initial state satisfies the invariant.
LEMMA InitInv == Init => EndpointsInv
  BY DEF Init, EndpointsInv, TypeOK, NothingLeaks, OpenHasSocket, OwnsItsDuty, LentIsHeld,
         Holds, Unset, Objects, Fds, Invalid

\* What is left when object o has closed what it holds: the other objects' sockets
\* are untouched and o has no duty any more.
LEMMA AfterClosing ==
  ASSUME EndpointsInv, NEW o \in Objects
  PROVE  /\ \A f \in Fds : KernelWithout(o)[f] = "free" <=> DutyWithout(o)[f] = nobody
         /\ \A f \in Fds : DutyWithout(o)[f] # o
         /\ \A f \in Fds : f \notin Closed(o) => KernelWithout(o)[f] = kernel[f] /\ DutyWithout(o)[f] = duty[f]
         /\ \A f \in Closed(o) : KernelWithout(o)[f] = "free" /\ DutyWithout(o)[f] = nobody
         /\ \A p \in Objects \ {o} : obj[p].open => obj[p].sock \in Fds \ Closed(o)
         /\ \A f \in lent \ Closed(o) : \E c \in Connections \ {o} : Holds(c, f) /\ obj[c].owns
         /\ KernelWithout(o) \in [Fds -> {"free", "stream", "dgram"}]
         /\ DutyWithout(o) \in [Fds -> Objects \cup {app, nobody}]
<1>1. \A f \in Closed(o) : f \in Fds /\ Holds(o, f) /\ (duty[f] = o \/ f \in lent)
  BY ClosingIsAllowed
<1>2. \A f \in Fds : IF f \in Closed(o)
                     THEN KernelWithout(o)[f] = "free" /\ DutyWithout(o)[f] = nobody
                     ELSE KernelWithout(o)[f] = kernel[f] /\ DutyWithout(o)[f] = duty[f]
  BY DEF KernelWithout, DutyWithout
<1>3. \A p \in Objects \ {o} : obj[p].open => obj[p].sock \in Fds \ Closed(o)
  BY <1>1 DEF EndpointsInv, TypeOK, NothingLeaks, OpenHasSocket, Holds, Invalid
<1>4. \A f \in Fds : duty[f] = o => f \in Closed(o)
  BY DEF EndpointsInv, NothingLeaks, Closed, Holds, OpenHasSocket
<1>5. \A f \in lent \ Closed(o) : \E c \in Connections \ {o} : Holds(c, f) /\ obj[c].owns
  BY DEF EndpointsInv, LentIsHeld, Holds, Closed, OpenHasSocket, Objects
<1>6. o # nobody BY DEF Objects
<1>7. /\ KernelWithout(o) \in [Fds -> {"free", "stream", "dgram"}]
      /\ DutyWithout(o) \in [Fds -> Objects \cup {app, nobody}]
  BY DEF KernelWithout, DutyWithout, EndpointsInv, TypeOK
<1> QED BY <1>1, <1>2, <1>3, <1>4, <1>5, <1>6, <1>7 DEF EndpointsInv, NothingLeaks

\* close() preserves the invariant.
LEMMA ClosePreserves ==
  ASSUME EndpointsInv, NEW o \in Objects,
         kernel' = KernelWithout(o), duty' = DutyWithout(o), misused' = MisusedBy(o),
         obj' = [obj EXCEPT ![o] = Reset(o)], lent' = lent \ Closed(o),
         waiters' \subseteq waiters
  PROVE  EndpointsInv'
<1>1. misused' = {} BY ClosingIsAllowed
<1>2. /\ ~obj'[o].open /\ obj'[o].sock = Invalid
      /\ \A p \in Objects \ {o} : obj'[p] = obj[p]
  BY DEF EndpointsInv, TypeOK, Reset, Unset
<1>3. TypeOK'
  BY AfterClosing DEF EndpointsInv, TypeOK, Reset, Unset
<1>4. OpenHasSocket'
  BY <1>2 DEF EndpointsInv, OpenHasSocket
<1>5. NothingLeaks'
  BY <1>2, AfterClosing DEF EndpointsInv, NothingLeaks, Holds, Objects
<1>6. OwnsItsDuty'
  BY <1>2, AfterClosing DEF EndpointsInv, OwnsItsDuty
<1>7. LentIsHeld'
  BY <1>2, AfterClosing DEF EndpointsInv, LentIsHeld, TypeOK, Holds, Objects
<1> QED BY <1>1, <1>3, <1>4, <1>5, <1>6, <1>7 DEF EndpointsInv

\* An object that has closed what it held gets descriptor f of the given type, which
\* nobody else holds: as its own, or, if the application keeps the duty, borrowed.
LEMMA TakingPreserves ==
  ASSUME EndpointsInv, NEW o \in Objects, NEW f \in Fds, NEW r, NEW d, NEW type \in {"stream", "dgram"},
         r \in [sock : Fds \cup {Invalid}, open : BOOLEAN, owns : BOOLEAN, dgram : BOOLEAN],
         r.sock = f, r.open,
         (r.owns /\ d = o) \/ (~r.owns /\ d = app),
         f \notin lent, f \notin Closed(o) \/ KernelWithout(o)[f] = "free",
         \A p \in Objects \ {o} : ~Holds(p, f),
         kernel' = [KernelWithout(o) EXCEPT ![f] = type],
         duty' = [DutyWithout(o) EXCEPT ![f] = d],
         obj' = [obj EXCEPT ![o] = r],
         misused' = MisusedBy(o), lent' = lent \ Closed(o), waiters' \subseteq waiters
  PROVE  EndpointsInv'
<1>1. misused' = {} BY ClosingIsAllowed
<1>2. /\ obj'[o] = r
      /\ \A p \in Objects \ {o} : obj'[p] = obj[p]
  BY DEF EndpointsInv, TypeOK
<1>a. /\ kernel'[f] # "free" /\ duty'[f] = d
      /\ \A g \in Fds \ {f} : kernel'[g] = KernelWithout(o)[g] /\ duty'[g] = DutyWithout(o)[g]
  BY AfterClosing
<1>b. d # nobody /\ (d \in Objects => d = o /\ r.owns) BY DEF Objects
<1>3. TypeOK'
  BY AfterClosing DEF EndpointsInv, TypeOK
<1>4. OpenHasSocket'
  BY <1>2 DEF EndpointsInv, OpenHasSocket, Fds, Invalid
<1>5. NothingLeaks'
  BY <1>2, <1>a, <1>b, AfterClosing DEF EndpointsInv, NothingLeaks, Holds, Objects
<1>6. OwnsItsDuty'
  BY <1>2, <1>a, <1>b, AfterClosing DEF EndpointsInv, OwnsItsDuty, Holds
<1>7. LentIsHeld'
  BY <1>2, <1>a, AfterClosing DEF EndpointsInv, LentIsHeld, TypeOK, Holds, Objects
<1> QED BY <1>1, <1>3, <1>4, <1>5, <1>6, <1>7 DEF EndpointsInv

\* A descriptor the application may attach: its own, and no object is using it.
LEMMA AppsOwnIsNotLent ==
  ASSUME EndpointsInv, NEW f \in Fds, duty[f] = app, \A o \in Objects : ~Holds(o, f)
  PROVE  f \notin lent /\ kernel[f] \in {"stream", "dgram"}
         /\ \A o \in Objects : f \notin Closed(o)
  BY ClosingIsAllowed DEF EndpointsInv, LentIsHeld, NothingLeaks, TypeOK, Objects, Closed, Holds

\* A free number is held and lent by no one.
LEMMA FreeIsUnused ==
  ASSUME EndpointsInv, NEW f \in Free(kernel)
  PROVE  f \in Fds /\ f \notin lent /\ \A o \in Objects : ~Holds(o, f) /\ f \notin Closed(o)
  BY DEF Free, EndpointsInv, NothingLeaks, LentIsHeld, Holds, Closed, OpenHasSocket, TypeOK

\* Every step preserves the invariant.
LEMMA NextInv == EndpointsInv /\ [Next]_vars => EndpointsInv'
<1> SUFFICES ASSUME EndpointsInv, [Next]_vars PROVE EndpointsInv'
  OBVIOUS
<1>1. CASE AppSocket
  <2> PICK type \in {"stream", "dgram"}, f \in Free(kernel) :
         /\ kernel' = [kernel EXCEPT ![f] = type] /\ duty' = [duty EXCEPT ![f] = app]
         /\ UNCHANGED <<obj, lent, waiters, misused>>
    BY <1>1 DEF AppSocket
  <2> QED BY FreeIsUnused DEF EndpointsInv, TypeOK, NothingLeaks, OpenHasSocket, OwnsItsDuty,
             LentIsHeld, Holds, Objects
<1>2. CASE AppClose
  <2> PICK f \in Fds :
         /\ duty[f] = app /\ \A o \in Objects : ~Holds(o, f)
         /\ kernel' = [kernel EXCEPT ![f] = "free"] /\ duty' = [duty EXCEPT ![f] = nobody]
         /\ lent' = lent \ {f} /\ UNCHANGED <<obj, waiters, misused>>
    BY <1>2 DEF AppClose
  <2> QED BY AppsOwnIsNotLent DEF EndpointsInv, TypeOK, NothingLeaks, OpenHasSocket, OwnsItsDuty,
             LentIsHeld, Holds, Objects, Fds
<1>3. CASE attach
  <2> PICK o \in Objects, f \in Fds, take_ownership \in BOOLEAN :
         /\ duty[f] = app /\ \A p \in Objects : ~Holds(p, f)
         /\ kernel' = KernelWithout(o)
         /\ duty' = [DutyWithout(o) EXCEPT ![f] = IF take_ownership THEN o ELSE app]
         /\ misused' = MisusedBy(o)
         /\ obj' = [obj EXCEPT ![o] = [sock |-> f, open |-> TRUE, owns |-> take_ownership,
                                       dgram |-> kernel[f] = "dgram"]]
         /\ lent' = lent \ Closed(o) /\ UNCHANGED waiters
    BY <1>3 DEF attach
  <2>1. f \notin lent /\ f \notin Closed(o) /\ kernel[f] \in {"stream", "dgram"}
    BY AppsOwnIsNotLent
  <2>2. kernel' = [KernelWithout(o) EXCEPT ![f] = kernel[f]]
    BY <2>1, AfterClosing
  <2> DEFINE r == [sock |-> f, open |-> TRUE, owns |-> take_ownership, dgram |-> kernel[f] = "dgram"]
             d == IF take_ownership THEN o ELSE app
  <2>3. /\ r \in [sock : Fds \cup {Invalid}, open : BOOLEAN, owns : BOOLEAN, dgram : BOOLEAN]
        /\ r.sock = f /\ r.open /\ ((r.owns /\ d = o) \/ (~r.owns /\ d = app))
    OBVIOUS
  <2> HIDE DEF r, d
  <2>4. obj' = [obj EXCEPT ![o] = r] /\ duty' = [DutyWithout(o) EXCEPT ![f] = d]
    BY DEF r, d
  <2> QED BY <2>1, <2>2, <2>3, <2>4, TakingPreserves
<1>4. CASE set_datagram_mode
  BY <1>4 DEF set_datagram_mode, EndpointsInv, TypeOK, NothingLeaks, OpenHasSocket, OwnsItsDuty,
              LentIsHeld, Holds, Objects
<1>5. CASE CloseObject \/ OpeningFails
  <2> PICK o \in Objects : Close(o) BY <1>5 DEF CloseObject, OpeningFails
  <2> QED BY ClosePreserves DEF Close
<1>6. ASSUME NEW o \in Objects, NEW type \in {"stream", "dgram"}, NEW keep, Opens(o, type, keep),
             keep \in [sock : {Invalid}, open : {FALSE}, owns : {TRUE}, dgram : BOOLEAN]
      PROVE  EndpointsInv'
  <2>p. PICK f \in Free(KernelWithout(o)) :
         /\ kernel' = [KernelWithout(o) EXCEPT ![f] = type]
         /\ duty' = [DutyWithout(o) EXCEPT ![f] = o]
         /\ obj' = [obj EXCEPT ![o] = [keep EXCEPT !.sock = f, !.open = TRUE]]
         /\ misused' = MisusedBy(o) /\ lent' = lent \ Closed(o) /\ UNCHANGED waiters
    BY <1>6 DEF Opens
  <2>1. f \in Fds /\ KernelWithout(o)[f] = "free" BY DEF Free
  <2> DEFINE r == [keep EXCEPT !.sock = f, !.open = TRUE]
  <2>2. /\ r \in [sock : Fds \cup {Invalid}, open : BOOLEAN, owns : BOOLEAN, dgram : BOOLEAN]
        /\ r.sock = f /\ r.open /\ r.owns
    BY <1>6, <2>1
  <2>3. CASE f \in lent
    \* Then f has just been closed by o, and is no longer lent.
    <3>1. f \in Closed(o)
      BY <2>1, <2>3, AfterClosing DEF EndpointsInv, LentIsHeld, NothingLeaks
    <3>2. \A p \in Objects \ {o} : ~Holds(p, f) BY <3>1, AfterClosing DEF Holds
    <3>3. misused' = {} BY <2>p, ClosingIsAllowed
    <3>4. /\ obj'[o] = r
          /\ \A p \in Objects \ {o} : obj'[p] = obj[p]
      BY <2>p DEF EndpointsInv, TypeOK
    <3>5. /\ kernel'[f] # "free" /\ duty'[f] = o /\ o # nobody
          /\ \A g \in Fds \ {f} : kernel'[g] = KernelWithout(o)[g] /\ duty'[g] = DutyWithout(o)[g]
      BY <2>p, <2>1, AfterClosing DEF Objects
    <3> HIDE DEF r
    <3>6. TypeOK' BY <2>p, <2>1, <2>2, <3>4, AfterClosing DEF EndpointsInv, TypeOK, r
    <3>7. OpenHasSocket' BY <2>1, <2>2, <3>4 DEF EndpointsInv, OpenHasSocket, Fds, Invalid
    <3>8. NothingLeaks'
      <4>1. \A g \in Fds : kernel'[g] = "free" <=> duty'[g] = nobody
        BY <2>1, <3>5, AfterClosing
      <4>2. \A g \in Fds : duty'[g] \in Objects =>
               obj'[duty'[g]].open /\ obj'[duty'[g]].sock = g /\ obj'[duty'[g]].owns
        <5> SUFFICES ASSUME NEW g \in Fds, duty'[g] \in Objects
                     PROVE  obj'[duty'[g]].open /\ obj'[duty'[g]].sock = g /\ obj'[duty'[g]].owns
          OBVIOUS
        <5>1. CASE g = f BY <5>1, <2>2, <3>4, <3>5
        <5>2. CASE g # f
          <6>1. duty'[g] = DutyWithout(o)[g] /\ duty'[g] # o BY <5>2, <3>5, AfterClosing
          <6>2. g \notin Closed(o) /\ duty'[g] = duty[g] BY <6>1, AfterClosing DEF Objects
          <6>3. obj'[duty[g]] = obj[duty[g]] BY <6>1, <6>2, <3>4
          <6>4. obj[duty[g]].open /\ obj[duty[g]].sock = g /\ obj[duty[g]].owns
            BY <6>2 DEF EndpointsInv, NothingLeaks, Holds
          <6> QED BY <6>2, <6>3, <6>4
        <5> QED BY <5>1, <5>2
      <4>3. \A q \in Objects : obj'[q].open =>
               /\ kernel'[obj'[q].sock] # "free"
               /\ \A p \in Objects \ {q} : ~(obj'[p].open /\ obj'[p].sock = obj'[q].sock)
        <5> SUFFICES ASSUME NEW q \in Objects, obj'[q].open
                     PROVE  /\ kernel'[obj'[q].sock] # "free"
                            /\ \A p \in Objects \ {q} : ~(obj'[p].open /\ obj'[p].sock = obj'[q].sock)
          OBVIOUS
        <5>1. CASE q = o BY <5>1, <2>2, <3>2, <3>4, <3>5 DEF Holds
        <5>2. CASE q # o
          <6>1. obj'[q] = obj[q] /\ obj[q].sock \in Fds \ Closed(o) /\ obj[q].sock # f
            BY <5>2, <3>1, <3>4, AfterClosing
          <6>2. kernel'[obj'[q].sock] # "free"
            BY <6>1, <3>5, AfterClosing DEF EndpointsInv, NothingLeaks
          <6>3. \A p \in Objects \ {q, o} : ~(obj'[p].open /\ obj'[p].sock = obj'[q].sock)
            BY <6>1, <3>4 DEF EndpointsInv, NothingLeaks, Holds
          <6> QED BY <6>1, <6>2, <6>3, <2>2, <3>4
        <5> QED BY <5>1, <5>2
      <4> QED BY <4>1, <4>2, <4>3 DEF NothingLeaks, Holds
    <3>9. OwnsItsDuty'
      BY <2>p, <2>1, <2>2, <3>2, <3>4, <3>5, AfterClosing DEF EndpointsInv, OwnsItsDuty, Holds
    <3>10. LentIsHeld'
      BY <2>p, <3>1, <3>4, <3>5, AfterClosing DEF EndpointsInv, LentIsHeld, TypeOK, Holds, Objects
    <3> QED BY <3>3, <3>6, <3>7, <3>8, <3>9, <3>10 DEF EndpointsInv
  <2>4. CASE f \notin lent
    <3>1. \A p \in Objects \ {o} : ~Holds(p, f)
      BY <2>1, AfterClosing DEF Holds, EndpointsInv, NothingLeaks
    <3> HIDE DEF r
    <3>2. obj' = [obj EXCEPT ![o] = r] BY <2>p DEF r
    <3> QED BY <2>p, <2>1, <2>2, <2>4, <3>1, <3>2, TakingPreserves
  <2> QED BY <2>3, <2>4
<1>7. CASE establish_tcp
  BY <1>6, <1>7 DEF establish_tcp, Reset, Unset, Objects
<1>8. CASE listen \/ listen_udp
  BY <1>6, <1>8 DEF listen, listen_udp, Unset, Objects
<1>9. CASE accept
  <2> PICK c \in Connections, f \in Free(kernel) :
         /\ kernel' = [KernelWithout(c) EXCEPT ![f] = "stream"]
         /\ duty' = [DutyWithout(c) EXCEPT ![f] = c]
         /\ obj' = [obj EXCEPT ![c] = [sock |-> f, open |-> TRUE, owns |-> TRUE, dgram |-> FALSE]]
         /\ misused' = MisusedBy(c) /\ lent' = lent \ Closed(c) /\ UNCHANGED waiters
    BY <1>9 DEF accept
  <2>1. c \in Objects BY DEF Objects
  <2>2. f \in Fds /\ f \notin lent /\ f \notin Closed(c) /\ \A p \in Objects : ~Holds(p, f)
    BY <2>1, FreeIsUnused
  <2> DEFINE r == [sock |-> f, open |-> TRUE, owns |-> TRUE, dgram |-> FALSE]
  <2>3. /\ r \in [sock : Fds \cup {Invalid}, open : BOOLEAN, owns : BOOLEAN, dgram : BOOLEAN]
        /\ r.sock = f /\ r.open /\ r.owns
    BY <2>2
  <2> HIDE DEF r
  <2>4. obj' = [obj EXCEPT ![c] = r] BY DEF r
  <2> QED BY <2>1, <2>2, <2>3, <2>4, TakingPreserves
<1>10. CASE accept_udp
  <2>f. PICK f : f = obj[listener].sock OBVIOUS
  <2>p. PICK c \in Connections :
         /\ obj[listener].open
         /\ kernel' = KernelWithout(c)
         /\ duty' = [DutyWithout(c) EXCEPT ![f] = IF @ = listener THEN c ELSE @]
         /\ lent' = (lent \ Closed(c)) \cup (IF duty[f] = listener THEN {} ELSE {f})
         /\ obj' = [obj EXCEPT ![c] = [sock |-> f, open |-> TRUE, owns |-> TRUE, dgram |-> TRUE],
                               ![listener].sock = Invalid, ![listener].open = FALSE]
         /\ misused' = MisusedBy(c) /\ UNCHANGED waiters
    BY <1>10, <2>f DEF accept_udp
  <2>1. c \in Objects /\ listener \in Objects /\ c # listener BY DEF Objects
  <2>2. f \in Fds \ Closed(c) /\ kernel[f] # "free" /\ Holds(listener, f)
    BY <2>p, <2>1, <2>f, AfterClosing DEF EndpointsInv, NothingLeaks, Holds
  <2>3. duty[f] \in {listener, app}
    <3>1. duty[f] # nobody BY <2>2 DEF EndpointsInv, NothingLeaks
    <3>2. duty[f] \in Objects => duty[f] = listener
      BY <2>1, <2>2 DEF EndpointsInv, NothingLeaks, Holds
    <3> QED BY <2>2, <3>1, <3>2 DEF EndpointsInv, TypeOK
  <2>4. misused' = {} BY <2>p, <2>1, ClosingIsAllowed
  <2>5. /\ obj'[c].sock = f /\ obj'[c].open /\ obj'[c].owns
        /\ obj'[listener].sock = Invalid /\ ~obj'[listener].open
        /\ \A p \in Objects \ {c, listener} : obj'[p] = obj[p]
    BY <2>p, <2>1 DEF EndpointsInv, TypeOK
  <2>6. /\ duty'[f] = IF duty[f] = listener THEN c ELSE app
        /\ \A g \in Fds \ {f} : duty'[g] = DutyWithout(c)[g] /\ (duty'[g] \in Objects => duty'[g] \notin {c, listener})
    <3>1. DutyWithout(c)[f] = duty[f] BY <2>1, <2>2, AfterClosing
    <3>2. \A g \in Fds \ {f} : DutyWithout(c)[g] # c /\ DutyWithout(c)[g] # listener
      <4>1. \A g \in Fds \ {f} : duty[g] # listener
        BY <2>1, <2>2 DEF EndpointsInv, NothingLeaks, Holds
      <4> QED BY <4>1, <2>1, AfterClosing DEF DutyWithout
    <3> QED BY <2>p, <2>1, <2>2, <2>3, <3>1, <3>2, AfterClosing
  <2>7. \A p \in Objects \ {c, listener} : obj[p].open => obj[p].sock \in Fds \ Closed(c) /\ obj[p].sock # f
    BY <2>1, <2>2, AfterClosing DEF EndpointsInv, NothingLeaks, Holds
  <2>8. TypeOK'
    <3>1. lent' \subseteq Fds BY <2>p, <2>2 DEF EndpointsInv, TypeOK
    <3>2. obj' \in [Objects -> [sock : Fds \cup {Invalid}, open : BOOLEAN, owns : BOOLEAN, dgram : BOOLEAN]]
      BY <2>p, <2>1, <2>2 DEF EndpointsInv, TypeOK
    <3>3. duty' \in [Fds -> Objects \cup {app, nobody}]
      BY <2>p, <2>1, <2>2, AfterClosing
    <3> QED BY <2>p, <2>1, <3>1, <3>2, <3>3, AfterClosing DEF EndpointsInv, TypeOK
  <2>b. f # Invalid BY <2>2 DEF Fds, Invalid
  <2>9. OpenHasSocket'
    <3> SUFFICES ASSUME NEW o \in Objects PROVE obj'[o].open <=> obj'[o].sock # Invalid
      BY DEF OpenHasSocket
    <3>1. CASE o = c BY <3>1, <2>5, <2>b
    <3>2. CASE o = listener BY <3>2, <2>5
    <3>3. CASE o \notin {c, listener} BY <3>3, <2>5 DEF EndpointsInv, OpenHasSocket
    <3> QED BY <3>1, <3>2, <3>3
  <2>a. kernel'[f] # "free" BY <2>p, <2>1, <2>2, AfterClosing
  <2>10. NothingLeaks'
    <3>1. \A g \in Fds : (kernel'[g] = "free" <=> duty'[g] = nobody)
      BY <2>p, <2>1, <2>2, <2>3, <2>6, <2>a, AfterClosing DEF Objects
    <3>2. \A g \in Fds : duty'[g] \in Objects => obj'[duty'[g]].open /\ obj'[duty'[g]].sock = g /\ obj'[duty'[g]].owns
      <4> SUFFICES ASSUME NEW g \in Fds, duty'[g] \in Objects
                   PROVE  obj'[duty'[g]].open /\ obj'[duty'[g]].sock = g /\ obj'[duty'[g]].owns
        OBVIOUS
      <4>1. CASE g = f BY <4>1, <2>5, <2>6, <2>3 DEF Holds, Objects
      <4>2. CASE g # f
        <5>1. duty'[g] \notin {c, listener} /\ duty'[g] = DutyWithout(c)[g] BY <4>2, <2>6
        <5>2. g \notin Closed(c) /\ duty'[g] = duty[g]
          BY <5>1, <2>1, AfterClosing DEF Objects
        <5>3. obj'[duty[g]] = obj[duty[g]] BY <5>1, <5>2, <2>5
        <5> QED BY <5>2, <5>3 DEF EndpointsInv, NothingLeaks, Holds
      <4> QED BY <4>1, <4>2
    <3>3. \A o \in Objects : obj'[o].open => /\ kernel'[obj'[o].sock] # "free"
                                             /\ \A p \in Objects \ {o} : ~(obj'[p].open /\ obj'[p].sock = obj'[o].sock)
      <4> SUFFICES ASSUME NEW o \in Objects, obj'[o].open
                   PROVE  /\ kernel'[obj'[o].sock] # "free"
                          /\ \A p \in Objects \ {o} : ~(obj'[p].open /\ obj'[p].sock = obj'[o].sock)
        OBVIOUS
      <4>1. CASE o = c BY <4>1, <2>1, <2>5, <2>7, <2>a
      <4>2. CASE o = listener BY <4>2, <2>5
      <4>3. CASE o \notin {c, listener}
        <5>1. obj'[o] = obj[o] /\ obj[o].sock \in Fds \ Closed(c) /\ obj[o].sock # f
          BY <4>3, <2>5, <2>7
        <5>2. kernel'[obj'[o].sock] # "free"
          BY <2>p, <5>1, <2>1, AfterClosing DEF EndpointsInv, NothingLeaks
        <5>3. \A p \in Objects \ {o, c, listener} : ~(obj'[p].open /\ obj'[p].sock = obj'[o].sock)
          BY <5>1, <2>5 DEF EndpointsInv, NothingLeaks, Holds
        <5> QED BY <5>1, <5>2, <5>3, <2>5
      <4> QED BY <4>1, <4>2, <4>3
    <3> QED BY <3>1, <3>2, <3>3 DEF NothingLeaks, Holds
  <2>11. OwnsItsDuty'
    <3> SUFFICES ASSUME NEW o \in Objects, obj'[o].open, obj'[o].owns
                 PROVE  duty'[obj'[o].sock] = o \/ obj'[o].sock \in lent'
      BY DEF OwnsItsDuty
    <3>1. CASE o = c
      <4>1. obj'[o].sock = f BY <3>1, <2>5
      <4>2. duty[f] = listener => duty'[f] = c BY <2>6
      <4>3. duty[f] # listener => f \in lent' BY <2>p
      <4> QED BY <3>1, <4>1, <4>2, <4>3
    <3>2. CASE o = listener BY <3>2, <2>5
    <3>3. CASE o \notin {c, listener}
      <4>1. obj'[o] = obj[o] /\ obj[o].sock \in Fds \ Closed(c) /\ obj[o].sock # f
        BY <3>3, <2>5, <2>7
      <4>2. duty[obj[o].sock] = o \/ obj[o].sock \in lent
        BY <4>1 DEF EndpointsInv, OwnsItsDuty
      <4> QED BY <2>p, <4>1, <4>2, <2>1, <2>6, AfterClosing
    <3> QED BY <3>1, <3>2, <3>3
  <2>12. LentIsHeld'
    <3> SUFFICES ASSUME NEW g \in lent'
                 PROVE  duty'[g] = app /\ \E e \in Connections : Holds(e, g)' /\ obj'[e].owns
      BY DEF LentIsHeld
    <3>1. CASE g = f
      <4>1. duty[f] # listener
        BY <2>p, <3>1, <2>3 DEF EndpointsInv, LentIsHeld, Objects
      <4> QED BY <3>1, <4>1, <2>5, <2>6 DEF Holds
    <3>2. CASE g # f
      <4>1. g \in lent \ Closed(c) /\ g \in Fds BY <2>p, <3>2 DEF EndpointsInv, TypeOK
      <4>2. PICK e \in Connections \ {c} : Holds(e, g) /\ obj[e].owns BY <4>1, <2>1, AfterClosing
      <4>3. obj'[e] = obj[e] BY <4>2, <2>5 DEF Objects
      <4> QED BY <3>2, <4>1, <4>2, <4>3, <2>1, <2>6, AfterClosing DEF EndpointsInv, LentIsHeld, Holds
    <3> QED BY <3>1, <3>2
  <2> QED BY <2>4, <2>8, <2>9, <2>10, <2>11, <2>12 DEF EndpointsInv
<1>11. CASE Suspend
  <2>1. waiters' \subseteq [fd : Fds, conn : Connections]
    BY <1>11 DEF Suspend, EndpointsInv, TypeOK, OpenHasSocket, Objects
  <2> QED BY <1>11, <2>1 DEF Suspend, EndpointsInv, TypeOK, NothingLeaks, OpenHasSocket, OwnsItsDuty,
              LentIsHeld, Holds
<1>12. CASE Resume
  <2> PICK w \in waiters :
         /\ waiters' = waiters \ {w}
         /\ \/ /\ SocketOf(w) # Invalid
               /\ misused' = IF kernel[SocketOf(w)] # "free" /\ ~Holds(w.conn, SocketOf(w))
                             THEN misused \cup {<<"used", SocketOf(w)>>} ELSE misused
               /\ UNCHANGED <<kernel, obj, duty, lent>>
            \/ /\ kernel' = KernelWithout(w.conn) /\ duty' = DutyWithout(w.conn)
               /\ obj' = [obj EXCEPT ![w.conn] = Reset(w.conn)]
               /\ lent' = lent \ Closed(w.conn) /\ misused' = MisusedBy(w.conn)
    BY <1>12 DEF Resume
  <2>1. w.conn \in Objects BY DEF EndpointsInv, TypeOK, Objects
  <2>2. SocketOf(w) # Invalid => Holds(w.conn, SocketOf(w))
    BY <2>1 DEF SocketOf, Holds, EndpointsInv, OpenHasSocket
  <2>3. CASE UNCHANGED <<kernel, obj, duty, lent>> /\ misused' = misused
    BY <2>3 DEF EndpointsInv, TypeOK, NothingLeaks, OpenHasSocket, OwnsItsDuty, LentIsHeld, Holds
  <2> QED BY <2>1, <2>2, <2>3, ClosePreserves
<1>13. CASE UNCHANGED vars
  BY <1>13 DEF vars, EndpointsInv, TypeOK, NothingLeaks, OpenHasSocket, OwnsItsDuty, LentIsHeld, Holds
<1> QED BY <1>1, <1>2, <1>3, <1>4, <1>5, <1>7, <1>8, <1>9, <1>10, <1>11, <1>12, <1>13 DEF Next

\* The invariant holds of every reachable state.
THEOREM Invariance == Spec => []EndpointsInv
  BY InitInv, NextInv, PTL DEF Spec

\* No object closes a descriptor that is not its own to close, whatever is attached,
\* accepted, borrowed and closed, by any number of connections.
THEOREM NeverClosesAnothers == Spec => []ClosedByOwner
<1>1. EndpointsInv => ClosedByOwner BY DEF EndpointsInv, ClosedByOwner
<1> QED BY <1>1, Invariance, PTL

\* Every open descriptor has exactly one owner that will close it, and no two objects
\* share one.
THEOREM NeverLeaks == Spec => []NothingLeaks
<1>1. EndpointsInv => NothingLeaks BY DEF EndpointsInv
<1> QED BY <1>1, Invariance, PTL

\* A resumed coroutine never reads or writes a descriptor of another object.
THEOREM NeverForeignIo == Spec => []NoForeignIo
<1>1. EndpointsInv => NoForeignIo BY DEF EndpointsInv, NoForeignIo
<1> QED BY <1>1, Invariance, PTL
=============================================================================
