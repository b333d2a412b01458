--------------------------- MODULE TlsSocketProofs ---------------------------
(***************************************************************************)
(* Proofs about TlsSocket, for every use, record size and buffer capacity: *)
(* the stream stays framed, an honest peer's records open, and payloads    *)
(* reach the caller in order and at most once.                             *)
(*                                                                         *)
(* All three follow from one picture.  What is in rbuf_, in the kernel and *)
(* still to be written is one Stream of units, and each record in it is    *)
(* "after" the one before: a greater record number, and where the number   *)
(* is the very next one the payload is the very next one too.  The chain   *)
(* starts at the number the receiver expects and ends at the number the    *)
(* sender uses next.  A record that is lost, skipped unopened or abandoned *)
(* by a send that would block leaves a gap in the numbers that never       *)
(* closes, and no record behind a gap opens.                               *)
(***************************************************************************)
EXTENDS TlsSocket, SequenceTheorems, WellFoundedInduction, TLAPS

Unit(u) == [id : 1 .. Len(u.kinds), seq : Nat, part : 1 .. RecordUnits]

Unsent == IF s_open THEN rec ELSE <<>>

Stream == rbuf \o pipe \o Unsent

\* No datagrams that are lost, no partly read record dropped by enable_ktls, no
\* handshake record skipped in TLS 1.2.
Dependable ==
  /\ ~use.datagram /\ ~(use.ktls /\ RecvMode = "nonblocking")
  /\ Ver = 12 => \A i \in DOMAIN Kinds : Kinds[i] # "ticket"

\* Then only a send that is repeated can open a gap.
Reliable == Dependable /\ SendMode # "nonblocking"

Strict == IF Reliable THEN 1 ELSE 0

\* Record (q2, i2) comes after record (q, i); with x = 1, right after it.
After(x, q, i, q2, i2) ==
  /\ q2 > q
  /\ q2 = q + 1 => i2 = i + 1
  /\ x = 1 => q2 = q + 1

Adjacent(x, a, b) ==
  IF a.part = RecordUnits
  THEN b.part = 1 /\ After(x, a.seq, a.id, b.seq, b.id)
  ELSE b.part = a.part + 1 /\ b.seq = a.seq /\ b.id = a.id

Chain(x, s) == \A i \in 1 .. Len(s) - 1 : Adjacent(x, s[i], s[i + 1])

\* A stream that starts with a whole record starts after the last one read, n - 1 ...
StartsAt(x, s, n) == s # <<>> /\ s[1].part = 1 => After(x, n - 1, n, s[1].seq, s[1].id)

\* ... and ends with a whole record, before the next one to be written, (q, i).
EndsAt(x, s, n, q, i) ==
  IF s = <<>> THEN After(x, n - 1, n, q, i)
  ELSE s[Len(s)].part = RecordUnits /\ After(x, s[Len(s)].seq, s[Len(s)].id, q, i)

-----------------------------------------------------------------------------
(* The inductive invariant *)

Calls == {"send", "recv"}

SendType ==
  /\ s_state \in {"idle", "writing", "suspended"}
  /\ write_seq \in Nat /\ off \in Nat
  /\ next \in 1 .. Len(LastRecord) + 1
  /\ s_state # "idle" => next <= Len(LastRecord)
  /\ rec \in Seq(Unit(use))

RecvType ==
  /\ r_state \in {"idle", "reading", "suspended"}
  /\ read_seq \in Nat
  /\ rbuf \in Seq(Unit(use)) /\ Len(rbuf) <= RecordUnits
  /\ out \in Seq(Nat) /\ received \in Seq(Nat)

ExecType == waiters \in Seq(Calls) /\ ready \in Seq(Calls)

TypeInv ==
  /\ use \in Uses
  /\ SendType /\ RecvType /\ ExecType
  /\ pipe \in Seq(Unit(use))

\* A coroutine that waits, or is about to be resumed, is suspended, and is so once.
Asleep(c, s, r) == IF c = "send" THEN s = "suspended" ELSE r = "suspended"

Suspended(c) == Asleep(c, s_state, r_state)
SuspendedNext(c) == Asleep(c, s_state', r_state')

ExecutorInv ==
  /\ \A i \in DOMAIN waiters : Suspended(waiters[i])
  /\ \A i \in DOMAIN ready : Suspended(ready[i])
  /\ \A i, j \in DOMAIN waiters : i # j => waiters[i] # waiters[j]
  /\ \A i, j \in DOMAIN ready : i # j => ready[i] # ready[j]
  /\ \A i \in DOMAIN waiters, j \in DOMAIN ready : waiters[i] # ready[j]

\* What the state of a call says about its connection.
PhaseInv ==
  /\ r_state # "idle" => r_open
  /\ s_state # "idle" => s_open
  /\ s_open /\ s_state = "idle" => rec = <<>>
  /\ r_state = "idle" => Len(rbuf) < RecordUnits
  /\ r_state = "idle" /\ RecvMode # "nonblocking" => rbuf = <<>>
  /\ ktls_active => use.ktls /\ ~use.datagram /\ rbuf = <<>>
  /\ ktls_active /\ r_state # "idle" => out = <<>>

\* The payload after the last one in the stream.
TailId == IF s_state = "idle" THEN FirstRecord(next) ELSE LastRecord[next] + 1

HeadInv ==
  /\ StartsAt(Strict, Stream, read_seq)
  /\ Stream # <<>> /\ Stream[1].part # 1 => ktls_active /\ RecvMode = "nonblocking"

TailInv == s_open => EndsAt(Strict, Stream, read_seq, write_seq, TailId)

\* What is left to write starts with a whole record unless part of it is written;
\* the kernel holds whole datagrams.
RecInv ==
  s_open /\ rec # <<>> =>
    /\ \A i \in DOMAIN rec : rec[i].seq < write_seq
    /\ off = 0 \/ use.datagram => rec[1].part = 1

DatagramInv ==
  use.datagram =>
    /\ rbuf = <<>> \/ Len(rbuf) = RecordUnits
    /\ pipe # <<>> => pipe[1].part = 1 /\ pipe[Len(pipe)].part = RecordUnits

FlowInv == Chain(Strict, Stream) /\ HeadInv /\ TailInv

StreamInv == r_open => FlowInv /\ RecInv /\ DatagramInv

\* Payloads collected or returned are in order, each is one the session has expected;
\* Pending is what this call to recv has collected.
Pending == IF r_state = "idle" THEN <<>> ELSE out

TakenBy(K, s, n) ==
  /\ \A i, j \in DOMAIN s : i < j => s[i] < s[j]
  /\ \A i \in DOMAIN s : s[i] <= n /\ s[i] \in DOMAIN K /\ K[s[i]] = "data"

Apart(s, t) == \A i \in DOMAIN s, j \in DOMAIN t : s[i] < t[j]

TakenInv ==
  /\ TakenBy(Kinds, received, read_seq) /\ TakenBy(Kinds, Pending, read_seq)
  /\ Apart(received, Pending)

\* No record of the stream has the number n or a smaller one.
Ahead(n) ==
  IF Stream = <<>> THEN s_open => write_seq > n ELSE Stream[1].seq > n

\* Every payload up to n has been returned or is about to be.
Within(n, s) == \E j \in DOMAIN s : s[j] = n

Covered(K, s, t, m) ==
  \A n \in DOMAIN K : n <= m /\ K[n] = "data" => Within(n, s) \/ Within(n, t)

NoGap(K, s) ==
  \A i \in DOMAIN s : \A n \in 1 .. s[i] : K[n] = "data" => Within(n, s)

\* Nothing is left out as long as a record can still open: behind a gap none does.
GapInv ==
  Waits => /\ NoGap(Kinds, received)
           /\ r_open => Ahead(read_seq) \/ Covered(Kinds, received, Pending, read_seq)

InStepInv == Reliable => ~failed

IInv ==
  /\ TypeInv /\ ExecutorInv /\ PhaseInv /\ StreamInv
  /\ TakenInv /\ GapInv /\ InStepInv

-----------------------------------------------------------------------------
(* Sequences and induction *)

\* Induction over the natural numbers, for a set instead of a predicate.
LEMMA NatSetInduction ==
  ASSUME NEW S, 0 \in S, \A n \in Nat : n \in S => n + 1 \in S
  PROVE  \A n \in Nat : n \in S
<1> SUFFICES ASSUME NEW m \in Nat, m \notin S PROVE FALSE
  OBVIOUS
<1> DEFINE T == Nat \ S
           R == OpToRel(<, Nat)
<1>1. IsWellFoundedOn(R, Nat)
  BY NatLessThanWellFounded
<1>2. T \subseteq Nat /\ T # {}
  OBVIOUS
<1> HIDE DEF R, T
<1>3. PICK n \in T : \A k \in T : ~(<<k, n>> \in R)
  BY <1>1, <1>2, WFMin
<1>4. \A k \in T : ~(k < n)
  BY <1>2, <1>3 DEF R, OpToRel
<1>5. n \in Nat /\ n # 0 /\ n - 1 \in Nat /\ n - 1 \notin T
  BY <1>4 DEF T
<1> QED BY <1>5 DEF T

\* Length and elements of three sequences one after the other.
LEMMA Concat3 ==
  ASSUME NEW U, NEW a \in Seq(U), NEW b \in Seq(U), NEW c \in Seq(U)
  PROVE  /\ a \o b \o c \in Seq(U)
         /\ Len(a \o b \o c) = Len(a) + Len(b) + Len(c)
         /\ \A i \in 1 .. Len(a) : (a \o b \o c)[i] = a[i]
         /\ \A i \in 1 .. Len(b) : (a \o b \o c)[Len(a) + i] = b[i]
         /\ \A i \in 1 .. Len(c) : (a \o b \o c)[Len(a) + Len(b) + i] = c[i]
  OBVIOUS

\* Units that move from the front of b to the end of a leave a \o b as it is.
LEMMA MoveFront ==
  ASSUME NEW U, NEW a \in Seq(U), NEW b \in Seq(U), NEW n \in 1 .. Len(b)
  PROVE  /\ a \o SubSeq(b, 1, n) \in Seq(U) /\ SubSeq(b, n + 1, Len(b)) \in Seq(U)
         /\ Len(SubSeq(b, n + 1, Len(b))) = Len(b) - n
         /\ Len(a \o SubSeq(b, 1, n)) = Len(a) + n
         /\ \A i \in 1 .. Len(b) - n : SubSeq(b, n + 1, Len(b))[i] = b[n + i]
         /\ (a \o SubSeq(b, 1, n)) \o SubSeq(b, n + 1, Len(b)) = a \o b
<1>1. SubSeq(b, 1, n) \in Seq(U) /\ Len(SubSeq(b, 1, n)) = n
  OBVIOUS
<1>2. SubSeq(b, n + 1, Len(b)) \in Seq(U) /\ Len(SubSeq(b, n + 1, Len(b))) = Len(b) - n
  OBVIOUS
<1>3. \A i \in 1 .. Len(b) - n : SubSeq(b, n + 1, Len(b))[i] = b[n + i]
  OBVIOUS
<1>4. SubSeq(b, 1, n) \o SubSeq(b, n + 1, Len(b)) = b
  BY ConcatAdjacentSubSeq, SubSeqFull
<1> DEFINE f == SubSeq(b, 1, n)
           g == SubSeq(b, n + 1, Len(b))
<1>5. f \in Seq(U) /\ g \in Seq(U) /\ Len(f) = n /\ f \o g = b
  BY <1>1, <1>2, <1>4
<1>6. ASSUME NEW c \in Seq(U), NEW d \in Seq(U)
      PROVE  (a \o c) \o d = a \o (c \o d) /\ a \o c \in Seq(U) /\ Len(a \o c) = Len(a) + Len(c)
  <2>1. (a \o c) \o d = a \o (c \o d)
    <3>1. a \in Seq(U) /\ c \in Seq(U) /\ d \in Seq(U)
      BY <1>6
    <3> QED BY <3>1, ConcatAssociative, SMTT(30)
  <2>2. a \o c \in Seq(U) /\ Len(a \o c) = Len(a) + Len(c)
    BY <1>6, ConcatProperties
  <2> QED BY <2>1, <2>2
<1>7. (a \o f) \o g = a \o b /\ a \o f \in Seq(U) /\ Len(a \o f) = Len(a) + n
  <2> HIDE DEF f, g
  <2> QED BY <1>5, <1>6
<1> QED
  BY <1>2, <1>3, <1>7


-----------------------------------------------------------------------------
(* Chains *)

\* The fields of the units of a sequence.
LEMMA UnitFields ==
  ASSUME NEW u, NEW s \in Seq(Unit(u)), NEW i \in 1 .. Len(s)
  PROVE  s[i].seq \in Nat /\ s[i].id \in Nat /\ s[i].part \in 1 .. RecordUnits
<1>1. s[i] \in Unit(u)
  OBVIOUS
<1> QED
  BY <1>1 DEF Unit

\* In particular of the first one.
LEMMA HeadFields ==
  ASSUME NEW u, NEW s \in Seq(Unit(u)), s # <<>>
  PROVE  s[1].seq \in Nat /\ s[1].id \in Nat /\ s[1].part \in 1 .. RecordUnits
<1>1. 1 \in 1 .. Len(s)
  OBVIOUS
<1> QED
  BY <1>1, UnitFields

\* The units of a chain from a header on are one record, up to its last unit.
LEMMA RecordAt ==
  ASSUME NEW x, NEW U, NEW s \in Seq(U), Chain(x, s),
         NEW j \in 1 .. Len(s), s[j].part = 1,
         NEW e \in j .. Len(s), e < j + RecordUnits
  PROVE  s[e].part = e - j + 1 /\ s[e].seq = s[j].seq /\ s[e].id = s[j].id
<1> DEFINE Same(i) == s[i].part = i - j + 1 /\ s[i].seq = s[j].seq /\ s[i].id = s[j].id
           S == {n \in Nat : j + n <= Len(s) /\ n < RecordUnits => Same(j + n)}
<1>1. 0 \in S
  OBVIOUS
<1>2. ASSUME NEW n \in Nat, n \in S PROVE n + 1 \in S
  <2> SUFFICES ASSUME j + n + 1 <= Len(s), n + 1 < RecordUnits PROVE Same(j + n + 1)
    BY SizesAssumption, j + (n + 1) = j + n + 1
  <2>1. Same(j + n)
    BY <1>2, SizesAssumption
  <2>2. Adjacent(x, s[j + n], s[j + n + 1])
    BY DEF Chain
  <2> QED
    BY <2>1, <2>2, SizesAssumption DEF Adjacent
<1>3. \A n \in Nat : n \in S
  <2> HIDE DEF S
  <2> QED BY <1>1, <1>2, NatSetInduction
<1>4. e - j \in S /\ e - j \in Nat /\ j + (e - j) = e
  BY <1>3
<1> QED
  BY <1>4, SizesAssumption

\* A part of a chain is a chain.
LEMMA ChainPart ==
  ASSUME NEW x, NEW U, NEW s \in Seq(U), NEW t \in Seq(U), NEW k \in Nat,
         Chain(x, s), k + Len(t) <= Len(s), \A i \in 1 .. Len(t) : t[i] = s[k + i]
  PROVE  Chain(x, t)
<1> SUFFICES ASSUME NEW i \in 1 .. Len(t) - 1 PROVE Adjacent(x, t[i], t[i + 1])
  BY DEF Chain
<1>1. Adjacent(x, s[k + i], s[k + i + 1])
  BY DEF Chain
<1>2. t[i] = s[k + i] /\ t[i + 1] = s[k + i + 1]
  BY k + (i + 1) = k + i + 1
<1> QED
  BY <1>1, <1>2

\* Two chains whose ends fit are a chain.
LEMMA ChainJoin ==
  ASSUME NEW x, NEW U, NEW s \in Seq(U), NEW t \in Seq(U), Chain(x, s), Chain(x, t),
         s # <<>> /\ t # <<>> => Adjacent(x, s[Len(s)], t[1])
  PROVE  Chain(x, s \o t)
<1> SUFFICES ASSUME NEW i \in 1 .. Len(s \o t) - 1
             PROVE  Adjacent(x, (s \o t)[i], (s \o t)[i + 1])
  BY DEF Chain
<1>1. CASE i < Len(s)
  <2>1. (s \o t)[i] = s[i] /\ (s \o t)[i + 1] = s[i + 1]
    BY <1>1
  <2> QED BY <1>1, <2>1 DEF Chain
<1>2. CASE i = Len(s)
  <2>1. (s \o t)[i] = s[i] /\ (s \o t)[i + 1] = t[1] /\ s # <<>> /\ t # <<>>
    BY <1>2
  <2> QED BY <1>2, <2>1
<1>3. CASE i > Len(s)
  <2>1. /\ i - Len(s) \in 1 .. Len(t) - 1
        /\ (s \o t)[i] = t[i - Len(s)] /\ (s \o t)[i + 1] = t[(i - Len(s)) + 1]
    BY <1>3
  <2> QED BY <2>1 DEF Chain
<1> QED
  BY <1>1, <1>2, <1>3

\* What comes later than the next record is not right after this one.
LEMMA LaterIsAfter ==
  ASSUME NEW x, x # 1, NEW q \in Int, NEW i, NEW q2 \in Int, NEW i2, NEW q3 \in Int, NEW i3,
         After(x, q, i, q2, i2), q3 > q2
  PROVE  After(x, q, i, q3, i3)
  BY DEF After

\* Before a header there is the end of a record.
LEMMA BeforeHeader ==
  ASSUME NEW x, NEW u, NEW s \in Seq(Unit(u)), Chain(x, s), NEW k \in 1 .. Len(s) - 1,
         s[k + 1].part = 1
  PROVE  s[k].part = RecordUnits /\ After(x, s[k].seq, s[k].id, s[k + 1].seq, s[k + 1].id)
<1>1. Adjacent(x, s[k], s[k + 1])
  BY DEF Chain
<1> QED
  BY <1>1, UnitFields, SizesAssumption DEF Adjacent

\* send: new records after the end of the stream.
LEMMA AppendRecords ==
  ASSUME NEW x, NEW u, NEW s \in Seq(Unit(u)), NEW t \in Seq(Unit(u)), NEW n, NEW q, NEW i,
         Chain(x, s), StartsAt(x, s, n), EndsAt(x, s, n, q, i),
         Chain(x, t), t # <<>>, t[1].part = 1, t[1].seq = q, t[1].id = i,
         NEW q2, NEW i2, t[Len(t)].part = RecordUnits,
         After(x, t[Len(t)].seq, t[Len(t)].id, q2, i2)
  PROVE  /\ Chain(x, s \o t) /\ StartsAt(x, s \o t, n) /\ EndsAt(x, s \o t, n, q2, i2)
         /\ (s \o t)[1].part = 1 \/ (s # <<>> /\ (s \o t)[1] = s[1])
<1>1. Chain(x, s \o t)
  <2>1. s # <<>> => Adjacent(x, s[Len(s)], t[1])
    BY DEF EndsAt, Adjacent
  <2> QED BY <2>1, ChainJoin
<1>2. (s \o t)[Len(s \o t)] = t[Len(t)] /\ s \o t # <<>>
  OBVIOUS
<1>3. (s # <<>> => (s \o t)[1] = s[1]) /\ (s = <<>> => (s \o t)[1] = t[1])
  OBVIOUS
<1>4. StartsAt(x, s \o t, n)
  BY <1>3 DEF StartsAt, EndsAt
<1> QED
  BY <1>1, <1>2, <1>3, <1>4 DEF EndsAt

\* Right after the next record, seen from this one.
LEMMA AfterNext ==
  ASSUME NEW x, NEW n \in Nat, NEW q \in Nat, NEW i \in Nat, NEW q2 \in Nat, NEW i2 \in Nat,
         After(x, n - 1, n, q, i), After(x, q, i, q2, i2)
  PROVE  After(x, n, n + 1, q2, i2) /\ (x # 1 => After(x, n - 1, n, q2, i2))
<1>1. q >= n /\ q2 > q
  BY DEF After
<1>2. q2 = n + 1 => i2 = n + 2
  BY <1>1 DEF After
<1>3. x = 1 => q2 = n + 1
  BY <1>1 DEF After
<1>4. q2 > n /\ q2 # n
  BY <1>1
<1> QED
  BY <1>2, <1>3, <1>4 DEF After

\* A record is taken off the front of the stream.
LEMMA TakeRecord ==
  ASSUME NEW x, NEW u, NEW s \in Seq(Unit(u)), NEW t \in Seq(Unit(u)),
         NEW n \in Nat, NEW m \in {n, n + 1}, m = n => x # 1,
         Chain(x, s), StartsAt(x, s, n), s[1].part = 1,
         RecordUnits <= Len(s), Len(t) = Len(s) - RecordUnits,
         \A i \in 1 .. Len(t) : t[i] = s[RecordUnits + i]
  PROVE  /\ Chain(x, t) /\ StartsAt(x, t, m)
         /\ t # <<>> => t[1].part = 1 /\ t[1].seq > s[1].seq
         /\ \A q \in Nat, i \in Nat :
              EndsAt(x, s, n, q, i) => EndsAt(x, t, m, q, i) /\ (t = <<>> => q > s[1].seq)
<1>1. RecordUnits \in Nat /\ RecordUnits >= 1 /\ Len(s) \in Nat /\ Len(t) \in Nat
      /\ RecordUnits + Len(t) <= Len(s) /\ s # <<>>
  BY SizesAssumption
<1>2. Chain(x, t)
  BY <1>1, ChainPart
<1>3. /\ s[RecordUnits].part = RecordUnits
      /\ s[RecordUnits].seq = s[1].seq /\ s[RecordUnits].id = s[1].id
  <2>1. 1 \in 1 .. Len(s) /\ RecordUnits \in 1 .. Len(s) /\ RecordUnits < 1 + RecordUnits
    BY <1>1
  <2> QED BY <1>1, <2>1, RecordAt
<1>4. /\ s[1].seq \in Nat /\ s[1].id \in Nat
      /\ After(x, n - 1, n, s[1].seq, s[1].id)
  BY <1>1, UnitFields DEF StartsAt
<1>5. ASSUME t # <<>>
      PROVE  /\ t[1].part = 1 /\ After(x, s[1].seq, s[1].id, t[1].seq, t[1].id)
             /\ t[1].seq \in Nat /\ t[1].id \in Nat
  <2>1. Len(t) >= 1
    BY <1>5
  <2>2. RecordUnits \in 1 .. Len(s) - 1 /\ 1 \in 1 .. Len(t)
    BY <1>1, <2>1
  <2>3. Adjacent(x, s[RecordUnits], s[RecordUnits + 1]) /\ t[1] = s[RecordUnits + 1]
    BY <2>2 DEF Chain
  <2> QED BY <1>3, <2>2, <2>3, UnitFields DEF Adjacent
<1>6. StartsAt(x, t, m) /\ (t # <<>> => t[1].part = 1 /\ t[1].seq > s[1].seq)
  <2>1. CASE t = <<>>
    BY <2>1 DEF StartsAt
  <2>2. CASE t # <<>>
    <3>1. /\ t[1].part = 1 /\ After(x, s[1].seq, s[1].id, t[1].seq, t[1].id)
          /\ t[1].seq \in Nat /\ t[1].id \in Nat
      BY <1>5, <2>2
    <3>2. After(x, n, n + 1, t[1].seq, t[1].id) /\ (x # 1 => After(x, n - 1, n, t[1].seq, t[1].id))
      <4> DEFINE q == s[1].seq
                 i == s[1].id
                 q2 == t[1].seq
                 i2 == t[1].id
      <4>1. q \in Nat /\ i \in Nat /\ q2 \in Nat /\ i2 \in Nat
            /\ After(x, n - 1, n, q, i) /\ After(x, q, i, q2, i2)
        BY <1>4, <3>1
      <4> HIDE DEF q, i, q2, i2
      <4>2. After(x, n, n + 1, q2, i2) /\ (x # 1 => After(x, n - 1, n, q2, i2))
        BY <4>1, AfterNext
      <4> QED BY <4>2 DEF q2, i2
    <3>3. t[1].seq > s[1].seq /\ (n + 1) - 1 = n
      BY <3>1 DEF After
    <3> QED BY <3>1, <3>2, <3>3 DEF StartsAt
  <2> QED BY <2>1, <2>2
<1>7. ASSUME NEW q \in Nat, NEW i \in Nat, EndsAt(x, s, n, q, i)
      PROVE  EndsAt(x, t, m, q, i) /\ (t = <<>> => q > s[1].seq)
  <2>1. CASE t = <<>>
    <3>1. s[Len(s)] = s[RecordUnits]
      BY <1>1, <2>1
    <3>2. After(x, s[1].seq, s[1].id, q, i)
      BY <1>1, <1>3, <1>7, <3>1 DEF EndsAt
    <3>3. CASE m = n
      BY <1>4, <2>1, <3>2, <3>3 DEF EndsAt, After
    <3>4. CASE m = n + 1
      BY <1>4, <2>1, <3>2, <3>4 DEF EndsAt, After
    <3> QED BY <3>3, <3>4
  <2>2. CASE t # <<>>
    <3>1. t[Len(t)] = s[Len(s)]
      BY <1>1, <2>2
    <3> QED BY <1>1, <1>7, <2>2, <3>1 DEF EndsAt
  <2> QED BY <2>1, <2>2
<1> QED
  BY <1>2, <1>6, <1>7

\* t is s without the record that follows its first k units.
Without(s, k, t) ==
  /\ k + RecordUnits <= Len(s) /\ Len(t) = Len(s) - RecordUnits
  /\ \A i \in 1 .. Len(t) : t[i] = IF i <= k THEN s[i] ELSE s[RecordUnits + i]

\* A record is taken out of the middle of the stream; the gap in the numbers stays.
LEMMA LoseRecord ==
  ASSUME NEW x, x # 1, NEW u, NEW s \in Seq(Unit(u)), NEW t \in Seq(Unit(u)), NEW n \in Nat,
         NEW k \in Nat, Without(s, k, t),
         Chain(x, s), StartsAt(x, s, n), s[1].part = 1, s[k + 1].part = 1
  PROVE  /\ Chain(x, t) /\ StartsAt(x, t, n)
         /\ t # <<>> => t[1].part = 1 /\ t[1].seq >= s[1].seq
         /\ \A q \in Nat, i \in Nat :
              EndsAt(x, s, n, q, i) => EndsAt(x, t, n, q, i) /\ (t = <<>> => q > s[1].seq)
<1>1. /\ RecordUnits \in Nat /\ RecordUnits >= 1 /\ Len(s) \in Nat /\ Len(t) \in Nat
      /\ k + RecordUnits <= Len(s) /\ Len(t) = Len(s) - RecordUnits
      /\ s # <<>> /\ s[1].seq \in Nat
  BY SizesAssumption, UnitFields DEF Without
<1>2. CASE k = 0
  <2>1. \A i \in 1 .. Len(t) : t[i] = s[RecordUnits + i]
    BY <1>2 DEF Without
  <2>2. /\ Chain(x, t) /\ StartsAt(x, t, n)
        /\ t # <<>> => t[1].part = 1 /\ t[1].seq > s[1].seq
        /\ \A q \in Nat, i \in Nat :
              EndsAt(x, s, n, q, i) => EndsAt(x, t, n, q, i) /\ (t = <<>> => q > s[1].seq)
    <3>1. n \in {n, n + 1} /\ (n = n => x # 1) /\ RecordUnits <= Len(s)
      BY <1>1, <1>2
    <3> QED BY <1>1, <2>1, <3>1, TakeRecord
  <2>3. t # <<>> => t[1].seq \in Nat
    BY HeadFields
  <2> QED BY <1>1, <2>2, <2>3
<1>3. CASE k > 0
  <2> DEFINE e == k + RecordUnits
  <2>1. /\ e \in Nat /\ k < e /\ e <= Len(s) /\ e - (k + 1) + 1 = RecordUnits
        /\ k + 1 \in 1 .. Len(s) /\ e \in k + 1 .. Len(s) /\ e < (k + 1) + RecordUnits
        /\ k \in 1 .. Len(s) - 1 /\ k <= Len(t) /\ 1 <= Len(t) /\ Len(t) - k = Len(s) - e
    BY <1>1, <1>3
  <2> HIDE DEF e
  <2>2. s[k].part = RecordUnits /\ After(x, s[k].seq, s[k].id, s[k + 1].seq, s[k + 1].id)
    BY <2>1, BeforeHeader
  <2>3. s[e].part = RecordUnits /\ s[e].seq = s[k + 1].seq
    BY <2>1, RecordAt
  <2>4. /\ s[k].seq \in Nat /\ s[k + 1].seq \in Nat /\ t # <<>>
    BY <1>1, <2>1, UnitFields
  <2>5. ASSUME NEW i \in 1 .. k PROVE t[i] = s[i]
    <3>1. i \in 1 .. Len(t) /\ i <= k
      BY <1>1, <2>1, <2>5
    <3> QED BY <3>1 DEF Without
  <2>6. ASSUME NEW i \in k + 1 .. Len(t) PROVE t[i] = s[(i - k) + e] /\ (i - k) + e \in 1 .. Len(s)
    BY <1>1, <1>3, <2>1, <2>6 DEF Without, e
  <2>7. ASSUME NEW i \in 1 .. Len(t) - 1 PROVE Adjacent(x, t[i], t[i + 1])
    <3>1. CASE i < k
      <4>1. i \in 1 .. k /\ i + 1 \in 1 .. k /\ i \in 1 .. Len(s) - 1
        BY <1>1, <2>1, <2>7, <3>1
      <4> QED BY <2>5, <4>1 DEF Chain
    <3>2. CASE i = k
      <4>1. i \in 1 .. k /\ k + 1 \in k + 1 .. Len(t) /\ (k + 1 - k) + e = e + 1 /\ e \in 1 .. Len(s) - 1
        BY <1>1, <1>3, <2>1, <2>7, <3>2
      <4>2. t[i] = s[k] /\ t[i + 1] = s[e + 1] /\ e + 1 \in 1 .. Len(s)
        <5>1. t[k + 1] = s[(k + 1 - k) + e] /\ (k + 1 - k) + e \in 1 .. Len(s)
          BY <2>6, <4>1
        <5> QED BY <2>5, <3>2, <4>1, <5>1
      <4>3. Adjacent(x, s[e], s[e + 1]) /\ s[e + 1].seq \in Nat
        BY <4>1, <4>2, UnitFields DEF Chain
      <4>4. s[e + 1].part = 1 /\ s[e + 1].seq > s[k + 1].seq
        BY <2>3, <4>3 DEF Adjacent, After
      <4>5. After(x, s[k].seq, s[k].id, s[e + 1].seq, s[e + 1].id)
        BY <2>2, <2>4, <4>3, <4>4, LaterIsAfter
      <4> QED BY <2>2, <4>2, <4>4, <4>5 DEF Adjacent
    <3>3. CASE i > k
      <4> DEFINE j == (i - k) + e
      <4>1. /\ i \in k + 1 .. Len(t) /\ i + 1 \in k + 1 .. Len(t) /\ (i + 1 - k) + e = j + 1
            /\ j \in 1 .. Len(s) - 1
        BY <1>1, <1>3, <2>1, <2>7, <3>3
      <4>2. t[i] = s[j]
        BY <2>6, <4>1
      <4>3. t[i + 1] = s[(i + 1 - k) + e]
        BY <2>6, <4>1
      <4> HIDE DEF j
      <4> QED BY <4>1, <4>2, <4>3 DEF Chain
    <3> QED BY <2>7, <3>1, <3>2, <3>3
  <2>8. Chain(x, t)
    BY <2>7 DEF Chain
  <2>9. t[1] = s[1]
    BY <1>3, <2>5
  <2>10. StartsAt(x, t, n)
    BY <1>1, <2>4, <2>9 DEF StartsAt
  <2>11. ASSUME NEW q \in Nat, NEW i \in Nat, EndsAt(x, s, n, q, i)
         PROVE  EndsAt(x, t, n, q, i)
    <3>1. CASE Len(t) > k
      <4>1. Len(t) \in k + 1 .. Len(t) /\ (Len(t) - k) + e = Len(s)
        BY <1>1, <1>3, <2>1, <3>1
      <4>2. t[Len(t)] = s[Len(s)]
        BY <2>6, <4>1
      <4> QED BY <1>1, <2>4, <2>11, <4>2 DEF EndsAt
    <3>2. CASE Len(t) = k
      <4>1. Len(s) = e /\ Len(t) \in 1 .. k
        BY <1>1, <1>3, <2>1, <3>2
      <4>2. t[Len(t)] = s[k]
        BY <2>5, <3>2, <4>1
      <4>3. q > s[k + 1].seq
        BY <1>1, <2>3, <2>11, <4>1 DEF EndsAt, After
      <4>4. After(x, s[k].seq, s[k].id, q, i)
        BY <2>2, <2>4, <4>3, LaterIsAfter
      <4> QED BY <2>2, <2>4, <4>2, <4>4 DEF EndsAt
    <3>3. Len(t) > k \/ Len(t) = k
      BY ONLY <1>1, <2>1, k \in Nat
    <3> QED BY <3>1, <3>2, <3>3
  <2> QED BY <1>1, <2>4, <2>8, <2>9, <2>10, <2>11
<1> QED
  BY <1>2, <1>3

\* Whole records are taken off the end of the stream; the numbers they had are gone.
LEMMA AbandonRecords ==
  ASSUME NEW x, x # 1, NEW u, NEW s \in Seq(Unit(u)), NEW t \in Seq(Unit(u)), NEW n \in Nat,
         Len(t) < Len(s), \A i \in 1 .. Len(t) : t[i] = s[i],
         Chain(x, s), StartsAt(x, s, n), s[Len(t) + 1].part = 1,
         NEW q \in Nat, NEW i, s[Len(t) + 1].seq < q
  PROVE  /\ Chain(x, t) /\ StartsAt(x, t, n) /\ EndsAt(x, t, n, q, i)
         /\ t # <<>> => t[1] = s[1]
<1>1. /\ Len(t) \in Nat /\ Len(s) \in Nat /\ s # <<>> /\ Len(t) + 1 \in 1 .. Len(s)
      /\ 0 + Len(t) <= Len(s) /\ \A j \in 1 .. Len(t) : t[j] = s[0 + j]
  OBVIOUS
<1>2. Chain(x, t)
  BY <1>1, ChainPart, 0 \in Nat
<1>3. t # <<>> => t[1] = s[1]
  BY <1>1
<1>4. s[Len(t) + 1].seq \in Nat
  BY <1>1, UnitFields
<1>5. CASE t = <<>>
  <2>1. s[1].part = 1 /\ s[1].seq < q /\ s[1].seq \in Nat
    BY <1>1, <1>4, <1>5
  <2> QED BY <1>1, <1>2, <1>5, <2>1 DEF StartsAt, EndsAt, After
<1>6. CASE t # <<>>
  <2>1. Len(t) \in 1 .. Len(s) - 1 /\ t[Len(t)] = s[Len(t)]
    BY <1>1, <1>6
  <2>2. /\ s[Len(t)].part = RecordUnits
        /\ After(x, s[Len(t)].seq, s[Len(t)].id, s[Len(t) + 1].seq, s[Len(t) + 1].id)
    BY <2>1, BeforeHeader
  <2>3. s[Len(t)].seq \in Nat
    BY <2>1, UnitFields
  <2>4. StartsAt(x, t, n)
    BY <1>1, <1>3, <1>6 DEF StartsAt
  <2>5. EndsAt(x, t, n, q, i)
    BY <1>4, <1>6, <2>1, <2>2, <2>3 DEF EndsAt, After
  <2> QED BY <1>2, <1>3, <2>4, <2>5
<1> QED
  BY <1>5, <1>6

-----------------------------------------------------------------------------
(* tls_encrypt *)

\* Quotient and remainder.
LEMMA DivMod ==
  ASSUME NEW v \in Nat, NEW r \in Nat \ {0}
  PROVE  /\ v \div r \in Nat /\ v % r \in Nat /\ v % r < r
         /\ v = r * (v \div r) + (v % r)
  OBVIOUS

\* There is only one quotient and remainder.
LEMMA DivModUnique ==
  ASSUME NEW r \in Nat \ {0}, NEW a \in Nat, NEW b \in Nat, NEW c \in Nat, NEW d \in Nat,
         b < r, d < r, r * a + b = r * c + d
  PROVE  a = c /\ b = d
<1>1. ASSUME NEW k \in Nat, NEW l \in Nat, k < l, NEW m \in Nat, NEW n \in Nat, m < r, n < r
      PROVE  r * k + m # r * l + n
  <2>1. l - k - 1 \in Nat
    BY <1>1
  <2>2. PICK e \in Nat : l = k + 1 + e
    BY <1>1, <2>1, l = k + 1 + (l - k - 1)
  <2>3. r * l = r * k + r + r * e /\ r * e >= 0
    BY <2>2
  <2> QED BY <1>1, <2>3
<1> QED
  BY <1>1

\* The quotient of a position within c records.
LEMMA DivBound ==
  ASSUME NEW v \in Nat, NEW r \in Nat \ {0}, NEW c \in Nat, v < c * r
  PROVE  v \div r < c
  BY DivMod

\* Counting on: within a record, and into the next one.
LEMMA DivModStep ==
  ASSUME NEW v \in Nat, NEW r \in Nat \ {0}
  PROVE  /\ (v % r) + 1 < r => (v + 1) \div r = v \div r /\ (v + 1) % r = (v % r) + 1
         /\ (v % r) + 1 = r => (v + 1) \div r = v \div r + 1 /\ (v + 1) % r = 0
<1> DEFINE a == v \div r
           b == v % r
           c == (v + 1) \div r
           d == (v + 1) % r
<1>1. a \in Nat /\ b \in Nat /\ b < r /\ v = r * a + b
  BY DivMod
<1>2. c \in Nat /\ d \in Nat /\ d < r /\ v + 1 = r * c + d
  BY DivMod
<1> HIDE DEF a, b, c, d
<1>3. ASSUME b + 1 < r PROVE c = a /\ d = b + 1
  <2>1. b + 1 \in Nat /\ r * a + (b + 1) = r * c + d
    BY <1>1, <1>2
  <2> QED BY <1>1, <1>2, <1>3, <2>1, DivModUnique
<1>4. ASSUME b + 1 = r PROVE c = a + 1 /\ d = 0
  <2>1. a + 1 \in Nat /\ 0 \in Nat /\ 0 < r /\ r * (a + 1) + 0 = r * c + d
    BY <1>1, <1>2, <1>4
  <2> QED BY <1>1, <1>2, <2>1, DivModUnique
<1> QED
  BY <1>3, <1>4 DEF a, b, c, d

\* The records of one message: numbered from w, with the payloads f .. f + c - 1.
Records(f, w, c) ==
  [u \in 1 .. c * RecordUnits |->
     LET k == (u - 1) \div RecordUnits
     IN  [id |-> f + k, seq |-> w + k, part |-> ((u - 1) % RecordUnits) + 1]]

LEMMA RecordsChain ==
  ASSUME NEW u, NEW f \in Nat \ {0}, NEW w \in Nat, NEW c \in Nat \ {0},
         Len(u.kinds) \in Nat, f + c - 1 <= Len(u.kinds)
  PROVE  LET t == Records(f, w, c)
         IN  /\ t \in Seq(Unit(u)) /\ t # <<>>
             /\ \A x : Chain(x, t)
             /\ t[1].part = 1 /\ t[1].seq = w /\ t[1].id = f
             /\ t[Len(t)].part = RecordUnits
             /\ t[Len(t)].seq = w + c - 1 /\ t[Len(t)].id = f + c - 1
             /\ \A i \in 1 .. Len(t) : t[i].seq < w + c
<1> DEFINE R == RecordUnits
           t == Records(f, w, c)
           L == c * R
           K(i) == (i - 1) \div R
           P(i) == (i - 1) % R
<1>1. R \in Nat \ {0} /\ L \in Nat /\ L >= 1 /\ R >= 2
  BY SizesAssumption
<1>2. ASSUME NEW i \in 1 .. L
      PROVE  K(i) \in Nat /\ P(i) \in Nat /\ K(i) < c /\ P(i) < R
  <2>1. i - 1 \in Nat /\ i - 1 < c * R
    BY <1>1, <1>2
  <2>2. K(i) \in Nat /\ P(i) \in Nat /\ P(i) < R
    BY <1>1, <2>1, DivMod
  <2>3. K(i) < c
    BY <1>1, <2>1, DivBound
  <2> QED BY <2>2, <2>3
<1>3. ASSUME NEW i \in 1 .. L, NEW a \in Nat, NEW b \in Nat, b < R, i - 1 = R * a + b
      PROVE  K(i) = a /\ P(i) = b
  <2>1. i - 1 \in Nat
    BY <1>1, <1>3
  <2>2. i - 1 = R * K(i) + P(i)
    BY <1>1, <2>1, DivMod
  <2>3. K(i) \in Nat /\ P(i) \in Nat /\ P(i) < R
    BY <1>2, <1>3
  <2> HIDE DEF K, P, L, R, t
  <2>4. R * K(i) + P(i) = R * a + b
    BY <1>3, <2>2
  <2> QED BY ONLY <1>1, <1>3, <2>3, <2>4, DivModUnique
<1>4. ASSUME NEW i \in 1 .. L
      PROVE  t[i] = [id |-> f + K(i), seq |-> w + K(i), part |-> P(i) + 1]
  BY <1>4 DEF Records
<1>5. DOMAIN t = 1 .. L /\ t = [i \in 1 .. L |-> t[i]]
  BY DEF Records
<1>6. ASSUME NEW i \in 1 .. L - 1
      PROVE  /\ P(i) + 1 < R => K(i + 1) = K(i) /\ P(i + 1) = P(i) + 1
             /\ P(i) + 1 = R => K(i + 1) = K(i) + 1 /\ P(i + 1) = 0
  <2> DEFINE v == i - 1
  <2>1. v \in Nat /\ (i + 1) - 1 = v + 1
    BY <1>1, <1>6
  <2>2. /\ (v % R) + 1 < R => (v + 1) \div R = v \div R /\ (v + 1) % R = (v % R) + 1
        /\ (v % R) + 1 = R => (v + 1) \div R = v \div R + 1 /\ (v + 1) % R = 0
    <3> HIDE DEF v, R
    <3> QED BY <1>1, <2>1, DivModStep
  <2> QED BY <2>1, <2>2
<1> HIDE DEF R, t, L, K, P
<1>7. ASSUME NEW i \in 1 .. L PROVE t[i] \in Unit(u)
  <2>1. K(i) \in Nat /\ P(i) \in Nat /\ K(i) < c /\ P(i) < R
    BY <1>2, <1>7
  <2>2. w + K(i) \in Nat /\ P(i) + 1 \in 1 .. RecordUnits
    BY <1>1, <2>1 DEF R
  <2>4. f + K(i) \in 1 .. Len(u.kinds)
    <3>1. f + K(i) \in Nat /\ 1 <= f + K(i) /\ f + K(i) <= f + c - 1
      BY <2>1
    <3> QED BY <3>1
  <2>3. t[i] = [id |-> f + K(i), seq |-> w + K(i), part |-> P(i) + 1]
    BY <1>4, <1>7
  <2> QED BY <2>2, <2>3, <2>4 DEF Unit
<1>8. t \in Seq(Unit(u)) /\ Len(t) = L /\ t # <<>>
  <2>1. t \in [1 .. L -> Unit(u)]
    BY <1>5, <1>7
  <2> QED BY <1>1, <2>1
<1>9. t[1].part = 1 /\ t[1].seq = w /\ t[1].id = f
  <2>1. 1 \in 1 .. L /\ 1 - 1 = R * 0 + 0 /\ 0 \in Nat /\ 0 < R
    BY <1>1
  <2>2. K(1) = 0 /\ P(1) = 0
    BY <1>3, <2>1
  <2>3. t[1] = [id |-> f + K(1), seq |-> w + K(1), part |-> P(1) + 1]
    BY <1>4, <2>1
  <2> QED BY <2>2, <2>3
<1>10. t[L].part = R /\ t[L].seq = w + c - 1 /\ t[L].id = f + c - 1
  <2>1. /\ L \in 1 .. L /\ c - 1 \in Nat /\ R - 1 \in Nat /\ R - 1 < R
        /\ L - 1 = R * (c - 1) + (R - 1)
    BY <1>1 DEF L
  <2>2. K(L) = c - 1 /\ P(L) = R - 1
    BY <1>3, <2>1
  <2>3. t[L] = [id |-> f + K(L), seq |-> w + K(L), part |-> P(L) + 1]
    BY <1>4, <2>1
  <2> QED BY <1>1, <2>2, <2>3
<1>11. ASSUME NEW x, NEW i \in 1 .. L - 1 PROVE Adjacent(x, t[i], t[i + 1])
  <2>1. i \in 1 .. L /\ i + 1 \in 1 .. L
    BY <1>1, <1>11
  <2>2. /\ t[i] = [id |-> f + K(i), seq |-> w + K(i), part |-> P(i) + 1]
        /\ t[i + 1] = [id |-> f + K(i + 1), seq |-> w + K(i + 1), part |-> P(i + 1) + 1]
    BY <1>4, <2>1
  <2>3. K(i) \in Nat /\ P(i) \in Nat /\ P(i) < R
    BY <1>2, <2>1
  <2>4. CASE P(i) + 1 < R
    BY <1>1, <1>6, <1>11, <2>2, <2>3, <2>4 DEF Adjacent, R
  <2>5. CASE P(i) + 1 = R
    <3>1. K(i + 1) = K(i) + 1 /\ P(i + 1) = 0
      BY <1>6, <1>11, <2>5
    <3>2. After(x, w + K(i), f + K(i), w + (K(i) + 1), f + (K(i) + 1))
      BY <2>3 DEF After
    <3> QED BY <2>2, <2>5, <3>1, <3>2 DEF Adjacent, R
  <2> QED BY <1>1, <2>3, <2>4, <2>5
<1>12. \A x : Chain(x, t)
  BY <1>8, <1>11 DEF Chain
<1>13. ASSUME NEW i \in 1 .. L PROVE t[i].seq < w + c
  <2>1. t[i] = [id |-> f + K(i), seq |-> w + K(i), part |-> P(i) + 1]
    BY <1>4, <1>13
  <2>2. K(i) \in Nat /\ K(i) < c
    BY <1>2, <1>13
  <2> QED BY <2>1, <2>2
<1> QED
  BY <1>8, <1>9, <1>10, <1>12, <1>13 DEF t, R

-----------------------------------------------------------------------------
(* Facts about the state *)

\* The messages of a use: consecutive, not empty, within the records of the use.
LEMMA UseFacts ==
  ASSUME TypeInv
  PROVE  /\ use \in Use /\ Len(Kinds) \in Nat /\ Len(LastRecord) \in Nat /\ DOMAIN Kinds = 1 .. Len(Kinds)
         /\ \A m \in 1 .. Len(LastRecord) :
              /\ FirstRecord(m) \in Nat \ {0} /\ LastRecord[m] \in Nat
              /\ FirstRecord(m) <= LastRecord[m] /\ LastRecord[m] <= Len(Kinds)
              /\ FirstRecord(m + 1) = LastRecord[m] + 1
<1>1. /\ use \in Use
      /\ \A m \in 2 .. Len(LastRecord) : LastRecord[m - 1] < LastRecord[m]
      /\ \A m \in 1 .. Len(LastRecord) : LastRecord[m] <= Len(Kinds)
  BY UsesAssumption DEF TypeInv, LastRecord, Kinds
<1>2. Kinds \in Seq({"data", "ticket", "alert"}) /\ LastRecord \in Seq(Nat \ {0})
  BY <1>1 DEF Use, LastRecord, Kinds
<1>3. /\ Len(Kinds) \in Nat /\ Len(LastRecord) \in Nat /\ DOMAIN Kinds = 1 .. Len(Kinds)
      /\ \A m \in 1 .. Len(LastRecord) : LastRecord[m] \in Nat \ {0}
  BY <1>2
<1>4. ASSUME NEW m \in 1 .. Len(LastRecord)
      PROVE  FirstRecord(m) \in Nat \ {0} /\ FirstRecord(m) <= LastRecord[m]
  <2>1. CASE m = 1
    BY <1>3, <1>4, <2>1 DEF FirstRecord
  <2>2. CASE m # 1
    <3>1. m - 1 \in 1 .. Len(LastRecord) /\ m \in 2 .. Len(LastRecord)
      BY <1>3, <1>4, <2>2
    <3>2. LastRecord[m - 1] < LastRecord[m] /\ LastRecord[m - 1] \in Nat /\ LastRecord[m] \in Nat
      BY <1>1, <1>3, <1>4, <3>1
    <3> QED BY <2>2, <3>2 DEF FirstRecord
  <2> QED BY <2>1, <2>2
<1>5. ASSUME NEW m \in 1 .. Len(LastRecord) PROVE FirstRecord(m + 1) = LastRecord[m] + 1
  <2>1. m + 1 # 1 /\ (m + 1) - 1 = m
    BY <1>5
  <2> QED BY <2>1 DEF FirstRecord
<1> QED
  BY <1>1, <1>3, <1>4, <1>5

\* The payload that comes next.
LEMMA TailIdType ==
  ASSUME TypeInv
  PROVE  TailId \in Nat
<1>1. next \in 1 .. Len(LastRecord) + 1 /\ (s_state # "idle" => next <= Len(LastRecord)) /\ Len(LastRecord) \in Nat
  BY UseFacts DEF TypeInv, SendType
<1>2. ASSUME NEW m \in 1 .. Len(LastRecord) PROVE LastRecord[m] + 1 \in Nat
  BY <1>2, UseFacts
<1>3. CASE s_state # "idle"
  <2>1. next \in 1 .. Len(LastRecord)
    BY <1>1, <1>3
  <2> QED BY <1>2, <1>3, <2>1 DEF TailId
<1>4. CASE s_state = "idle" /\ next = 1
  BY <1>4 DEF TailId, FirstRecord
<1>5. CASE s_state = "idle" /\ next # 1
  <2>1. next - 1 \in 1 .. Len(LastRecord)
    BY <1>1, <1>5
  <2> QED BY <1>2, <1>5, <2>1 DEF TailId, FirstRecord
<1> QED
  BY <1>3, <1>4, <1>5

\* What send is about to write.
LEMMA EncryptFacts ==
  ASSUME TypeInv, next <= Len(LastRecord)
  PROVE  LET t == tls_encrypt(next)
             c == LastRecord[next] - FirstRecord(next) + 1
         IN  /\ c \in Nat \ {0} /\ t \in Seq(Unit(use)) /\ t # <<>>
             /\ \A x : Chain(x, t)
             /\ t[1].part = 1 /\ t[1].seq = write_seq /\ t[1].id = FirstRecord(next)
             /\ t[Len(t)].part = RecordUnits
             /\ t[Len(t)].seq = write_seq + c - 1 /\ t[Len(t)].id = LastRecord[next]
             /\ \A i \in 1 .. Len(t) : t[i].seq < write_seq + c
<1> DEFINE f == FirstRecord(next)
           c == LastRecord[next] - f + 1
<1>1. /\ next \in 1 .. Len(LastRecord) /\ write_seq \in Nat
  BY UseFacts DEF TypeInv, SendType
<1>2. /\ f \in Nat \ {0} /\ LastRecord[next] \in Nat /\ f <= LastRecord[next]
      /\ LastRecord[next] <= Len(use.kinds) /\ Len(use.kinds) \in Nat
  BY <1>1, UseFacts DEF Kinds
<1>3. c \in Nat \ {0} /\ f + c - 1 = LastRecord[next]
  BY <1>2
<1>4. tls_encrypt(next) = Records(f, write_seq, c)
  BY DEF tls_encrypt, Records
<1> HIDE DEF f, c
<1>5. LET t == Records(f, write_seq, c)
      IN  /\ t \in Seq(Unit(use)) /\ t # <<>>
          /\ \A x : Chain(x, t)
          /\ t[1].part = 1 /\ t[1].seq = write_seq /\ t[1].id = f
          /\ t[Len(t)].part = RecordUnits
          /\ t[Len(t)].seq = write_seq + c - 1 /\ t[Len(t)].id = f + c - 1
          /\ \A i \in 1 .. Len(t) : t[i].seq < write_seq + c
  BY <1>1, <1>2, <1>3, RecordsChain
<1> QED
  BY <1>3, <1>4, <1>5 DEF f, c

\* The stream and its parts.
LEMMA StreamParts ==
  ASSUME TypeInv
  PROVE  /\ Stream \in Seq(Unit(use)) /\ Unsent \in Seq(Unit(use))
         /\ Len(Stream) = Len(rbuf) + Len(pipe) + Len(Unsent)
         /\ Len(rbuf) \in Nat /\ Len(pipe) \in Nat /\ Len(Unsent) \in Nat
         /\ \A i \in 1 .. Len(rbuf) : Stream[i] = rbuf[i]
         /\ \A i \in 1 .. Len(pipe) : Stream[Len(rbuf) + i] = pipe[i]
         /\ \A i \in 1 .. Len(Unsent) : Stream[Len(rbuf) + Len(pipe) + i] = Unsent[i]
<1>1. rbuf \in Seq(Unit(use)) /\ pipe \in Seq(Unit(use)) /\ Unsent \in Seq(Unit(use))
  BY DEF TypeInv, SendType, RecvType, Unsent
<1>2. Len(rbuf) \in Nat /\ Len(pipe) \in Nat /\ Len(Unsent) \in Nat
  BY <1>1
<1>3. LET s == rbuf \o pipe \o Unsent
      IN  /\ s \in Seq(Unit(use)) /\ Len(s) = Len(rbuf) + Len(pipe) + Len(Unsent)
          /\ \A i \in 1 .. Len(rbuf) : s[i] = rbuf[i]
          /\ \A i \in 1 .. Len(pipe) : s[Len(rbuf) + i] = pipe[i]
          /\ \A i \in 1 .. Len(Unsent) : s[Len(rbuf) + Len(pipe) + i] = Unsent[i]
  BY ONLY <1>1, Concat3
<1> QED
  BY <1>1, <1>2, <1>3 DEF Stream

\* The same of the next state.
LEMMA StreamNext ==
  ASSUME TypeInv', use' = use
  PROVE  Stream' \in Seq(Unit(use)) /\ (Stream' # <<>> => Stream'[1].seq \in Nat)
<1>1. Unit(use)' = Unit(use)
  BY DEF Unit
<1>2. rbuf' \in Seq(Unit(use)) /\ pipe' \in Seq(Unit(use)) /\ rec' \in Seq(Unit(use))
  BY <1>1 DEF TypeInv, SendType, RecvType
<1>3. Unsent' \in Seq(Unit(use))
  BY <1>2 DEF Unsent
<1>4. ASSUME NEW a \in Seq(Unit(use)), NEW b \in Seq(Unit(use)), NEW c \in Seq(Unit(use))
      PROVE  a \o b \o c \in Seq(Unit(use))
  OBVIOUS
<1>5. Stream' \in Seq(Unit(use))
  BY <1>2, <1>3, <1>4 DEF Stream
<1> QED
  BY <1>5, UnitFields

\* The actions.
LEMMA StepCases ==
  ASSUME Next
  PROVE  /\ use' = use
         /\ \/ send \/ WriteSome \/ WriteDone \/ WriteWouldBlock \/ PartialWriteTimeout
            \/ WriteSuspends \/ WriteFails \/ CloseSender
            \/ recv \/ FillSome \/ FillWouldBlock \/ FillSuspends \/ FillEof \/ read_record
            \/ CloseReceiver \/ KtlsRecord \/ KtlsEof
            \/ run_once \/ resume \/ enable_ktls \/ LoseDatagram
  BY DEF Next, SenderStep, ReceiverStep, ExecutorStep, Optional

\* What read_record does with a record: it does not open, is data, is skipped, or is
\* the peer's close_notify.
Fails(r) ==
  /\ ~SkippedUnopened(r.id) /\ r.seq # read_seq /\ read_seq' = read_seq + 1
  /\ r_state' = "idle" /\ out' = out /\ received' = received /\ failed'

Data(r) ==
  /\ r.seq = read_seq /\ Kinds[r.id] = "data" /\ read_seq' = read_seq + 1
  /\ out' = Append(out, r.id) /\ failed' = failed /\ r_open' = r_open
  /\ \/ r_state' = r_state /\ received' = received
     \/ r_state' = "idle" /\ received' = received \o out'

Skips(r) ==
  /\ \/ SkippedUnopened(r.id) /\ read_seq' = read_seq
     \/ r.seq = read_seq /\ Kinds[r.id] = "ticket" /\ read_seq' = read_seq + 1
  /\ UNCHANGED <<r_state, out, received, failed, r_open>>

Alerted(r) ==
  /\ r.seq = read_seq /\ Kinds[r.id] = "alert" /\ read_seq' = read_seq + 1
  /\ r_state' = "idle" /\ out' = out /\ failed' = failed
  /\ \/ RecvMode = "coroutine" /\ Ver = 13 /\ received' = received /\ r_open' = r_open
     \/ ~r_open' /\ (received' = received \/ received' = received \o out)

\* read_record, in those terms.
LEMMA ReadEffect ==
  ASSUME read_record
  PROVE  /\ r_state = "reading" /\ ~ktls_active /\ Len(rbuf) = RecordUnits
         /\ rbuf' = <<>> /\ UNCHANGED <<sendVars, ktls_active, pipe>>
         /\ waiters' = waiters /\ ready' = ready
         /\ Fails(rbuf[1]) \/ Data(rbuf[1]) \/ Skips(rbuf[1]) \/ Alerted(rbuf[1])
<1> DEFINE r == rbuf[1]
<1>1. /\ r_state = "reading" /\ ~ktls_active /\ Len(rbuf) = RecordUnits
      /\ rbuf' = <<>> /\ UNCHANGED <<sendVars, ktls_active, pipe>>
      /\ read_seq' = IF SkippedUnopened(r.id) THEN read_seq ELSE read_seq + 1
  BY DEF read_record, Reading
<1>2. \/ ~SkippedUnopened(r.id) /\ r.seq # read_seq /\ DecryptFails(r.id)
      \/ r.seq = read_seq /\ Kinds[r.id] = "data" /\ DataRecord(r.id)
      \/ /\ SkippedUnopened(r.id) \/ (r.seq = read_seq /\ Kinds[r.id] = "ticket")
         /\ Continue /\ UNCHANGED <<out, r_open, failed>>
      \/ r.seq = read_seq /\ Kinds[r.id] = "alert" /\ AlertRecord
  BY DEF read_record, tls_decrypt
<1>3. Kinds[r.id] # "ticket" => ~SkippedUnopened(r.id)
  BY DEF SkippedUnopened
<1> HIDE DEF r
<1>4. ASSUME ~SkippedUnopened(r.id) /\ r.seq # read_seq /\ DecryptFails(r.id)
      PROVE  Fails(r) /\ waiters' = waiters /\ ready' = ready
  BY <1>1, <1>4 DEF DecryptFails, ReturnFalse, Ends, execVars, Fails
<1>5. ASSUME r.seq = read_seq /\ Kinds[r.id] = "data" /\ DataRecord(r.id)
      PROVE  Data(r) /\ waiters' = waiters /\ ready' = ready
  BY <1>1, <1>3, <1>5 DEF DataRecord, ReturnTrue, Continue, Ends, execVars, Data
<1>6. ASSUME /\ SkippedUnopened(r.id) \/ (r.seq = read_seq /\ Kinds[r.id] = "ticket")
             /\ Continue /\ UNCHANGED <<out, r_open, failed>>
      PROVE  Skips(r) /\ waiters' = waiters /\ ready' = ready
  BY <1>1, <1>6 DEF Continue, execVars, Skips
<1>7. ASSUME r.seq = read_seq /\ Kinds[r.id] = "alert" /\ AlertRecord
      PROVE  Alerted(r) /\ waiters' = waiters /\ ready' = ready
  BY <1>1, <1>3, <1>7 DEF AlertRecord, ReturnTrue, ReturnFalse, Ends, execVars, Alerted
<1> QED
  BY <1>1, <1>2, <1>4, <1>5, <1>6, <1>7 DEF r

\* recv under kTLS: the next record is returned, or the connection is closed.
LEMMA KtlsEffect ==
  ASSUME KtlsRecord
  PROVE  /\ r_state = "reading" /\ ktls_active /\ Len(pipe) >= RecordUnits
         /\ pipe' = SubSeq(pipe, RecordUnits + 1, Len(pipe))
         /\ read_seq' = read_seq + 1 /\ r_state' = "idle" /\ rbuf' = rbuf /\ UNCHANGED sendVars
         /\ waiters' = waiters /\ ready' = ready
         /\ \/ /\ pipe[1].part = 1 /\ pipe[1].seq = read_seq /\ Kinds[pipe[1].id] = "data"
               /\ out' = <<pipe[1].id>> /\ received' = received \o out'
               /\ UNCHANGED <<r_open, ktls_active, failed>>
            \/ /\ out' = out /\ received' = received /\ ~r_open' /\ ~ktls_active'
               /\ pipe[1].part = 1 /\ pipe[1].seq = read_seq => (failed' <=> failed)
  BY DEF KtlsRecord, ReturnTrue, ReturnFalse, Ends, execVars

-----------------------------------------------------------------------------
(* Types *)

\* Initially the variables have their types.
LEMMA TypeInit == Init => TypeInv
<1> SUFFICES ASSUME Init PROVE TypeInv
  OBVIOUS
<1>1. use \in Uses /\ use \in Use
  BY UsesAssumption DEF Init
<1>2. Len(LastRecord) \in Nat
  BY <1>1 DEF Use, LastRecord
<1>3. SendType
  BY <1>2 DEF Init, SendType
<1>4. RecvType
  BY SizesAssumption, Len(<<>>) = 0 DEF Init, RecvType
<1>5. ExecType /\ pipe \in Seq(Unit(use))
  BY DEF Init, ExecType
<1> QED
  BY <1>1, <1>3, <1>4, <1>5 DEF TypeInv

\* Every step keeps the types; a read takes no more than the rest of a record.
LEMMA TypeStep ==
  ASSUME TypeInv, ExecutorInv, PhaseInv, StreamInv, Next
  PROVE  TypeInv'
<1> DEFINE U == Unit(use)
<1>1. use' = use /\ use' \in Uses /\ pipe \in Seq(U) /\ RecordUnits \in Nat /\ RecordUnits >= 2
  BY StepCases, SizesAssumption DEF TypeInv
<1>2. SendType /\ RecvType /\ ExecType
  BY DEF TypeInv
<1>e. <<>> \in Seq(U) /\ Len(<<>>) = 0 /\ <<>> \in Seq(Nat)
  OBVIOUS
<1>n. /\ received \o out \in Seq(Nat) /\ \A i \in Nat : Append(out, i) \in Seq(Nat) /\ <<i>> \in Seq(Nat)
      /\ \A i \in Nat : received \o Append(out, i) \in Seq(Nat) /\ received \o <<i>> \in Seq(Nat)
  BY <1>2 DEF RecvType
<1>3. UNCHANGED sendVars => SendType'
  BY <1>1, <1>2 DEF sendVars, SendType, LastRecord
<1>4. UNCHANGED recvVars => RecvType'
  BY <1>1, <1>2 DEF recvVars, RecvType
<1>5. /\ UNCHANGED execVars => ExecType'
      /\ Starts("send") \/ Ends("send") \/ add_waiter("send") => ExecType'
      /\ Starts("recv") \/ Ends("recv") \/ add_waiter("recv") => ExecType'
  <2>1. waiters' = waiters /\ ready' = ready => ExecType'
    BY <1>2 DEF ExecType
  <2>2. ASSUME NEW c \in Calls, add_waiter(c) PROVE ExecType'
    BY <1>2, <2>2 DEF ExecType, add_waiter
  <2>3. UNCHANGED execVars \/ Starts("send") \/ Ends("send") \/ Starts("recv") \/ Ends("recv")
        => waiters' = waiters /\ ready' = ready
    BY DEF execVars, Starts, Ends
  <2> QED BY <2>1, <2>2, <2>3 DEF Calls
<1>6. UNCHANGED pipe => pipe' \in Seq(U)
  BY <1>1
<1>7. ASSUME SendType', RecvType', ExecType', pipe' \in Seq(U) PROVE TypeInv'
  BY <1>1, <1>7 DEF TypeInv
<1>8. ReturnTrue(out) \/ ReturnTrue(out') \/ ReturnFalse(out) \/ Continue => ExecType'
  BY <1>5 DEF ReturnTrue, ReturnFalse, Continue
<1>9. ASSUME NEW n \in Nat, pipe' = SubSeq(pipe, n + 1, Len(pipe)) PROVE pipe' \in Seq(U)
  BY <1>1, <1>9
<1>10. CASE send
  <2>1. next <= Len(LastRecord)
    BY <1>10 DEF send
  <2>2. LastRecord[next] - FirstRecord(next) + 1 \in Nat /\ tls_encrypt(next) \in Seq(U)
    BY <2>1, EncryptFacts
  <2>3. SendType'
    BY <1>1, <1>2, <1>10, <2>1, <2>2 DEF send, SendType, LastRecord
  <2> QED BY <1>4, <1>5, <1>6, <1>7, <1>8, <1>10, <2>3 DEF send
<1>11. CASE WriteSome
  <2>1. PICK n \in Nat : /\ 1 <= n /\ n <= Len(rec)
                         /\ pipe' = pipe \o SubSeq(rec, 1, n)
                         /\ rec' = SubSeq(rec, n + 1, Len(rec)) /\ off' = off + n
    BY <1>1, <1>2, <1>11 DEF WriteSome, SendType
  <2>2. pipe' \in Seq(U) /\ rec' \in Seq(U)
    BY <1>1, <1>2, <2>1, MoveFront DEF SendType
  <2>3. SendType'
    BY <1>1, <1>2, <1>11, <2>1, <2>2 DEF WriteSome, SendType, LastRecord
  <2> QED BY <1>4, <1>5, <1>7, <1>11, <2>2, <2>3 DEF WriteSome
<1>12. CASE WriteDone
  <2>1. SendType'
    BY <1>1, <1>2, <1>12, UseFacts DEF WriteDone, SendType, LastRecord
  <2> QED BY <1>4, <1>5, <1>6, <1>7, <1>8, <1>12, <2>1 DEF WriteDone
<1>13. CASE WriteWouldBlock \/ PartialWriteTimeout
  <2>1. SendType'
    BY <1>1, <1>2, <1>e, <1>13 DEF WriteWouldBlock, PartialWriteTimeout, SendType, LastRecord
  <2> QED BY <1>4, <1>5, <1>6, <1>7, <1>13, <2>1 DEF WriteWouldBlock, PartialWriteTimeout
<1>17. CASE WriteFails \/ CloseSender
  <2>1. SendType'
    BY <1>1, <1>2, <1>17 DEF WriteFails, CloseSender, SendType, LastRecord
  <2> QED BY <1>4, <1>5, <1>6, <1>7, <1>17, <2>1 DEF WriteFails, CloseSender
<1>14. CASE WriteSuspends
  <2>1. SendType'
    BY <1>1, <1>2, <1>14 DEF WriteSuspends, WriteBlocked, SendType, LastRecord
  <2> QED BY <1>4, <1>5, <1>6, <1>7, <1>8, <1>14, <2>1 DEF WriteSuspends
<1>15. CASE recv
  <2>1. RecvType'
    BY <1>1, <1>2, <1>e, <1>n, <1>15 DEF recv, RecvType
  <2> QED BY <1>3, <1>5, <1>6, <1>7, <1>8, <1>15, <2>1 DEF recv
<1>16. CASE FillSome
  <2>1. PICK n \in 1 .. Len(pipe) : /\ rbuf' = rbuf \o SubSeq(pipe, 1, n)
                                   /\ pipe' = SubSeq(pipe, n + 1, Len(pipe))
                                   /\ IF use.datagram THEN n = RecordUnits ELSE Len(rbuf) + n <= min_total
    BY <1>16 DEF FillSome
  <2>2. pipe' \in Seq(U) /\ rbuf' \in Seq(U) /\ Len(rbuf') = Len(rbuf) + n
    BY <1>1, <1>2, <2>1, MoveFront DEF RecvType
  <2>3. Len(rbuf') <= RecordUnits
    <3>1. CASE use.datagram
      BY <1>1, <1>2, <1>16, <2>1, <2>2, <3>1
         DEF FillSome, Reading, RecvType, PhaseInv, StreamInv, DatagramInv
    <3>2. CASE ~use.datagram
      BY <1>1, <1>2, <2>1, <2>2, <3>2 DEF min_total, RecvType
    <3> QED BY <3>1, <3>2
  <2>4. RecvType'
    BY <1>1, <1>2, <1>16, <2>2, <2>3 DEF FillSome, RecvType
  <2> QED BY <1>3, <1>5, <1>7, <1>16, <2>2, <2>4 DEF FillSome
<1>18. CASE FillWouldBlock
  <2>1. RecvType'
    BY <1>1, <1>2, <1>18 DEF FillWouldBlock, ReturnFalse, RecvType
  <2> QED BY <1>3, <1>6, <1>7, <1>8, <1>18, <2>1 DEF FillWouldBlock
<1>19. CASE FillSuspends
  <2>1. RecvType'
    BY <1>1, <1>2, <1>19 DEF FillSuspends, RecvType
  <2> QED BY <1>3, <1>5, <1>6, <1>7, <1>19, <2>1 DEF FillSuspends
<1>20. CASE FillEof
  <2>1. RecvType'
    BY <1>1, <1>2, <1>e, <1>n, <1>20 DEF FillEof, ReturnFalse, RecvType
  <2> QED BY <1>3, <1>6, <1>7, <1>8, <1>20, <2>1 DEF FillEof
<1>21. CASE read_record
  <2>1. rbuf[1].id \in Nat
    <3>1. rbuf \in Seq(Unit(use)) /\ 1 \in 1 .. Len(rbuf)
      BY <1>1, <1>2, <1>21 DEF read_record, RecvType
    <3> QED BY <3>1, UnitFields
  <2>2. /\ rbuf' = <<>> /\ UNCHANGED <<sendVars, pipe>> /\ waiters' = waiters /\ ready' = ready
        /\ Fails(rbuf[1]) \/ Data(rbuf[1]) \/ Skips(rbuf[1]) \/ Alerted(rbuf[1])
    BY <1>21, ReadEffect
  <2>3. read_seq' \in Nat /\ r_state' \in {"idle", "reading", "suspended"}
    BY <1>2, <2>2 DEF Fails, Data, Skips, Alerted, RecvType
  <2>7. out' \in Seq(Nat)
    <3>1. out' = out \/ out' = Append(out, rbuf[1].id)
      BY <2>2 DEF Fails, Data, Skips, Alerted
    <3> QED BY <1>2, <1>n, <2>1, <3>1 DEF RecvType
  <2>4. received' \in Seq(Nat)
    <3>1. received' = received \/ received' = received \o out \/ received' = received \o Append(out, rbuf[1].id)
      BY <2>2 DEF Fails, Data, Skips, Alerted
    <3> QED BY <1>2, <1>n, <2>1, <3>1 DEF RecvType
  <2>5. RecvType'
    BY <1>1, <1>e, <2>2, <2>3, <2>4, <2>7 DEF RecvType
  <2>6. ExecType'
    BY <1>2, <2>2 DEF ExecType
  <2> QED BY <1>3, <1>6, <1>7, <2>2, <2>5, <2>6
<1>22. CASE CloseReceiver
  <2>1. RecvType'
    BY <1>1, <1>2, <1>e, <1>n, <1>22 DEF CloseReceiver, RecvType
  <2> QED BY <1>3, <1>5, <1>6, <1>7, <1>22, <2>1 DEF CloseReceiver
<1>23. CASE KtlsRecord
  <2>1. pipe[1].id \in Nat
    BY <1>1, <1>23, UnitFields DEF KtlsRecord
  <2>2. RecvType'
    <3>1. /\ r_state' = "idle" /\ read_seq' = read_seq + 1 /\ rbuf' = rbuf
          /\ \/ out' = <<pipe[1].id>> /\ received' = received \o out'
             \/ out' = out /\ received' = received
      BY <1>23 DEF KtlsRecord, ReturnTrue, ReturnFalse
    <3>2. out' \in Seq(Nat) /\ received' \in Seq(Nat)
      BY <1>2, <1>n, <2>1, <3>1 DEF RecvType
    <3> QED BY <1>1, <1>2, <3>1, <3>2 DEF RecvType
  <2>3. ExecType' /\ pipe' = SubSeq(pipe, RecordUnits + 1, Len(pipe)) /\ UNCHANGED sendVars
    BY <1>8, <1>23 DEF KtlsRecord
  <2> QED BY <1>1, <1>3, <1>7, <1>9, <2>2, <2>3
<1>24. CASE KtlsEof
  <2>1. RecvType'
    BY <1>1, <1>2, <1>24 DEF KtlsEof, ReturnFalse, RecvType
  <2> QED BY <1>3, <1>6, <1>7, <1>8, <1>24, <2>1 DEF KtlsEof
<1>25. CASE run_once
  <2>1. waiters \in Seq(Calls)
    BY <1>2 DEF ExecType
  <2>2. Reverse(waiters) \in Seq(Calls)
    BY <2>1 DEF Reverse
  <2>3. ExecType'
    <3>1. CASE ready' = Reverse(waiters) /\ waiters' = <<>>
      BY <2>2, <3>1 DEF ExecType
    <3>2. CASE \E i, j \in DOMAIN waiters : ready' = <<waiters[i]>> /\ waiters' = <<waiters[j]>>
      BY <2>1, <3>2 DEF ExecType
    <3> QED BY <1>25, <3>1, <3>2 DEF run_once
  <2> QED BY <1>3, <1>4, <1>6, <1>7, <1>25, <2>3 DEF run_once
<1>26. CASE resume
  <2>1. ready \in Seq(Calls) /\ ready # <<>> /\ waiters \in Seq(Calls)
    BY <1>2, <1>26 DEF ExecType, resume
  <2>2. ExecType'
    BY <1>26, <2>1 DEF ExecType, resume
  <2>3. RecvType'
    BY <1>1, <1>2, <1>26 DEF resume, RecvType
  <2>4. Head(ready) = "send" => next <= Len(LastRecord)
    <3>1. Head(ready) = "send" => s_state = "suspended"
      BY <2>1 DEF ExecutorInv, Suspended, Asleep
    <3> QED BY <1>2, <3>1 DEF SendType
  <2>5. SendType'
    BY <1>1, <1>2, <1>26, <2>4 DEF resume, SendType, LastRecord
  <2> QED BY <1>6, <1>7, <1>26, <2>2, <2>3, <2>5 DEF resume
<1>27. CASE enable_ktls
  <2>1. RecvType'
    BY <1>1, <1>2, <1>e, <1>n, <1>27 DEF enable_ktls, RecvType
  <2> QED BY <1>3, <1>5, <1>6, <1>7, <1>27, <2>1 DEF enable_ktls
<1>28. CASE LoseDatagram
  BY <1>1, <1>3, <1>4, <1>5, <1>7, <1>9, <1>28 DEF LoseDatagram
<1> QED
  BY StepCases, <1>10, <1>11, <1>12, <1>13, <1>14, <1>15, <1>16, <1>17, <1>18, <1>19, <1>20, <1>21,
     <1>22, <1>23, <1>24, <1>25, <1>26, <1>27, <1>28
-----------------------------------------------------------------------------
(* The executor and the calls *)

\* No coroutine waits twice, or waits while it is about to be resumed.
LEMMA ExecutorStepInv ==
  ASSUME TypeInv, ExecutorInv, Next
  PROVE  ExecutorInv'
<1>1. waiters \in Seq(Calls) /\ ready \in Seq(Calls)
  BY DEF TypeInv, ExecType
<1>2. ASSUME waiters' = waiters, ready' = ready,
             s_state = "suspended" => s_state' = "suspended",
             r_state = "suspended" => r_state' = "suspended"
      PROVE  ExecutorInv'
  BY <1>1, <1>2 DEF ExecutorInv, Suspended, Asleep
<1>3. ASSUME NEW c \in Calls, ~Suspended(c), SuspendedNext(c), add_waiter(c),
             \A d \in Calls : d # c => (Suspended(d) => SuspendedNext(d))
      PROVE  ExecutorInv'
  <2>1. /\ \A i \in DOMAIN waiters : waiters[i] # c /\ SuspendedNext(waiters[i])
        /\ \A i \in DOMAIN ready : ready[i] # c /\ SuspendedNext(ready[i])
    BY <1>1, <1>3 DEF ExecutorInv
  <2>2. waiters' = Append(waiters, c) /\ ready' = ready /\ c \in Calls
    BY <1>3 DEF add_waiter
  <2>3. ASSUME NEW i \in DOMAIN waiters'
        PROVE  \/ i \in DOMAIN waiters /\ waiters'[i] = waiters[i]
               \/ i = Len(waiters) + 1 /\ waiters'[i] = c
    <3>1. DOMAIN waiters' = 1 .. Len(waiters) + 1 /\ DOMAIN waiters = 1 .. Len(waiters) /\ Len(waiters) \in Nat
      BY <1>1, <2>2
    <3>2. i = Len(waiters) + 1 \/ i \in 1 .. Len(waiters)
      BY <2>3, <3>1
    <3>3. waiters'[Len(waiters) + 1] = c /\ \A k \in 1 .. Len(waiters) : waiters'[k] = waiters[k]
      BY <1>1, <2>2
    <3> QED BY <3>1, <3>2, <3>3
  <2>4. \A i \in DOMAIN waiters' : SuspendedNext(waiters'[i])
    BY <1>3, <2>1, <2>3
  <2>5. \A i \in DOMAIN ready' : SuspendedNext(ready'[i])
    BY <2>1, <2>2
  <2>6. \A i, j \in DOMAIN waiters' : i # j => waiters'[i] # waiters'[j]
    BY <2>1, <2>3 DEF ExecutorInv
  <2>7. \A i \in DOMAIN waiters', j \in DOMAIN ready' : waiters'[i] # ready'[j]
    BY <2>1, <2>2, <2>3 DEF ExecutorInv
  <2> QED BY <2>2, <2>4, <2>5, <2>6, <2>7 DEF ExecutorInv, Suspended, SuspendedNext
<1>4. Starts("send") \/ Starts("recv") \/ Ends("send") \/ Ends("recv") \/ UNCHANGED execVars
      => waiters' = waiters /\ ready' = ready
  BY DEF Starts, Ends, execVars
<1>5. ReturnTrue(out) \/ ReturnTrue(out') \/ ReturnFalse(out) \/ Continue => waiters' = waiters /\ ready' = ready
  BY <1>4 DEF ReturnTrue, ReturnFalse, Continue
<1>10. CASE send \/ WriteSome \/ WriteDone \/ WriteWouldBlock \/ PartialWriteTimeout \/ WriteFails \/ CloseSender
  BY <1>2, <1>4, <1>10 DEF send, WriteSome, WriteDone, WriteWouldBlock, PartialWriteTimeout, WriteBlocked,
     WriteFails, CloseSender, recvVars
<1>11. CASE WriteSuspends
  <2>1. "send" \in Calls /\ add_waiter("send") /\ s_state = "writing" /\ s_state' = "suspended" /\ r_state' = r_state
    BY <1>11 DEF WriteSuspends, WriteBlocked, recvVars, Calls
  <2> QED BY <1>3, <2>1 DEF Suspended, SuspendedNext, Asleep, Calls
<1>12. CASE recv \/ FillSome \/ FillWouldBlock \/ FillEof \/ CloseReceiver \/ KtlsEof \/ enable_ktls
  BY <1>2, <1>4, <1>5, <1>12 DEF recv, FillSome, FillWouldBlock, FillBlocked, Reading, FillEof, CloseReceiver, KtlsEof,
     enable_ktls, sendVars
<1>13. CASE LoseDatagram
  BY <1>2, <1>4, <1>13 DEF LoseDatagram, sendVars, recvVars
<1>14. CASE read_record
  BY <1>2, <1>14, ReadEffect DEF sendVars
<1>15. CASE KtlsRecord
  BY <1>2, <1>15, KtlsEffect DEF sendVars
<1>16. CASE FillSuspends
  <2>1. "recv" \in Calls /\ add_waiter("recv") /\ r_state = "reading" /\ r_state' = "suspended" /\ s_state' = s_state
    BY <1>16 DEF FillSuspends, FillBlocked, Reading, sendVars, Calls
  <2> QED BY <1>3, <2>1 DEF Suspended, SuspendedNext, Asleep, Calls
<1>17. CASE run_once
  <2>1. s_state' = s_state /\ r_state' = r_state /\ ready = <<>>
    BY <1>17 DEF run_once, sendVars, recvVars
  <2>2. CASE ready' = Reverse(waiters) /\ waiters' = <<>>
    <3>1. ASSUME NEW i \in DOMAIN ready'
          PROVE  Len(waiters) - i + 1 \in DOMAIN waiters /\ ready'[i] = waiters[Len(waiters) - i + 1]
      BY <1>1, <2>2, <3>1 DEF Reverse
    <3>2. DOMAIN ready' \subseteq Int /\ Len(waiters) \in Nat
      BY <1>1, <2>2 DEF Reverse
    <3>3. \A i \in DOMAIN ready' : SuspendedNext(ready'[i])
      BY <2>1, <3>1 DEF ExecutorInv, Suspended, SuspendedNext
    <3>4. ASSUME NEW i \in DOMAIN ready', NEW j \in DOMAIN ready', i # j PROVE ready'[i] # ready'[j]
      <4>1. Len(waiters) - i + 1 # Len(waiters) - j + 1
        BY <3>2, <3>4
      <4> QED BY <3>1, <3>4, <4>1 DEF ExecutorInv
    <3> QED BY <2>2, <3>3, <3>4 DEF ExecutorInv, Suspended, SuspendedNext
  <2>3. CASE \E i, j \in DOMAIN waiters : /\ Polled(waiters[i]) /\ ~Polled(waiters[j])
                                          /\ ready' = <<waiters[i]>> /\ waiters' = <<waiters[j]>>
    <3>1. PICK i, j \in DOMAIN waiters : /\ Polled(waiters[i]) /\ ~Polled(waiters[j])
                                         /\ ready' = <<waiters[i]>> /\ waiters' = <<waiters[j]>>
      BY <2>3
    <3>2. waiters[i] # waiters[j] /\ SuspendedNext(waiters[i]) /\ SuspendedNext(waiters[j])
      BY <2>1, <3>1 DEF ExecutorInv, Suspended, SuspendedNext
    <3> HIDE DEF Polled
    <3>3. DOMAIN ready' = {1} /\ DOMAIN waiters' = {1} /\ ready'[1] = waiters[i] /\ waiters'[1] = waiters[j]
      BY <3>1
    <3> QED BY <3>2, <3>3 DEF ExecutorInv, Suspended, SuspendedNext
  <2> QED BY <1>17, <2>2, <2>3 DEF run_once
<1>18. CASE resume
  <2> DEFINE c == Head(ready)
  <2>1. ready # <<>> /\ ready' = Tail(ready) /\ waiters' = waiters
    BY <1>18 DEF resume
  <2>2. c = ready[1] /\ 1 \in DOMAIN ready /\ c \in Calls
    BY <1>1, <2>1
  <2>3. ASSUME NEW i \in DOMAIN ready'
        PROVE  i \in Nat /\ i >= 1 /\ i + 1 \in DOMAIN ready /\ ready'[i] = ready[i + 1]
    BY <1>1, <2>1, <2>3
  <2>4. ASSUME NEW d \in Calls, d # c, Suspended(d) PROVE SuspendedNext(d)
    BY <1>18, <2>2, <2>4 DEF resume, Suspended, SuspendedNext, Asleep, Calls
  <2> HIDE DEF c
  <2>5. \A i \in DOMAIN ready' : SuspendedNext(ready'[i]) /\ ready'[i] \in Calls
    <3> SUFFICES ASSUME NEW i \in DOMAIN ready' PROVE SuspendedNext(ready'[i]) /\ ready'[i] \in Calls
      OBVIOUS
    <3>1. i \in Nat /\ i >= 1 /\ i + 1 \in DOMAIN ready /\ ready'[i] = ready[i + 1]
      BY <2>3
    <3>2. ready[i + 1] # c /\ Suspended(ready[i + 1]) /\ ready[i + 1] \in Calls
      BY <1>1, <2>2, <3>1 DEF ExecutorInv
    <3> QED BY <2>4, <3>1, <3>2
  <2>6. \A i \in DOMAIN waiters' : SuspendedNext(waiters'[i])
    <3> SUFFICES ASSUME NEW i \in DOMAIN waiters PROVE SuspendedNext(waiters[i])
      BY <2>1
    <3>1. waiters[i] # c /\ Suspended(waiters[i]) /\ waiters[i] \in Calls
      BY <1>1, <2>2 DEF ExecutorInv
    <3> QED BY <2>4, <3>1
  <2>7. \A i, j \in DOMAIN ready' : i # j => ready'[i] # ready'[j]
    <3> SUFFICES ASSUME NEW i \in DOMAIN ready', NEW j \in DOMAIN ready', i # j PROVE ready'[i] # ready'[j]
      OBVIOUS
    <3>1. i \in Nat /\ i + 1 \in DOMAIN ready /\ ready'[i] = ready[i + 1]
      BY <2>3
    <3>2. j \in Nat /\ j + 1 \in DOMAIN ready /\ ready'[j] = ready[j + 1]
      BY <2>3
    <3>3. i + 1 # j + 1
      BY <3>1, <3>2
    <3> QED BY <3>1, <3>2, <3>3 DEF ExecutorInv
  <2>8. \A i \in DOMAIN waiters', j \in DOMAIN ready' : waiters'[i] # ready'[j]
    BY <2>1, <2>3 DEF ExecutorInv
  <2> QED BY <2>1, <2>5, <2>6, <2>7, <2>8 DEF ExecutorInv, Suspended, SuspendedNext
<1> QED
  BY StepCases, <1>10, <1>11, <1>12, <1>13, <1>14, <1>15, <1>16, <1>17, <1>18

\* A call in progress keeps its connection open; what is left of a record that a
\* call has not consumed.
LEMMA PhaseStep ==
  ASSUME TypeInv, ExecutorInv, PhaseInv, Next
  PROVE  PhaseInv'
<1>1. use' = use /\ RecordUnits \in Nat /\ RecordUnits >= 2 /\ Len(<<>>) = 0
  BY StepCases, SizesAssumption
<1>2. RecvMode' = RecvMode
  BY <1>1 DEF RecvMode
<1>10. CASE send \/ WriteSome \/ WriteDone \/ WriteWouldBlock \/ PartialWriteTimeout \/ WriteSuspends \/ WriteFails \/ CloseSender
  BY <1>1, <1>2, <1>10 DEF PhaseInv, send, WriteSome, WriteDone, WriteWouldBlock, PartialWriteTimeout, WriteBlocked,
     WriteSuspends, WriteFails, CloseSender, recvVars
<1>11. CASE recv \/ FillSome \/ FillSuspends \/ CloseReceiver \/ enable_ktls
  BY <1>1, <1>2, <1>11 DEF PhaseInv, recv, FillSome, FillSuspends, FillBlocked, Reading, CloseReceiver, enable_ktls, sendVars
<1>12. CASE FillWouldBlock \/ FillEof
  BY <1>1, <1>2, <1>12 DEF PhaseInv, FillWouldBlock, FillBlocked, Reading, FillEof, ReturnFalse, sendVars
<1>17. CASE KtlsEof
  <2>1. rbuf = <<>> /\ r_state # "idle" /\ Len(rbuf) < RecordUnits
    BY <1>1, <1>17 DEF PhaseInv, KtlsEof
  <2>2. ~ktls_active' /\ r_state' = "idle" /\ rbuf' = rbuf /\ UNCHANGED sendVars
    BY <1>17 DEF KtlsEof, ReturnFalse
  <2>3. Len(rbuf') < RecordUnits
    BY <2>1, <2>2
  <2> QED BY <1>2, <2>1, <2>2, <2>3 DEF PhaseInv, sendVars
<1>13. CASE read_record
  <2>1. r_state = "reading" /\ ~ktls_active /\ rbuf' = <<>> /\ UNCHANGED <<sendVars, ktls_active, pipe>>
    BY <1>13, ReadEffect
  <2>2. r_state' # "idle" => r_open' = r_open
    BY <1>13, ReadEffect DEF Fails, Data, Skips, Alerted
  <2>3. ~ktls_active' /\ r_open /\ Len(rbuf') < RecordUnits
    BY <1>1, <2>1 DEF PhaseInv
  <2> QED BY <1>2, <2>1, <2>2, <2>3 DEF PhaseInv, sendVars
<1>14. CASE KtlsRecord
  BY <1>1, <1>2, <1>14, KtlsEffect DEF PhaseInv, sendVars
<1>15. CASE run_once \/ LoseDatagram
  BY <1>1, <1>2, <1>15 DEF PhaseInv, run_once, LoseDatagram, sendVars, recvVars
<1>16. CASE resume
  <2>1. Suspended(Head(ready))
    <3>1. ready \in Seq(Calls) /\ ready # <<>>
      BY <1>16 DEF resume, TypeInv, ExecType
    <3> QED BY <3>1 DEF ExecutorInv
  <2> QED BY <1>1, <1>2, <1>16, <2>1 DEF PhaseInv, resume, Suspended, Asleep
<1> QED
  BY StepCases, <1>10, <1>11, <1>12, <1>13, <1>14, <1>15, <1>16, <1>17
-----------------------------------------------------------------------------
(* The stream *)

\* A chain that starts with a header: its first record ends where it should.
LEMMA FirstWhole ==
  ASSUME NEW x, NEW u, NEW p \in Seq(Unit(u)), Chain(x, p), p # <<>>, p[1].part = 1
  PROVE  /\ p[Len(p)].part = RecordUnits => RecordUnits <= Len(p)
         /\ RecordUnits <= Len(p) => p[RecordUnits].part = RecordUnits
         /\ RecordUnits < Len(p) => p[RecordUnits + 1].part = 1
<1>1. RecordUnits \in Nat /\ RecordUnits >= 2 /\ Len(p) \in Nat /\ Len(p) >= 1 /\ 1 \in 1 .. Len(p)
  BY SizesAssumption
<1>2. ASSUME Len(p) < RecordUnits PROVE p[Len(p)].part # RecordUnits
  <2>1. Len(p) \in 1 .. Len(p) /\ Len(p) < 1 + RecordUnits
    BY <1>1, <1>2
  <2>2. p[Len(p)].part = Len(p) - 1 + 1
    BY <1>1, <2>1, RecordAt
  <2> QED BY <1>1, <1>2, <2>2
<1>3. ASSUME RecordUnits <= Len(p) PROVE p[RecordUnits].part = RecordUnits
  <2>1. RecordUnits \in 1 .. Len(p) /\ RecordUnits < 1 + RecordUnits
    BY <1>1, <1>3
  <2>2. p[RecordUnits].part = RecordUnits - 1 + 1
    BY <1>1, <2>1, RecordAt
  <2> QED BY <1>1, <2>2
<1>4. ASSUME RecordUnits < Len(p) PROVE p[RecordUnits + 1].part = 1
  <2>1. RecordUnits \in 1 .. Len(p) - 1 /\ RecordUnits <= Len(p)
    BY <1>1, <1>4
  <2>2. Adjacent(x, p[RecordUnits], p[RecordUnits + 1]) /\ p[RecordUnits].part = RecordUnits
    BY <1>3, <2>1 DEF Chain
  <2> QED BY <2>2 DEF Adjacent
<1> QED
  BY <1>1, <1>2, <1>3, <1>4

\* The kernel's buffer and what is left to write are chains too.
LEMMA PartsChain ==
  ASSUME TypeInv, FlowInv
  PROVE  Chain(Strict, pipe) /\ Chain(Strict, Unsent) /\ Chain(Strict, rbuf)
<1>1. /\ Stream \in Seq(Unit(use)) /\ Unsent \in Seq(Unit(use)) /\ pipe \in Seq(Unit(use)) /\ rbuf \in Seq(Unit(use))
      /\ Len(Stream) = Len(rbuf) + Len(pipe) + Len(Unsent)
      /\ Len(rbuf) \in Nat /\ Len(pipe) \in Nat /\ Len(Unsent) \in Nat /\ Chain(Strict, Stream)
  BY StreamParts DEF TypeInv, RecvType, FlowInv
<1>2. Chain(Strict, rbuf)
  <2>1. \A i \in 1 .. Len(rbuf) : rbuf[i] = Stream[0 + i]
    BY StreamParts
  <2>2. 0 \in Nat /\ 0 + Len(rbuf) <= Len(Stream)
    BY <1>1
  <2> QED BY <1>1, <2>1, <2>2, ChainPart
<1>3. Chain(Strict, pipe)
  <2>1. \A i \in 1 .. Len(pipe) : pipe[i] = Stream[Len(rbuf) + i]
    BY StreamParts
  <2>2. Len(rbuf) + Len(pipe) <= Len(Stream)
    BY <1>1
  <2> QED BY <1>1, <2>1, <2>2, ChainPart
<1>4. Chain(Strict, Unsent)
  <2> DEFINE k == Len(rbuf) + Len(pipe)
  <2>1. \A i \in 1 .. Len(Unsent) : Unsent[i] = Stream[k + i]
    BY StreamParts
  <2>2. k \in Nat /\ k + Len(Unsent) <= Len(Stream)
    BY <1>1
  <2> HIDE DEF k
  <2> QED BY <1>1, <2>1, <2>2, ChainPart
<1> QED
  BY <1>2, <1>3, <1>4

\* The parameters of the invariant do not change.
LEMMA Fixed ==
  ASSUME use' = use
  PROVE  /\ Strict' = Strict /\ Reliable' = Reliable /\ Waits' = Waits /\ RecvMode' = RecvMode /\ SendMode' = SendMode
         /\ Kinds' = Kinds /\ LastRecord' = LastRecord /\ Ver' = Ver /\ Unit(use)' = Unit(use)
         /\ \A m : FirstRecord(m)' = FirstRecord(m)
<1>1. /\ RecvMode' = RecvMode /\ SendMode' = SendMode /\ Kinds' = Kinds /\ LastRecord' = LastRecord
      /\ Ver' = Ver /\ Unit(use)' = Unit(use)
  BY DEF RecvMode, SendMode, Kinds, LastRecord, Ver, Unit
<1>2. Reliable' = Reliable
  BY <1>1 DEF Reliable, Dependable
<1>3. Waits' = Waits
  BY <1>1 DEF Waits
<1>4. \A m : FirstRecord(m)' = FirstRecord(m)
  BY <1>1 DEF FirstRecord
<1> QED
  BY <1>1, <1>2, <1>3, <1>4 DEF Strict

\* The stream after a step, as a sequence t.
LEMMA NextFlow ==
  ASSUME use' = use, NEW t, Stream' = t,
         Chain(Strict, t), StartsAt(Strict, t, read_seq'),
         t # <<>> /\ t[1].part # 1 => ktls_active' /\ RecvMode = "nonblocking",
         s_open' => EndsAt(Strict, t, read_seq', write_seq', TailId')
  PROVE  FlowInv'
<1>1. Strict' = Strict /\ RecvMode' = RecvMode
  BY Fixed
<1>2. Chain(Strict', Stream') /\ StartsAt(Strict', Stream', read_seq')
  BY <1>1
<1>3. Stream' # <<>> /\ Stream'[1].part # 1 => ktls_active' /\ RecvMode' = "nonblocking"
  BY <1>1
<1>4. s_open' => EndsAt(Strict', Stream', read_seq', write_seq', TailId')
  BY <1>1
<1> QED
  BY <1>2, <1>3, <1>4 DEF FlowInv, HeadInv, TailInv, Chain, StartsAt, EndsAt, Adjacent

\* The stream stays and so does what is expected at its ends.
LEMMA SameStream ==
  ASSUME FlowInv, use' = use, Stream' = Stream, read_seq' = read_seq,
         ktls_active => ktls_active',
         s_open' => s_open /\ write_seq' = write_seq /\ TailId' = TailId
  PROVE  FlowInv'
  BY NextFlow DEF FlowInv, HeadInv, TailInv

\* The sender closes: what was not written is not sent any more.
LEMMA SenderCloses ==
  ASSUME TypeInv, FlowInv, use' = use, ~s_open', rbuf' = rbuf, pipe' = pipe, read_seq' = read_seq, ktls_active' = ktls_active
  PROVE  FlowInv' /\ (Stream' # <<>> => Stream # <<>> /\ Stream'[1] = Stream[1])
<1> DEFINE t == rbuf \o pipe \o <<>>
<1>1. /\ Stream \in Seq(Unit(use)) /\ Unsent \in Seq(Unit(use)) /\ pipe \in Seq(Unit(use)) /\ rbuf \in Seq(Unit(use))
      /\ Len(Stream) = Len(rbuf) + Len(pipe) + Len(Unsent) /\ <<>> \in Seq(Unit(use)) /\ Len(<<>>) = 0
      /\ Len(rbuf) \in Nat /\ Len(pipe) \in Nat /\ Len(Unsent) \in Nat /\ Chain(Strict, Stream)
  BY StreamParts DEF TypeInv, RecvType, FlowInv
<1>2. Stream' = t
  BY DEF Stream, Unsent
<1>3. /\ t \in Seq(Unit(use)) /\ Len(t) = Len(rbuf) + Len(pipe)
      /\ \A i \in 1 .. Len(rbuf) : t[i] = rbuf[i]
      /\ \A i \in 1 .. Len(pipe) : t[Len(rbuf) + i] = pipe[i]
  BY <1>1, Concat3
<1> HIDE DEF t
<1>4. ASSUME NEW i \in 1 .. Len(t) PROVE t[i] = Stream[0 + i]
  <2>1. CASE i <= Len(rbuf)
    BY <1>1, <1>3, <1>4, <2>1, StreamParts
  <2>2. CASE i > Len(rbuf)
    <3>1. i - Len(rbuf) \in 1 .. Len(pipe) /\ Len(rbuf) + (i - Len(rbuf)) = i /\ 0 + i = i
      BY <1>1, <1>3, <1>4, <2>2
    <3>2. t[Len(rbuf) + (i - Len(rbuf))] = Stream[Len(rbuf) + (i - Len(rbuf))]
      BY <1>3, <3>1, StreamParts
    <3> QED BY <3>1, <3>2
  <2> QED BY <1>1, <1>3, <1>4, <2>1, <2>2
<1>5. Chain(Strict, t)
  <2>1. 0 \in Nat /\ 0 + Len(t) <= Len(Stream)
    BY <1>1, <1>3
  <2> QED BY <1>1, <1>3, <1>4, <2>1, ChainPart
<1>6. t # <<>> => t[1] = Stream[1] /\ Stream # <<>>
  BY <1>1, <1>3, <1>4
<1>7. StartsAt(Strict, t, read_seq') /\ (t # <<>> /\ t[1].part # 1 => ktls_active' /\ RecvMode = "nonblocking")
  BY <1>6 DEF StartsAt, FlowInv, HeadInv
<1>8. FlowInv'
  BY <1>2, <1>5, <1>7, NextFlow
<1> QED
  BY <1>2, <1>6, <1>8

\* send adds the records of the next message to the end.
LEMMA FlowSend ==
  ASSUME TypeInv, PhaseInv, FlowInv, use' = use, send
  PROVE  /\ FlowInv' /\ Stream' # <<>> /\ (Stream # <<>> => Stream'[1] = Stream[1])
         /\ s_open /\ (Stream = <<>> => Stream'[1].seq = write_seq)
<1> DEFINE t == tls_encrypt(next)
           c == LastRecord[next] - FirstRecord(next) + 1
<1>1. /\ s_open /\ s_state = "idle" /\ next <= Len(LastRecord) /\ rec' = t /\ write_seq' = write_seq + c
      /\ s_state' = "writing" /\ UNCHANGED <<s_open, next, recvVars, pipe>>
  BY DEF send
<1>2. rec = <<>> /\ Unsent = <<>> /\ Unsent' = t /\ TailId = FirstRecord(next)
  BY <1>1 DEF PhaseInv, Unsent, TailId
<1>3. /\ c \in Nat \ {0} /\ t \in Seq(Unit(use)) /\ t # <<>>
      /\ Chain(Strict, t)
      /\ t[1].part = 1 /\ t[1].seq = write_seq /\ t[1].id = FirstRecord(next)
      /\ t[Len(t)].part = RecordUnits
      /\ t[Len(t)].seq = write_seq + c - 1 /\ t[Len(t)].id = LastRecord[next]
  BY <1>1, EncryptFacts
<1>4. LastRecord[next] \in Nat /\ write_seq \in Nat
  BY <1>1, UseFacts DEF TypeInv, SendType
<1>5. TailId' = LastRecord[next] + 1
  BY <1>1, Fixed DEF TailId
<1> HIDE DEF c, t
<1>6. After(Strict, t[Len(t)].seq, t[Len(t)].id, write_seq', TailId')
  BY <1>1, <1>3, <1>4, <1>5 DEF After
<1>7. Stream = rbuf \o pipe /\ Stream' = Stream \o t /\ Stream \in Seq(Unit(use))
  <2>1. Stream \in Seq(Unit(use)) /\ rbuf \in Seq(Unit(use)) /\ pipe \in Seq(Unit(use))
    BY StreamParts DEF TypeInv, RecvType
  <2>2. (rbuf \o pipe) \o <<>> = rbuf \o pipe
    BY <2>1
  <2> QED BY <1>1, <1>2, <2>1, <2>2 DEF Stream, recvVars
<1>8. EndsAt(Strict, Stream, read_seq, write_seq, FirstRecord(next))
  BY <1>1, <1>2 DEF FlowInv, TailInv
<1>9. Chain(Strict, Stream) /\ StartsAt(Strict, Stream, read_seq)
  BY DEF FlowInv, HeadInv
<1>10. /\ Chain(Strict, Stream \o t) /\ StartsAt(Strict, Stream \o t, read_seq)
       /\ EndsAt(Strict, Stream \o t, read_seq, write_seq', TailId')
       /\ (Stream \o t)[1].part = 1 \/ (Stream # <<>> /\ (Stream \o t)[1] = Stream[1])
  <2> DEFINE s == Stream
             x == Strict
             i == FirstRecord(next)
             q2 == write_seq'
             i2 == TailId'
  <2>1. s \in Seq(Unit(use)) /\ Chain(x, s) /\ StartsAt(x, s, read_seq) /\ EndsAt(x, s, read_seq, write_seq, i)
    BY <1>7, <1>8, <1>9
  <2>2. /\ t \in Seq(Unit(use)) /\ t # <<>> /\ Chain(x, t)
        /\ t[1].part = 1 /\ t[1].seq = write_seq /\ t[1].id = i /\ t[Len(t)].part = RecordUnits
        /\ After(x, t[Len(t)].seq, t[Len(t)].id, q2, i2)
    BY <1>3, <1>6
  <2> HIDE DEF s, x, i, q2, i2
  <2>3. /\ Chain(x, s \o t) /\ StartsAt(x, s \o t, read_seq) /\ EndsAt(x, s \o t, read_seq, q2, i2)
        /\ (s \o t)[1].part = 1 \/ (s # <<>> /\ (s \o t)[1] = s[1])
    BY <2>1, <2>2, AppendRecords
  <2> QED BY <2>3 DEF s, x, q2, i2
<1>11. (Stream \o t)[1].part # 1 => ktls_active' /\ RecvMode = "nonblocking"
  BY <1>1, <1>10 DEF FlowInv, HeadInv, recvVars
<1>12. read_seq' = read_seq
  BY <1>1 DEF recvVars
<1>13. FlowInv'
  BY <1>7, <1>10, <1>11, <1>12, NextFlow
<1>14. Stream' # <<>> /\ (Stream # <<>> => Stream'[1] = Stream[1]) /\ (Stream = <<>> => Stream'[1] = t[1])
  BY <1>3, <1>7
<1> QED
  BY <1>1, <1>3, <1>13, <1>14

\* write_all and fill_rbuf move units along the stream.
LEMMA FlowMoves ==
  ASSUME TypeInv, PhaseInv, FlowInv, use' = use, WriteSome \/ FillSome
  PROVE  FlowInv' /\ Stream' = Stream
<1> DEFINE U == Unit(use)
<1>1. rbuf \in Seq(U) /\ pipe \in Seq(U) /\ rec \in Seq(U) /\ Unsent \in Seq(U)
  BY StreamParts DEF TypeInv, RecvType, SendType
<1> HIDE DEF U
<1>2. CASE WriteSome
  <2>1. /\ s_state = "writing" /\ UNCHANGED <<s_open, s_state, write_seq, next, recvVars>>
        /\ Len(rec) \in Nat /\ RecordUnits \in Nat \ {0}
    BY <1>1, <1>2, SizesAssumption DEF WriteSome
  <2>2. PICK n \in 1 .. Len(rec) : pipe' = pipe \o SubSeq(rec, 1, n) /\ rec' = SubSeq(rec, n + 1, Len(rec))
    BY <1>2, <2>1 DEF WriteSome
  <2>3. s_open /\ Unsent = rec /\ Unsent' = rec'
    BY <2>1 DEF PhaseInv, Unsent
  <2> DEFINE f == SubSeq(rec, 1, n)
             g == SubSeq(rec, n + 1, Len(rec))
             a == rbuf \o pipe
  <2>4. a \in Seq(U) /\ f \in Seq(U) /\ g \in Seq(U) /\ f \o g = rec
    <3>1. a \in Seq(U) /\ f \in Seq(U) /\ g \in Seq(U)
      BY <1>1, <2>2
    <3>2. f \o g = rec
      BY <1>1, <2>2, ConcatAdjacentSubSeq, SubSeqFull
    <3> QED BY <3>1, <3>2
  <2>5. ASSUME NEW b \in Seq(U), NEW d \in Seq(U), NEW e \in Seq(U)
        PROVE  (b \o d) \o e = b \o (d \o e)
    BY <2>5, ConcatAssociative, SMTT(30)
  <2>6. rbuf \o (pipe \o f) = a \o f /\ (a \o f) \o g = a \o rec
    <3>1. rbuf \o (pipe \o f) = (rbuf \o pipe) \o f
      <4>1. rbuf \in Seq(U) /\ pipe \in Seq(U) /\ f \in Seq(U)
        BY <1>1, <2>4
      <4> HIDE DEF f
      <4> QED BY ONLY <4>1, ConcatAssociative, SMTT(30)
    <3>2. (a \o f) \o g = a \o (f \o g)
      <4> HIDE DEF a, f, g
      <4> QED BY <2>4, <2>5
    <3> QED BY <2>4, <3>1, <3>2
  <2>7. Stream' = Stream
    BY <2>1, <2>2, <2>3, <2>6 DEF Stream, recvVars
  <2>8. TailId' = TailId
    BY <2>1, Fixed DEF TailId
  <2> QED BY <2>1, <2>7, <2>8, SameStream DEF recvVars
<1>3. CASE FillSome
  <2>1. UNCHANGED <<sendVars, read_seq, ktls_active>>
    BY <1>3 DEF FillSome
  <2>2. PICK n \in 1 .. Len(pipe) : rbuf' = rbuf \o SubSeq(pipe, 1, n) /\ pipe' = SubSeq(pipe, n + 1, Len(pipe))
    BY <1>3 DEF FillSome
  <2>3. rbuf' \o pipe' = rbuf \o pipe
    <3>1. (rbuf \o SubSeq(pipe, 1, n)) \o SubSeq(pipe, n + 1, Len(pipe)) = rbuf \o pipe
      <4> DEFINE f == SubSeq(pipe, 1, n)
                 g == SubSeq(pipe, n + 1, Len(pipe))
      <4>1. rbuf \in Seq(U) /\ f \in Seq(U) /\ g \in Seq(U)
        BY <1>1, <2>2
      <4>3. f \o g = pipe
        BY <1>1, <2>2, ConcatAdjacentSubSeq, SubSeqFull
      <4> HIDE DEF f, g
      <4>2. (rbuf \o f) \o g = rbuf \o (f \o g)
        BY ONLY <4>1, ConcatAssociative, SMTT(30)
      <4> QED BY <4>2, <4>3 DEF f, g
    <3> QED BY <2>2, <3>1
  <2>4. Unsent' = Unsent /\ TailId' = TailId
    BY <2>1, Fixed DEF Unsent, TailId, sendVars
  <2>5. Stream' = Stream
    BY <2>3, <2>4 DEF Stream
  <2> QED BY <2>1, <2>4, <2>5, SameStream DEF sendVars
<1> QED
  BY <1>2, <1>3
\* A send that would block takes its records back, none of them begun.
LEMMA FlowWouldBlock ==
  ASSUME TypeInv, PhaseInv, FlowInv, RecInv, use' = use, WriteWouldBlock
  PROVE  FlowInv'
<1> DEFINE U == Unit(use)
           t == rbuf \o pipe \o <<>>
<1>1. /\ s_state = "writing" /\ SendMode = "nonblocking" /\ rec # <<>> /\ (off = 0 \/ use.datagram)
      /\ s_state' = "idle" /\ rec' = <<>> /\ UNCHANGED <<s_open, write_seq, next, recvVars, pipe>>
  BY DEF WriteWouldBlock, WriteBlocked
<1>2. s_open /\ Unsent = rec /\ Unsent' = <<>> /\ Strict # 1
  BY <1>1 DEF PhaseInv, Unsent, Strict, Reliable, Dependable
<1>3. /\ Stream \in Seq(U) /\ pipe \in Seq(U) /\ rbuf \in Seq(U) /\ rec \in Seq(U)
      /\ Len(Stream) = Len(rbuf) + Len(pipe) + Len(rec) /\ <<>> \in Seq(U) /\ Len(<<>>) = 0
      /\ Len(rbuf) \in Nat /\ Len(pipe) \in Nat /\ Len(rec) \in Nat /\ Len(rec) >= 1
      /\ write_seq \in Nat /\ read_seq \in Nat
  BY <1>1, <1>2, StreamParts DEF TypeInv, RecvType, SendType
<1>4. Chain(Strict, Stream) /\ StartsAt(Strict, Stream, read_seq)
  BY DEF FlowInv, HeadInv
<1> HIDE DEF U
<1>5. /\ t \in Seq(U) /\ Len(t) = Len(rbuf) + Len(pipe)
      /\ \A i \in 1 .. Len(rbuf) : t[i] = rbuf[i]
      /\ \A i \in 1 .. Len(pipe) : t[Len(rbuf) + i] = pipe[i]
  BY <1>3, Concat3
<1>6. Stream' = t
  BY <1>1, <1>2 DEF Stream, recvVars
<1> HIDE DEF t
<1>7. ASSUME NEW i \in 1 .. Len(t) PROVE t[i] = Stream[i]
  <2>1. CASE i <= Len(rbuf)
    BY <1>3, <1>5, <1>7, <2>1, StreamParts
  <2>2. CASE i > Len(rbuf)
    <3>1. i - Len(rbuf) \in 1 .. Len(pipe) /\ Len(rbuf) + (i - Len(rbuf)) = i
      BY <1>3, <1>5, <1>7, <2>2
    <3>2. t[Len(rbuf) + (i - Len(rbuf))] = Stream[Len(rbuf) + (i - Len(rbuf))]
      BY <1>5, <3>1, StreamParts
    <3> QED BY <3>1, <3>2
  <2> QED BY <1>3, <1>5, <1>7, <2>1, <2>2
<1>8. Stream[Len(t) + 1] = rec[1] /\ Len(t) < Len(Stream)
  <2>1. 1 \in 1 .. Len(Unsent)
    BY <1>2, <1>3
  <2> QED BY <1>2, <1>3, <1>5, <2>1, StreamParts
<1>9. rec[1].part = 1 /\ rec[1].seq < write_seq
  BY <1>1, <1>2, <1>3 DEF RecInv
<1>10. /\ Chain(Strict, t) /\ StartsAt(Strict, t, read_seq) /\ EndsAt(Strict, t, read_seq, write_seq, TailId')
       /\ t # <<>> => t[1] = Stream[1]
  <2> DEFINE s == Stream
             x == Strict
             i == TailId'
  <2>1. /\ s \in Seq(Unit(use)) /\ t \in Seq(Unit(use)) /\ Chain(x, s) /\ StartsAt(x, s, read_seq) /\ x # 1
        /\ Len(t) < Len(s) /\ s[Len(t) + 1].part = 1 /\ s[Len(t) + 1].seq < write_seq
        /\ write_seq \in Nat /\ read_seq \in Nat
    BY <1>2, <1>3, <1>4, <1>5, <1>8, <1>9 DEF U
  <2>2. \A j \in 1 .. Len(t) : t[j] = s[j]
    BY <1>7
  <2> HIDE DEF s, x, i
  <2>3. /\ Chain(x, t) /\ StartsAt(x, t, read_seq) /\ EndsAt(x, t, read_seq, write_seq, i)
        /\ t # <<>> => t[1] = s[1]
    BY ONLY <2>1, <2>2, AbandonRecords
  <2> QED BY <2>3 DEF s, x, i
<1>11. Stream # <<>>
  BY <1>3
<1>12. t # <<>> /\ t[1].part # 1 => ktls_active' /\ RecvMode = "nonblocking"
  BY <1>1, <1>10, <1>11 DEF FlowInv, HeadInv, recvVars
<1>13. read_seq' = read_seq /\ write_seq' = write_seq
  BY <1>1 DEF recvVars
<1> QED
  BY <1>6, <1>10, <1>12, <1>13, NextFlow

\* A record leaves the front of the stream, with read_record or under kTLS.
LEMMA FlowTake ==
  ASSUME TypeInv, FlowInv, use' = use, Stream # <<>>, Stream[1].part = 1, RecordUnits <= Len(Stream),
         UNCHANGED <<sendVars, ktls_active>>, read_seq' \in {read_seq, read_seq + 1},
         read_seq' = read_seq => Strict # 1,
         Stream' \in Seq(Unit(use)), Len(Stream') = Len(Stream) - RecordUnits,
         \A i \in 1 .. Len(Stream') : Stream'[i] = Stream[RecordUnits + i]
  PROVE  /\ FlowInv' /\ (Stream' # <<>> => Stream'[1].seq > Stream[1].seq)
         /\ Stream' = <<>> /\ s_open => write_seq > Stream[1].seq
<1> DEFINE s == Stream
           t == Stream'
           x == Strict
           m == read_seq'
<1>1. /\ s \in Seq(Unit(use)) /\ t \in Seq(Unit(use)) /\ read_seq \in Nat /\ write_seq \in Nat
      /\ m \in {read_seq, read_seq + 1} /\ (m = read_seq => x # 1)
      /\ Chain(x, s) /\ StartsAt(x, s, read_seq) /\ s[1].part = 1
      /\ RecordUnits <= Len(s) /\ Len(t) = Len(s) - RecordUnits
  BY StreamParts DEF TypeInv, RecvType, SendType, FlowInv, HeadInv
<1>2. \A i \in 1 .. Len(t) : t[i] = s[RecordUnits + i]
  OBVIOUS
<1>3. TailId' = TailId /\ s_open' = s_open /\ write_seq' = write_seq
  BY Fixed DEF TailId, sendVars
<1>4. TailId \in Nat
  BY TailIdType
<1>5. s_open => EndsAt(x, s, read_seq, write_seq, TailId)
  BY DEF FlowInv, TailInv
<1> HIDE DEF s, t, x, m
<1>6. /\ Chain(x, t) /\ StartsAt(x, t, m)
      /\ t # <<>> => t[1].part = 1 /\ t[1].seq > s[1].seq
      /\ \A q \in Nat, i \in Nat :
           EndsAt(x, s, read_seq, q, i) => EndsAt(x, t, m, q, i) /\ (t = <<>> => q > s[1].seq)
  BY ONLY <1>1, <1>2, TakeRecord
<1>7. s_open => EndsAt(x, t, m, write_seq, TailId) /\ (t = <<>> => write_seq > s[1].seq)
  BY <1>1, <1>4, <1>5, <1>6
<1>8. s_open' => EndsAt(Strict, t, read_seq', write_seq', TailId')
  BY <1>3, <1>7 DEF x, m
<1>9. FlowInv'
  <2>1. Stream' = t /\ Chain(Strict, t) /\ StartsAt(Strict, t, read_seq')
        /\ (t # <<>> /\ t[1].part # 1 => ktls_active' /\ RecvMode = "nonblocking")
    BY <1>6 DEF x, m, t
  <2> QED BY <1>8, <2>1, NextFlow
<1> QED
  BY <1>6, <1>7, <1>9 DEF s, t

\* A whole datagram is lost on the way.
LEMMA FlowLose ==
  ASSUME TypeInv, PhaseInv, FlowInv, DatagramInv, use' = use, LoseDatagram
  PROVE  /\ FlowInv' /\ Stream # <<>> /\ (Stream' # <<>> => Stream'[1].seq >= Stream[1].seq)
         /\ Stream' = <<>> /\ s_open => write_seq > Stream[1].seq
<1> DEFINE U == Unit(use)
<1>1. /\ use.datagram /\ pipe # <<>> /\ pipe' = SubSeq(pipe, RecordUnits + 1, Len(pipe))
      /\ UNCHANGED <<sendVars, recvVars>>
  BY DEF LoseDatagram
<1>2. ~ktls_active /\ Strict # 1
  BY <1>1 DEF PhaseInv, Strict, Reliable, Dependable
<1>3. /\ Stream \in Seq(U) /\ pipe \in Seq(U) /\ rbuf \in Seq(U) /\ Unsent \in Seq(U)
      /\ Len(Stream) = Len(rbuf) + Len(pipe) + Len(Unsent)
      /\ Len(rbuf) \in Nat /\ Len(pipe) \in Nat /\ Len(Unsent) \in Nat /\ Len(pipe) >= 1
      /\ write_seq \in Nat /\ read_seq \in Nat /\ RecordUnits \in Nat /\ RecordUnits >= 2
  BY <1>1, StreamParts, SizesAssumption DEF TypeInv, RecvType, SendType
<1>4. RecordUnits <= Len(pipe)
  <2>1. Chain(Strict, pipe) /\ pipe[1].part = 1 /\ pipe[Len(pipe)].part = RecordUnits
    BY <1>1, PartsChain DEF DatagramInv
  <2> QED BY <1>1, <1>3, <2>1, FirstWhole
<1> HIDE DEF U
<1>5. /\ pipe' \in Seq(U) /\ Len(pipe') = Len(pipe) - RecordUnits
      /\ \A i \in 1 .. Len(pipe') : pipe'[i] = pipe[RecordUnits + i]
  BY <1>1, <1>3, <1>4
<1>6. Unsent' = Unsent /\ rbuf' = rbuf /\ read_seq' = read_seq /\ ktls_active' = ktls_active /\ TailId' = TailId
      /\ s_open' = s_open /\ write_seq' = write_seq
  BY <1>1, Fixed DEF Unsent, recvVars, sendVars, TailId
<1> DEFINE k == Len(rbuf)
           s == Stream
           t == rbuf \o pipe' \o Unsent
           x == Strict
<1>7. Stream' = t
  BY <1>6 DEF Stream
<1>8. /\ t \in Seq(U) /\ Len(t) = Len(rbuf) + Len(pipe') + Len(Unsent)
      /\ \A i \in 1 .. Len(rbuf) : t[i] = rbuf[i]
      /\ \A i \in 1 .. Len(pipe') : t[Len(rbuf) + i] = pipe'[i]
      /\ \A i \in 1 .. Len(Unsent) : t[Len(rbuf) + Len(pipe') + i] = Unsent[i]
  <2> DEFINE p == pipe'
  <2>1. rbuf \in Seq(U) /\ p \in Seq(U) /\ Unsent \in Seq(U)
    BY <1>3, <1>5
  <2> HIDE DEF p
  <2>2. LET r == rbuf \o p \o Unsent
        IN  /\ r \in Seq(U) /\ Len(r) = Len(rbuf) + Len(p) + Len(Unsent)
            /\ \A i \in 1 .. Len(rbuf) : r[i] = rbuf[i]
            /\ \A i \in 1 .. Len(p) : r[Len(rbuf) + i] = p[i]
            /\ \A i \in 1 .. Len(Unsent) : r[Len(rbuf) + Len(p) + i] = Unsent[i]
    BY ONLY <2>1
  <2> QED BY <2>2 DEF p
<1> HIDE DEF t
<1>9. Without(s, k, t)
  <2>1. k + RecordUnits <= Len(s) /\ Len(t) = Len(s) - RecordUnits
    BY <1>3, <1>4, <1>5, <1>8
  <2>2. ASSUME NEW i \in 1 .. Len(t) PROVE t[i] = IF i <= k THEN s[i] ELSE s[RecordUnits + i]
    <3>1. CASE i <= k
      BY <1>3, <1>8, <2>2, <3>1, StreamParts
    <3>2. CASE i > k /\ i <= k + Len(pipe')
      <4> DEFINE j == i - k
      <4>1. j \in 1 .. Len(pipe') /\ k + j = i /\ RecordUnits + j \in 1 .. Len(pipe)
            /\ k + (RecordUnits + j) = RecordUnits + i
        BY <1>3, <1>4, <1>5, <2>2, <3>2
      <4> HIDE DEF j
      <4>2. t[k + j] = pipe'[j] /\ pipe'[j] = pipe[RecordUnits + j]
        BY <1>5, <1>8, <4>1
      <4>3. s[k + (RecordUnits + j)] = pipe[RecordUnits + j]
        BY <4>1, StreamParts
      <4>4. ~(i <= k)
        BY <1>3, <2>2, <3>2
      <4> QED BY <4>1, <4>2, <4>3, <4>4
    <3>3. CASE i > k + Len(pipe')
      <4> DEFINE j == i - k - Len(pipe')
      <4>1. /\ j \in 1 .. Len(Unsent) /\ k + Len(pipe') + j = i
            /\ k + Len(pipe) + j = RecordUnits + i /\ ~(i <= k)
        BY <1>3, <1>4, <1>5, <1>8, <2>2, <3>3
      <4> HIDE DEF j
      <4>2. t[k + Len(pipe') + j] = Unsent[j] /\ s[k + Len(pipe) + j] = Unsent[j]
        BY <1>8, <4>1, StreamParts
      <4> QED BY <4>1, <4>2
    <3>4. i \in Nat /\ k \in Nat /\ Len(pipe') \in Nat
      BY <1>3, <1>4, <1>5, <2>2
    <3> QED BY <3>1, <3>2, <3>3, <3>4
  <2> QED BY <2>1, <2>2 DEF Without
<1>10. s[k + 1] = pipe[1] /\ pipe[1].part = 1
  <2>1. 1 \in 1 .. Len(pipe)
    BY <1>3
  <2> QED BY <1>1, <2>1, StreamParts DEF DatagramInv
<1>11. s # <<>> /\ s[1].part = 1 /\ Chain(x, s) /\ StartsAt(x, s, read_seq)
  <2>1. s # <<>>
    BY <1>3
  <2> QED BY <1>2, <2>1 DEF FlowInv, HeadInv
<1>12. TailId \in Nat /\ (s_open => EndsAt(x, s, read_seq, write_seq, TailId))
  BY TailIdType DEF FlowInv, TailInv
<1>13. /\ Chain(x, t) /\ StartsAt(x, t, read_seq) /\ (t # <<>> => t[1].part = 1 /\ t[1].seq >= s[1].seq)
       /\ \A q \in Nat, i \in Nat :
            EndsAt(x, s, read_seq, q, i) => EndsAt(x, t, read_seq, q, i) /\ (t = <<>> => q > s[1].seq)
  <2>1. s \in Seq(Unit(use)) /\ t \in Seq(Unit(use)) /\ k \in Nat /\ x # 1 /\ s[k + 1].part = 1 /\ read_seq \in Nat
    BY <1>2, <1>3, <1>8, <1>10 DEF U
  <2> HIDE DEF s, k, x
  <2> QED BY ONLY <1>9, <1>11, <2>1, LoseRecord
<1>14. s_open => EndsAt(x, t, read_seq, write_seq, TailId) /\ (t = <<>> => write_seq > s[1].seq)
  BY <1>3, <1>12, <1>13
<1>15. FlowInv'
  BY <1>6, <1>7, <1>13, <1>14, NextFlow
<1> QED
  BY <1>7, <1>11, <1>13, <1>14, <1>15
\* What read_record leaves of the stream, and why nothing of it has the number it expected.
LEMMA FlowRead ==
  ASSUME TypeInv, PhaseInv, FlowInv, use' = use, read_record
  PROVE  /\ FlowInv' /\ Stream # <<>> /\ Stream[1] = rbuf[1] /\ rbuf[1].part = 1
         /\ Stream' # <<>> => Stream'[1].seq > rbuf[1].seq
         /\ Stream' = <<>> /\ s_open => write_seq > rbuf[1].seq
<1> DEFINE U == Unit(use)
<1>1. /\ ~ktls_active /\ Len(rbuf) = RecordUnits /\ rbuf' = <<>> /\ UNCHANGED <<sendVars, ktls_active, pipe>>
      /\ Fails(rbuf[1]) \/ Data(rbuf[1]) \/ Skips(rbuf[1]) \/ Alerted(rbuf[1])
  BY ReadEffect
<1>2. /\ Stream \in Seq(U) /\ pipe \in Seq(U) /\ rbuf \in Seq(U) /\ Unsent \in Seq(U)
      /\ Len(Stream) = RecordUnits + Len(pipe) + Len(Unsent)
      /\ Len(pipe) \in Nat /\ Len(Unsent) \in Nat
      /\ RecordUnits \in Nat /\ RecordUnits >= 2
  BY <1>1, StreamParts, SizesAssumption DEF TypeInv, RecvType
<1>3. Stream[1] = rbuf[1] /\ Stream # <<>> /\ RecordUnits <= Len(Stream)
  <2>1. 1 \in 1 .. Len(rbuf) /\ Len(Stream) # 0
    BY <1>1, <1>2
  <2> QED BY <1>2, <2>1, StreamParts
<1>4. rbuf[1].part = 1
  BY <1>1, <1>3 DEF FlowInv, HeadInv
<1>5. Unsent' = Unsent
  BY <1>1 DEF Unsent, sendVars
<1>6. Stream' = <<>> \o pipe \o Unsent
  BY <1>1, <1>5 DEF Stream
<1> HIDE DEF U
<1>7. /\ Stream' \in Seq(U) /\ Len(Stream') = Len(pipe) + Len(Unsent)
      /\ \A i \in 1 .. Len(pipe) : Stream'[i] = pipe[i]
      /\ \A i \in 1 .. Len(Unsent) : Stream'[Len(pipe) + i] = Unsent[i]
  BY <1>2, <1>6
<1>8. ASSUME NEW i \in 1 .. Len(Stream') PROVE Stream'[i] = Stream[RecordUnits + i]
  <2>1. CASE i <= Len(pipe)
    <3>1. i \in 1 .. Len(pipe)
      BY <1>2, <1>7, <1>8, <2>1
    <3>2. Stream[Len(rbuf) + i] = pipe[i]
      BY <3>1, StreamParts
    <3> QED BY <1>1, <1>7, <3>1, <3>2
  <2>2. CASE i > Len(pipe)
    <3> DEFINE j == i - Len(pipe)
    <3>1. j \in 1 .. Len(Unsent) /\ Len(pipe) + j = i /\ RecordUnits + Len(pipe) + j = RecordUnits + i
      BY <1>2, <1>7, <1>8, <2>2
    <3> HIDE DEF j
    <3>2. Stream[Len(rbuf) + Len(pipe) + j] = Unsent[j] /\ Stream'[Len(pipe) + j] = Unsent[j]
      BY <1>7, <3>1, StreamParts
    <3> QED BY <1>1, <3>1, <3>2
  <2> QED BY <1>2, <1>7, <1>8, <2>1, <2>2
<1>9. read_seq' \in {read_seq, read_seq + 1}
  BY <1>1 DEF Fails, Data, Skips, Alerted
<1>10. read_seq' = read_seq => Strict # 1
  <2> SUFFICES ASSUME read_seq' = read_seq PROVE Strict # 1
    OBVIOUS
  <2>1. read_seq \in Nat /\ read_seq + 1 # read_seq
    BY DEF TypeInv, RecvType
  <2>2. SkippedUnopened(rbuf[1].id)
    BY <1>1, <2>1 DEF Fails, Data, Skips, Alerted
  <2>3. rbuf[1].id \in DOMAIN Kinds
    <3>1. rbuf[1] \in Unit(use)
      BY <1>1, <1>2 DEF U
    <3> QED BY <3>1, UseFacts DEF Unit, Kinds
  <2> QED BY <2>2, <2>3 DEF SkippedUnopened, Strict, Reliable, Dependable
<1>11. /\ FlowInv' /\ (Stream' # <<>> => Stream'[1].seq > Stream[1].seq)
       /\ Stream' = <<>> /\ s_open => write_seq > Stream[1].seq
  <2>1. Stream' \in Seq(Unit(use)) /\ Len(Stream') = Len(Stream) - RecordUnits
    BY <1>2, <1>7 DEF U
  <2>2. \A i \in 1 .. Len(Stream') : Stream'[i] = Stream[RecordUnits + i]
    BY <1>8
  <2>3. Stream[1].part = 1 /\ UNCHANGED <<sendVars, ktls_active>>
    BY <1>1, <1>3, <1>4
  <2> QED BY <1>3, <1>9, <1>10, <2>1, <2>2, <2>3, FlowTake
<1> QED
  BY <1>3, <1>4, <1>11

\* The same for a record that recv returns under kTLS.
LEMMA FlowKtls ==
  ASSUME TypeInv, PhaseInv, FlowInv, use' = use, KtlsRecord, r_open'
  PROVE  /\ FlowInv' /\ Stream # <<>> /\ Stream[1] = pipe[1] /\ pipe[1].seq = read_seq
         /\ Stream' # <<>> => Stream'[1].seq > pipe[1].seq
         /\ Stream' = <<>> /\ s_open => write_seq > pipe[1].seq
<1> DEFINE U == Unit(use)
<1>1. /\ ktls_active /\ Len(pipe) >= RecordUnits /\ pipe' = SubSeq(pipe, RecordUnits + 1, Len(pipe))
      /\ read_seq' = read_seq + 1 /\ rbuf' = rbuf /\ UNCHANGED sendVars
      /\ pipe[1].part = 1 /\ pipe[1].seq = read_seq /\ UNCHANGED <<r_open, ktls_active>>
  BY KtlsEffect
<1>2. rbuf = <<>> /\ Unsent' = Unsent
  BY <1>1 DEF PhaseInv, Unsent, sendVars
<1>3. /\ Stream \in Seq(U) /\ pipe \in Seq(U) /\ Unsent \in Seq(U)
      /\ Len(rbuf) = 0 /\ Len(Stream) = Len(pipe) + Len(Unsent)
      /\ Len(pipe) \in Nat /\ Len(Unsent) \in Nat
      /\ RecordUnits \in Nat /\ RecordUnits >= 2 /\ read_seq \in Nat
  BY <1>2, StreamParts, SizesAssumption DEF TypeInv, RecvType
<1>4. Stream[1] = pipe[1] /\ Stream # <<>> /\ RecordUnits <= Len(Stream)
  <2>1. 1 \in 1 .. Len(pipe) /\ 0 + 1 = 1 /\ Len(Stream) # 0 /\ RecordUnits <= Len(Stream)
    BY <1>1, <1>3
  <2>2. Stream[Len(rbuf) + 1] = pipe[1]
    BY <2>1, StreamParts
  <2> QED BY <1>3, <2>1, <2>2
<1>5. /\ pipe' \in Seq(U) /\ Len(pipe') = Len(pipe) - RecordUnits
      /\ \A i \in 1 .. Len(pipe') : pipe'[i] = pipe[RecordUnits + i]
  BY <1>1, <1>3
<1> DEFINE p == pipe'
<1>6. Stream' = <<>> \o p \o Unsent
  BY <1>1, <1>2 DEF Stream
<1>7. p \in Seq(U) /\ Unsent \in Seq(U)
  BY <1>3, <1>5
<1> HIDE DEF U, p
<1>8. /\ Stream' \in Seq(U) /\ Len(Stream') = Len(p) + Len(Unsent)
      /\ \A i \in 1 .. Len(p) : Stream'[i] = p[i]
      /\ \A i \in 1 .. Len(Unsent) : Stream'[Len(p) + i] = Unsent[i]
  BY ONLY <1>6, <1>7
<1>9. ASSUME NEW i \in 1 .. Len(Stream') PROVE Stream'[i] = Stream[RecordUnits + i]
  <2>0. Len(p) = Len(pipe) - RecordUnits /\ Len(p) \in Nat
    BY <1>1, <1>3, <1>5 DEF p
  <2>1. CASE i <= Len(p)
    <3>1. i \in 1 .. Len(p) /\ RecordUnits + i \in 1 .. Len(pipe) /\ 0 + (RecordUnits + i) = RecordUnits + i
      BY <1>3, <1>8, <1>9, <2>0, <2>1
    <3>2. Stream[Len(rbuf) + (RecordUnits + i)] = pipe[RecordUnits + i]
      BY <3>1, StreamParts
    <3>3. Stream'[i] = p[i] /\ p[i] = pipe[RecordUnits + i]
      BY <1>5, <1>8, <3>1 DEF p
    <3> QED BY <1>3, <3>1, <3>2, <3>3
  <2>2. CASE i > Len(p)
    <3> DEFINE j == i - Len(p)
    <3>1. j \in 1 .. Len(Unsent) /\ Len(p) + j = i /\ 0 + Len(pipe) + j = RecordUnits + i
      BY <1>3, <1>8, <1>9, <2>0, <2>2
    <3> HIDE DEF j
    <3>2. Stream[Len(rbuf) + Len(pipe) + j] = Unsent[j] /\ Stream'[Len(p) + j] = Unsent[j]
      BY <1>8, <3>1, StreamParts
    <3> QED BY <1>3, <3>1, <3>2
  <2> QED BY <1>8, <1>9, <2>0, <2>1, <2>2
<1>10. /\ FlowInv' /\ (Stream' # <<>> => Stream'[1].seq > Stream[1].seq)
       /\ Stream' = <<>> /\ s_open => write_seq > Stream[1].seq
  <2>1. Stream' \in Seq(Unit(use)) /\ Len(Stream') = Len(Stream) - RecordUnits
    BY <1>1, <1>3, <1>5, <1>8 DEF U, p
  <2>2. \A i \in 1 .. Len(Stream') : Stream'[i] = Stream[RecordUnits + i]
    BY <1>9
  <2>3. Stream[1].part = 1 /\ UNCHANGED <<sendVars, ktls_active>>
    BY <1>1, <1>4
  <2>4. read_seq' \in {read_seq, read_seq + 1} /\ (read_seq' = read_seq => Strict # 1)
    BY <1>1, <1>3
  <2> QED BY <1>4, <2>1, <2>2, <2>3, <2>4, FlowTake
<1> QED
  BY <1>1, <1>4, <1>10

\* enable_ktls drops what has been read: nothing, or the beginning of a record in
\* non-blocking mode, and then the kernel starts in the middle of that record.
LEMMA FlowEnable ==
  ASSUME TypeInv, PhaseInv, FlowInv, use' = use, enable_ktls
  PROVE  FlowInv' /\ (rbuf = <<>> => Stream' = Stream)
<1> DEFINE U == Unit(use)
<1>1. /\ ~ktls_active /\ ktls_active' /\ r_state = "idle" /\ rbuf' = <<>>
      /\ UNCHANGED <<sendVars, pipe, read_seq>>
  BY DEF enable_ktls
<1>2. Len(rbuf) < RecordUnits /\ (RecvMode # "nonblocking" => rbuf = <<>>)
  BY <1>1 DEF PhaseInv
<1>3. Unsent' = Unsent /\ TailId' = TailId /\ s_open' = s_open /\ write_seq' = write_seq /\ read_seq' = read_seq
  BY <1>1, Fixed DEF Unsent, TailId, sendVars
<1>4. CASE rbuf = <<>>
  <2>1. Stream' = Stream
    BY <1>1, <1>3, <1>4 DEF Stream
  <2> QED BY <1>1, <1>3, <2>1, SameStream
<1>5. CASE rbuf # <<>>
  <2>1. /\ Stream \in Seq(U) /\ pipe \in Seq(U) /\ rbuf \in Seq(U) /\ Unsent \in Seq(U)
        /\ Len(Stream) = Len(rbuf) + Len(pipe) + Len(Unsent)
        /\ Len(rbuf) \in Nat /\ Len(pipe) \in Nat /\ Len(Unsent) \in Nat /\ Len(rbuf) >= 1
        /\ RecordUnits \in Nat /\ RecordUnits >= 2
    BY <1>5, StreamParts, SizesAssumption DEF TypeInv, RecvType
  <2>2. Stream # <<>> /\ Stream[1].part = 1 /\ Chain(Strict, Stream)
    <3>1. Stream # <<>>
      BY <2>1
    <3> QED BY <1>1, <3>1 DEF FlowInv, HeadInv
  <2> DEFINE t == <<>> \o pipe \o Unsent
             k == Len(rbuf)
  <2>3. Stream' = t
    BY <1>1, <1>3 DEF Stream
  <2> HIDE DEF U
  <2>4. /\ t \in Seq(U) /\ Len(t) = Len(pipe) + Len(Unsent)
        /\ \A i \in 1 .. Len(pipe) : t[i] = pipe[i]
        /\ \A i \in 1 .. Len(Unsent) : t[Len(pipe) + i] = Unsent[i]
    BY <2>1
  <2> HIDE DEF t
  <2>5. ASSUME NEW i \in 1 .. Len(t) PROVE t[i] = Stream[k + i]
    <3>1. CASE i <= Len(pipe)
      <4>1. i \in 1 .. Len(pipe)
        BY <2>1, <2>4, <2>5, <3>1
      <4> QED BY <2>4, <4>1, StreamParts
    <3>2. CASE i > Len(pipe)
      <4> DEFINE j == i - Len(pipe)
      <4>1. j \in 1 .. Len(Unsent) /\ Len(pipe) + j = i /\ k + Len(pipe) + j = k + i
        BY <2>1, <2>4, <2>5, <3>2
      <4> HIDE DEF j
      <4>2. Stream[k + Len(pipe) + j] = Unsent[j] /\ t[Len(pipe) + j] = Unsent[j]
        BY <2>4, <4>1, StreamParts
      <4> QED BY <4>1, <4>2
    <3> QED BY <2>1, <2>4, <2>5, <3>1, <3>2
  <2>6. k \in Nat /\ k >= 1 /\ k < RecordUnits /\ k + Len(t) = Len(Stream) /\ Len(t) \in Nat
    BY <1>2, <2>1, <2>4
  <2>7. Chain(Strict, t)
    <3>1. \A i \in 1 .. Len(t) : t[i] = Stream[k + i]
      BY <2>5
    <3>2. Stream \in Seq(U) /\ t \in Seq(U) /\ k \in Nat /\ Chain(Strict, Stream) /\ k + Len(t) <= Len(Stream)
      BY <2>1, <2>2, <2>4, <2>6
    <3> HIDE DEF k
    <3> QED BY ONLY <3>1, <3>2, ChainPart
  <2>8. ASSUME NEW e \in 1 .. k + 1, e <= Len(Stream) PROVE Stream[e].part = e
    <3>1. e \in 1 .. Len(Stream) /\ e < 1 + RecordUnits /\ 1 \in 1 .. Len(Stream)
      BY <2>1, <2>6, <2>8
    <3>2. Stream[e].part = e - 1 + 1
      <4>1. Stream \in Seq(U) /\ Chain(Strict, Stream) /\ Stream[1].part = 1 /\ e \in 1 .. Len(Stream)
        BY <2>1, <2>2, <3>1
      <4> QED BY ONLY <3>1, <4>1, RecordAt
    <3> QED BY <3>1, <3>2
  <2>9. t # <<>> => t[1].part # 1
    <3> SUFFICES ASSUME t # <<>> PROVE t[1].part # 1
      OBVIOUS
    <3>1. Len(t) >= 1 /\ 1 \in 1 .. Len(t) /\ k + 1 \in 1 .. k + 1 /\ k + 1 <= Len(Stream) /\ k + 1 # 1
      BY <2>4, <2>6
    <3> QED BY <2>5, <2>8, <3>1
  <2>10. s_open => EndsAt(Strict, t, read_seq, write_seq, TailId)
    <3> SUFFICES ASSUME s_open PROVE EndsAt(Strict, t, read_seq, write_seq, TailId)
      OBVIOUS
    <3>1. /\ Stream[Len(Stream)].part = RecordUnits
          /\ After(Strict, Stream[Len(Stream)].seq, Stream[Len(Stream)].id, write_seq, TailId)
      BY <2>2 DEF FlowInv, TailInv, EndsAt
    <3>2. Len(t) # 0
      <4> SUFFICES ASSUME Len(t) = 0 PROVE FALSE
        OBVIOUS
      <4>1. Len(Stream) = k /\ k \in 1 .. k + 1 /\ k <= Len(Stream) /\ k # RecordUnits
        BY <2>6
      <4> QED BY <2>8, <3>1, <4>1
    <3>3. t # <<>> /\ t[Len(t)] = Stream[Len(Stream)]
      <4>1. Len(t) \in 1 .. Len(t) /\ k + Len(t) = Len(Stream)
        BY <2>6, <3>2
      <4>2. t[Len(t)] = Stream[k + Len(t)]
        BY <2>5, <4>1
      <4>3. t # <<>>
        BY <3>2
      <4> QED BY <4>1, <4>2, <4>3
    <3> QED BY <3>1, <3>3 DEF EndsAt
  <2>11. StartsAt(Strict, t, read_seq)
    BY <2>9 DEF StartsAt
  <2>12. RecvMode = "nonblocking"
    BY <1>2, <1>5
  <2> QED BY <1>1, <1>3, <1>5, <2>3, <2>7, <2>10, <2>11, <2>12, NextFlow
<1> QED
  BY <1>4, <1>5
\* A closed connection is not opened again.
LEMMA StaysClosed ==
  ASSUME PhaseInv, Next, r_open'
  PROVE  r_open
<1>1. CASE send \/ WriteSome \/ WriteDone \/ WriteWouldBlock \/ PartialWriteTimeout \/ WriteSuspends \/ WriteFails \/ CloseSender
           \/ run_once \/ resume \/ LoseDatagram
  BY <1>1 DEF send, WriteSome, WriteDone, WriteWouldBlock, PartialWriteTimeout,
     WriteSuspends, WriteFails, CloseSender, run_once, resume, LoseDatagram, recvVars
<1>2. CASE recv \/ FillSome \/ FillWouldBlock \/ FillSuspends \/ FillEof \/ CloseReceiver \/ KtlsEof \/ enable_ktls
  BY <1>2 DEF recv, FillSome, FillWouldBlock, FillSuspends, FillEof, CloseReceiver, KtlsEof, enable_ktls
<1>3. CASE read_record
  BY <1>3, ReadEffect DEF PhaseInv
<1>4. CASE KtlsRecord
  BY <1>4, KtlsEffect DEF PhaseInv
<1> QED
  BY StepCases, <1>1, <1>2, <1>3, <1>4

\* The stream stays one chain from the number expected to the number used next.
LEMMA FlowStep ==
  ASSUME TypeInv, ExecutorInv, PhaseInv, FlowInv, RecInv, DatagramInv, Next, r_open'
  PROVE  FlowInv'
<1>1. use' = use
  BY StepCases
<1>2. ASSUME UNCHANGED <<s_open, write_seq, rec, pipe, rbuf, read_seq>>, ktls_active => ktls_active', TailId' = TailId
      PROVE  FlowInv'
  <2>1. Stream' = Stream
    BY <1>2 DEF Stream, Unsent
  <2> QED BY <1>1, <1>2, <2>1, SameStream
<1>3. UNCHANGED sendVars => TailId' = TailId
  BY <1>1, Fixed DEF sendVars, TailId
<1>10. CASE send
  BY <1>1, <1>10, FlowSend
<1>11. CASE WriteSome \/ FillSome
  BY <1>1, <1>11, FlowMoves
<1>12. CASE WriteDone
  <2>1. next \in 1 .. Len(LastRecord) /\ s_state = "writing" /\ next' = next + 1 /\ s_state' = "idle"
    BY <1>12, UseFacts DEF WriteDone, TypeInv, SendType
  <2>2. FirstRecord(next + 1) = LastRecord[next] + 1
    BY <2>1, UseFacts
  <2>3. TailId' = TailId
    BY <1>1, <2>1, <2>2, Fixed DEF TailId, FirstRecord
  <2> QED BY <1>2, <1>12, <2>3 DEF WriteDone, recvVars
<1>13. CASE WriteWouldBlock
  BY <1>1, <1>13, FlowWouldBlock
<1>14. CASE PartialWriteTimeout \/ WriteFails \/ CloseSender
  BY <1>1, <1>14, SenderCloses DEF PartialWriteTimeout, WriteFails, CloseSender, recvVars
<1>15. CASE WriteSuspends
  <2>1. TailId' = TailId
    BY <1>1, <1>15, Fixed DEF WriteSuspends, WriteBlocked, TailId
  <2> QED BY <1>2, <1>15, <2>1 DEF WriteSuspends, recvVars
<1>16. CASE recv \/ FillWouldBlock \/ FillSuspends
  <2>1. UNCHANGED <<sendVars, pipe, rbuf, read_seq, ktls_active>>
    BY <1>16 DEF recv, FillWouldBlock, FillSuspends
  <2> QED BY <1>2, <1>3, <2>1 DEF sendVars
<1>17. CASE FillEof \/ CloseReceiver \/ KtlsEof
  BY <1>17 DEF FillEof, CloseReceiver, KtlsEof
<1>18. CASE read_record
  BY <1>1, <1>18, FlowRead
<1>19. CASE KtlsRecord
  BY <1>1, <1>19, FlowKtls
<1>20. CASE run_once
  <2>1. UNCHANGED <<sendVars, pipe, rbuf, read_seq, ktls_active>>
    BY <1>20 DEF run_once, recvVars
  <2> QED BY <1>2, <1>3, <2>1 DEF sendVars
<1>21. CASE resume
  <2>1. Suspended(Head(ready))
    <3>1. ready \in Seq(Calls) /\ ready # <<>>
      BY <1>21 DEF resume, TypeInv, ExecType
    <3> QED BY <3>1 DEF ExecutorInv
  <2>2. TailId' = TailId
    BY <1>1, <1>21, <2>1, Fixed DEF resume, Suspended, Asleep, TailId
  <2> QED BY <1>2, <1>21, <2>2 DEF resume
<1>22. CASE enable_ktls
  BY <1>1, <1>22, FlowEnable
<1>23. CASE LoseDatagram
  BY <1>1, <1>23, FlowLose
<1> QED
  BY StepCases, <1>10, <1>11, <1>12, <1>13, <1>14, <1>15, <1>16, <1>17, <1>18, <1>19, <1>20, <1>21, <1>22, <1>23

\* A send that has not begun, and in datagram mode every send, is left at a header.
LEMMA RecStep ==
  ASSUME TypeInv, PhaseInv, FlowInv, RecInv, Next
  PROVE  RecInv'
<1>1. use' = use
  BY StepCases
<1>2. UNCHANGED <<s_open, write_seq, rec, off>> => RecInv'
  BY <1>1 DEF RecInv
<1>3. CASE send
  <2> DEFINE t == tls_encrypt(next)
  <2>1. /\ t \in Seq(Unit(use)) /\ t[1].part = 1
        /\ \A i \in 1 .. Len(t) : t[i].seq < write_seq + (LastRecord[next] - FirstRecord(next) + 1)
    BY <1>3, EncryptFacts DEF send
  <2>2. rec' = t /\ write_seq' = write_seq + (LastRecord[next] - FirstRecord(next) + 1)
    BY <1>3 DEF send
  <2> HIDE DEF t
  <2>3. DOMAIN t = 1 .. Len(t)
    BY <2>1
  <2> QED BY <2>1, <2>2, <2>3 DEF RecInv
<1>4. CASE WriteSome
  <2>1. /\ rec \in Seq(Unit(use)) /\ Len(rec) \in Nat /\ RecordUnits \in Nat \ {0} /\ off \in Nat
        /\ s_state = "writing" /\ UNCHANGED <<s_open, write_seq>>
    BY <1>4, SizesAssumption DEF WriteSome, TypeInv, SendType
  <2>2. PICK n \in 1 .. Len(rec) : /\ rec' = SubSeq(rec, n + 1, Len(rec)) /\ off' = off + n
                                   /\ use.datagram => n = RecordUnits
    BY <1>4, <2>1 DEF WriteSome
  <2>3. s_open /\ Unsent = rec /\ rec # <<>>
    BY <2>1, <2>2 DEF PhaseInv, Unsent
  <2>4. /\ Len(rec') = Len(rec) - n /\ DOMAIN rec' = 1 .. Len(rec) - n
        /\ \A i \in 1 .. Len(rec) - n : rec'[i] = rec[n + i] /\ n + i \in DOMAIN rec
    BY <2>1, <2>2
  <2>5. \A i \in DOMAIN rec' : rec'[i].seq < write_seq'
    BY <2>1, <2>3, <2>4 DEF RecInv
  <2>6. off' # 0
    BY <2>1, <2>2
  <2>7. ASSUME use.datagram, rec' # <<>> PROVE rec'[1].part = 1
    <3>1. rec[1].part = 1 /\ n = RecordUnits
      BY <2>2, <2>3, <2>7 DEF RecInv
    <3>2. Chain(Strict, rec)
      BY <2>3, PartsChain
    <3>3. n < Len(rec)
      BY <2>1, <2>2, <2>7
    <3>4. rec[RecordUnits + 1].part = 1
      BY ONLY <2>1, <2>3, <3>1, <3>2, <3>3, FirstWhole
    <3>5. 1 \in 1 .. Len(rec) - n
      BY <2>1, <2>2, <3>3
    <3> QED BY <2>4, <3>1, <3>4, <3>5
  <2> QED BY <1>1, <2>5, <2>6, <2>7 DEF RecInv
<1>5. CASE WriteDone
  BY <1>5 DEF WriteDone, RecInv
<1>6. CASE WriteWouldBlock
  BY <1>6 DEF WriteWouldBlock, RecInv
<1>7. CASE PartialWriteTimeout \/ WriteFails \/ CloseSender
  BY <1>7 DEF PartialWriteTimeout, WriteFails, CloseSender, RecInv
<1>8. CASE WriteSuspends \/ resume
  BY <1>2, <1>8 DEF WriteSuspends, resume
<1>9. CASE recv \/ FillSome \/ FillWouldBlock \/ FillSuspends \/ FillEof \/ read_record
           \/ CloseReceiver \/ KtlsRecord \/ KtlsEof \/ run_once \/ enable_ktls \/ LoseDatagram
  <2>1. UNCHANGED sendVars
    BY <1>9 DEF recv, FillSome, FillWouldBlock, FillSuspends, FillEof, read_record,
       CloseReceiver, KtlsRecord, KtlsEof, run_once, enable_ktls, LoseDatagram
  <2> QED BY <1>2, <2>1 DEF sendVars
<1> QED
  BY StepCases, <1>3, <1>4, <1>5, <1>6, <1>7, <1>8, <1>9

\* Datagrams are sent, received and lost as a whole.
LEMMA DatagramStep ==
  ASSUME TypeInv, PhaseInv, FlowInv, RecInv, DatagramInv, Next
  PROVE  DatagramInv'
<1> SUFFICES ASSUME use.datagram PROVE DatagramInv'
  BY StepCases DEF DatagramInv
<1>1. /\ use' = use /\ (rbuf = <<>> \/ Len(rbuf) = RecordUnits)
      /\ pipe # <<>> => pipe[1].part = 1 /\ pipe[Len(pipe)].part = RecordUnits
      /\ RecordUnits \in Nat /\ RecordUnits >= 2 /\ ~ktls_active
      /\ pipe \in Seq(Unit(use)) /\ Len(pipe) \in Nat /\ rbuf \in Seq(Unit(use)) /\ Len(rbuf) \in Nat
      /\ Chain(Strict, pipe)
  BY StepCases, SizesAssumption, PartsChain DEF DatagramInv, PhaseInv, TypeInv, RecvType
<1>2. pipe' = pipe /\ (rbuf' = rbuf \/ rbuf' = <<>>) => DatagramInv'
  BY <1>1 DEF DatagramInv
\* A datagram leaves the kernel.
<1>3. ASSUME pipe # <<>>, pipe' = SubSeq(pipe, RecordUnits + 1, Len(pipe))
      PROVE  pipe' # <<>> => pipe'[1].part = 1 /\ pipe'[Len(pipe')].part = RecordUnits
  <2> SUFFICES ASSUME pipe' # <<>> PROVE pipe'[1].part = 1 /\ pipe'[Len(pipe')].part = RecordUnits
    OBVIOUS
  <2>1. RecordUnits <= Len(pipe)
    BY <1>1, <1>3, FirstWhole
  <2>2. Len(pipe') = Len(pipe) - RecordUnits /\ \A i \in 1 .. Len(pipe') : pipe'[i] = pipe[RecordUnits + i]
    BY <1>1, <1>3, <2>1
  <2>3. Len(pipe') >= 1 /\ Len(pipe') \in Nat /\ RecordUnits < Len(pipe)
    BY <1>1, <1>3, <2>1, <2>2
  <2>4. pipe[RecordUnits + 1].part = 1
    BY <1>1, <1>3, <2>3, FirstWhole
  <2>5. /\ 1 \in 1 .. Len(pipe') /\ Len(pipe') \in 1 .. Len(pipe')
        /\ RecordUnits + Len(pipe') = Len(pipe)
    BY <1>1, <2>2, <2>3
  <2>6. pipe'[1] = pipe[RecordUnits + 1] /\ pipe'[Len(pipe')] = pipe[RecordUnits + Len(pipe')]
    BY <2>2, <2>5
  <2> QED BY <1>1, <1>3, <2>4, <2>5, <2>6
<1>4. CASE send \/ WriteDone \/ WriteWouldBlock \/ PartialWriteTimeout \/ WriteSuspends \/ WriteFails \/ CloseSender
           \/ run_once \/ resume
  BY <1>2, <1>4 DEF send, WriteDone, WriteWouldBlock, PartialWriteTimeout, WriteSuspends, WriteFails, CloseSender,
     run_once, resume, recvVars
<1>5. CASE recv \/ FillWouldBlock \/ FillSuspends \/ FillEof \/ read_record \/ CloseReceiver \/ KtlsEof \/ enable_ktls
  BY <1>2, <1>5 DEF recv, FillWouldBlock, FillSuspends, FillEof, read_record, CloseReceiver, KtlsEof, enable_ktls
<1>6. CASE KtlsRecord
  BY <1>1, <1>6 DEF KtlsRecord
<1>7. CASE WriteSome
  <2>1. /\ rec \in Seq(Unit(use)) /\ Len(rec) \in Nat /\ RecordUnits <= Len(rec) /\ s_state = "writing"
        /\ pipe' = pipe \o SubSeq(rec, 1, RecordUnits) /\ rbuf' = rbuf
    <3>1. rec \in Seq(Unit(use)) /\ Len(rec) \in Nat
      BY DEF TypeInv, SendType
    <3>2. PICK n \in {RecordUnits} : n <= Len(rec) /\ pipe' = pipe \o SubSeq(rec, 1, n)
      BY <1>7 DEF WriteSome
    <3>3. s_state = "writing" /\ rbuf' = rbuf
      BY <1>7 DEF WriteSome, recvVars
    <3> QED BY <3>1, <3>2, <3>3
  <2>2. s_open /\ Unsent = rec /\ rec # <<>>
    BY <1>1, <2>1 DEF PhaseInv, Unsent
  <2>3. rec[1].part = 1 /\ Chain(Strict, rec)
    BY <2>2, PartsChain DEF RecInv
  <2>4. rec[RecordUnits].part = RecordUnits
    BY ONLY <2>1, <2>2, <2>3, FirstWhole
  <2>5. /\ pipe' # <<>> /\ Len(pipe') = Len(pipe) + RecordUnits
        /\ pipe'[Len(pipe) + RecordUnits] = rec[RecordUnits]
        /\ (pipe = <<>> => pipe'[1] = rec[1]) /\ (pipe # <<>> => pipe'[1] = pipe[1])
    <3> DEFINE f == SubSeq(rec, 1, RecordUnits)
    <3>1. /\ f \in Seq(Unit(use)) /\ Len(f) = RecordUnits
          /\ f[1] = rec[1] /\ f[RecordUnits] = rec[RecordUnits]
      BY <1>1, <2>1
    <3>2. pipe' = pipe \o f /\ pipe \in Seq(Unit(use)) /\ Len(pipe) \in Nat /\ RecordUnits \in Nat /\ RecordUnits >= 2
      BY <1>1, <2>1
    <3> HIDE DEF f
    <3>3. /\ pipe' # <<>> /\ Len(pipe') = Len(pipe) + RecordUnits
          /\ pipe'[Len(pipe) + RecordUnits] = f[RecordUnits]
          /\ (pipe = <<>> => pipe'[1] = f[1]) /\ (pipe # <<>> => pipe'[1] = pipe[1])
      <4>1. Len(pipe') = Len(pipe) + RecordUnits
        <5>1. Len(pipe \o f) = Len(pipe) + Len(f)
          BY ONLY <3>1, <3>2, ConcatProperties
        <5> QED BY ONLY <3>1, <3>2, <5>1
      <4>2. pipe'[Len(pipe) + RecordUnits] = f[RecordUnits]
        BY ONLY <3>1, <3>2
      <4>3. pipe = <<>> => pipe'[1] = f[1]
        BY ONLY <3>1, <3>2
      <4>4. pipe # <<>> => pipe'[1] = pipe[1]
        BY ONLY <3>1, <3>2
      <4>5. pipe' # <<>>
        BY <3>2, <4>1
      <4> QED BY <4>1, <4>2, <4>3, <4>4, <4>5
    <3> QED BY <3>1, <3>3
  <2>6. pipe'[1].part = 1 /\ pipe'[Len(pipe')].part = RecordUnits
    BY <1>1, <2>3, <2>4, <2>5
  <2> QED BY <1>1, <2>1, <2>6 DEF DatagramInv
<1>8. CASE FillSome
  <2>1. /\ pipe # <<>> /\ pipe' = SubSeq(pipe, RecordUnits + 1, Len(pipe)) /\ RecordUnits <= Len(pipe)
        /\ rbuf' = rbuf \o SubSeq(pipe, 1, RecordUnits) /\ Len(rbuf) < RecordUnits
    BY <1>1, <1>8 DEF FillSome
  <2>2. rbuf = <<>> /\ Len(rbuf') = RecordUnits
    <3>1. rbuf = <<>>
      BY <1>1, <2>1
    <3> QED BY <1>1, <2>1, <3>1
  <2> QED BY <1>1, <1>3, <2>1, <2>2 DEF DatagramInv
<1>9. CASE LoseDatagram
  <2>1. pipe # <<>> /\ pipe' = SubSeq(pipe, RecordUnits + 1, Len(pipe)) /\ rbuf' = rbuf
    BY <1>9 DEF LoseDatagram, recvVars
  <2> QED BY <1>1, <1>3, <2>1 DEF DatagramInv
<1> QED
  BY StepCases, <1>4, <1>5, <1>6, <1>7, <1>8, <1>9

\* The three together.
LEMMA StreamStep ==
  ASSUME TypeInv, ExecutorInv, PhaseInv, StreamInv, Next
  PROVE  StreamInv'
<1> SUFFICES ASSUME r_open' PROVE FlowInv' /\ RecInv' /\ DatagramInv'
  BY DEF StreamInv
<1>1. FlowInv /\ RecInv /\ DatagramInv
  BY StaysClosed DEF StreamInv
<1> QED
  BY <1>1, FlowStep, RecStep, DatagramStep
-----------------------------------------------------------------------------
(* Delivery *)

\* A payload of a greater number comes after those collected.
LEMMA TakenAppend ==
  ASSUME NEW K, NEW s \in Seq(Nat), NEW n \in Nat, TakenBy(K, s, n), n + 1 \in DOMAIN K, K[n + 1] = "data"
  PROVE  TakenBy(K, Append(s, n + 1), n + 1)
<1> DEFINE t == Append(s, n + 1)
<1>1. DOMAIN s = 1 .. Len(s) /\ Len(s) \in Nat /\ \A i \in DOMAIN s : s[i] \in Nat /\ s[i] <= n
  BY DEF TakenBy
<1>2. DOMAIN t = 1 .. Len(s) + 1 /\ t[Len(s) + 1] = n + 1 /\ \A i \in DOMAIN s : t[i] = s[i]
  BY <1>1
<1> HIDE DEF t
<1>3. ASSUME NEW i \in DOMAIN t
      PROVE  i \in Nat /\ ((i \in DOMAIN s /\ t[i] = s[i]) \/ (i = Len(s) + 1 /\ t[i] = n + 1))
  BY <1>1, <1>2, <1>3
<1>4. ASSUME NEW i \in DOMAIN t, NEW j \in DOMAIN t, i < j PROVE t[i] < t[j]
  <2>1. i \in Nat /\ j \in Nat /\ ((i \in DOMAIN s /\ t[i] = s[i]) \/ (i = Len(s) + 1 /\ t[i] = n + 1))
        /\ ((j \in DOMAIN s /\ t[j] = s[j]) \/ (j = Len(s) + 1 /\ t[j] = n + 1))
    BY <1>3
  <2>2. CASE j \in DOMAIN s /\ t[j] = s[j]
    BY <1>1, <1>4, <2>1, <2>2 DEF TakenBy
  <2>3. CASE j = Len(s) + 1 /\ t[j] = n + 1
    BY <1>1, <1>4, <2>1, <2>3
  <2> QED BY <2>1, <2>2, <2>3
<1>5. ASSUME NEW i \in DOMAIN t PROVE t[i] <= n + 1 /\ t[i] \in DOMAIN K /\ K[t[i]] = "data"
  BY <1>1, <1>3, <1>5 DEF TakenBy
<1> QED
  BY <1>4, <1>5 DEF TakenBy, t

\* The bound may grow.
LEMMA TakenLater ==
  ASSUME NEW K, NEW s \in Seq(Nat), NEW n \in Nat, NEW m \in Nat, n <= m, TakenBy(K, s, n)
  PROVE  TakenBy(K, s, m)
<1>1. \A i \in DOMAIN s : s[i] \in Nat
  OBVIOUS
<1> QED
  BY <1>1 DEF TakenBy

\* What was returned before and what this call returns.
LEMMA TakenJoin ==
  ASSUME NEW K, NEW s \in Seq(Nat), NEW t \in Seq(Nat), NEW n \in Nat,
         TakenBy(K, s, n), TakenBy(K, t, n), Apart(s, t)
  PROVE  TakenBy(K, s \o t, n)
<1> DEFINE r == s \o t
<1>1. DOMAIN s = 1 .. Len(s) /\ Len(s) \in Nat /\ DOMAIN t = 1 .. Len(t) /\ Len(t) \in Nat
  OBVIOUS
<1>2. DOMAIN r = 1 .. Len(s) + Len(t) /\ \A i \in DOMAIN s : r[i] = s[i]
  BY <1>1
<1>3. \A i \in DOMAIN t : r[Len(s) + i] = t[i]
  BY <1>1
<1> HIDE DEF r
<1>4. ASSUME NEW i \in DOMAIN r
      PROVE  i \in Nat /\ ((i \in DOMAIN s /\ r[i] = s[i]) \/ (i > Len(s) /\ i - Len(s) \in DOMAIN t /\ r[i] = t[i - Len(s)]))
  <2>1. CASE i <= Len(s)
    BY <1>1, <1>2, <1>4, <2>1
  <2>2. CASE i > Len(s)
    <3>1. i - Len(s) \in DOMAIN t /\ Len(s) + (i - Len(s)) = i /\ i \in Nat
      BY <1>1, <1>2, <1>4, <2>2
    <3>2. r[Len(s) + (i - Len(s))] = t[i - Len(s)]
      BY <1>3, <3>1
    <3> QED BY <2>2, <3>1, <3>2
  <2> QED BY <1>1, <1>2, <1>4, <2>1, <2>2
<1>5. ASSUME NEW i \in DOMAIN r, NEW j \in DOMAIN r, i < j PROVE r[i] < r[j]
  <2>1. i \in Nat /\ ((i \in DOMAIN s /\ r[i] = s[i]) \/ (i > Len(s) /\ i - Len(s) \in DOMAIN t /\ r[i] = t[i - Len(s)]))
    BY <1>4
  <2>2. j \in Nat /\ ((j \in DOMAIN s /\ r[j] = s[j]) \/ (j > Len(s) /\ j - Len(s) \in DOMAIN t /\ r[j] = t[j - Len(s)]))
    BY <1>4
  <2>3. CASE i \in DOMAIN s /\ r[i] = s[i] /\ j \in DOMAIN s /\ r[j] = s[j]
    BY <1>5, <2>3 DEF TakenBy
  <2>4. CASE i \in DOMAIN s /\ r[i] = s[i] /\ j - Len(s) \in DOMAIN t /\ r[j] = t[j - Len(s)]
    BY <2>4 DEF Apart
  <2>5. CASE i - Len(s) \in DOMAIN t /\ r[i] = t[i - Len(s)] /\ j - Len(s) \in DOMAIN t /\ r[j] = t[j - Len(s)]
    <3>1. i - Len(s) < j - Len(s)
      BY <1>1, <1>5, <2>1, <2>2
    <3> QED BY <2>5, <3>1 DEF TakenBy
  <2>6. ~(i > Len(s) /\ j \in DOMAIN s)
    BY <1>1, <1>5, <2>1, <2>2
  <2> QED BY <2>1, <2>2, <2>3, <2>4, <2>5, <2>6
<1>6. ASSUME NEW i \in DOMAIN r PROVE r[i] <= n /\ r[i] \in DOMAIN K /\ K[r[i]] = "data"
  BY <1>4, <1>6 DEF TakenBy
<1> QED
  BY <1>5, <1>6 DEF TakenBy, r

\* Members of sequences put together.
LEMMA WithinParts ==
  ASSUME NEW s \in Seq(Nat), NEW t \in Seq(Nat), NEW n
  PROVE  /\ Within(n, s) \/ Within(n, t) => Within(n, s \o t)
         /\ Within(n, t) => \A m \in Nat : Within(n, Append(t, m))
         /\ \A m \in Nat : Within(m, Append(t, m))
<1>1. ASSUME NEW j \in DOMAIN s, s[j] = n PROVE Within(n, s \o t)
  <2>1. j \in DOMAIN (s \o t) /\ (s \o t)[j] = n
    BY <1>1
  <2> QED BY <2>1 DEF Within
<1>2. ASSUME NEW j \in DOMAIN t, t[j] = n PROVE Within(n, s \o t)
  <2>1. Len(s) + j \in DOMAIN (s \o t) /\ (s \o t)[Len(s) + j] = n
    BY <1>2
  <2> QED BY <2>1 DEF Within
<1>3. ASSUME NEW j \in DOMAIN t, t[j] = n, NEW m \in Nat PROVE Within(n, Append(t, m))
  <2>1. j \in DOMAIN Append(t, m) /\ Append(t, m)[j] = n
    BY <1>3
  <2> QED BY <2>1 DEF Within
<1>4. ASSUME NEW m \in Nat PROVE Within(m, Append(t, m))
  <2>1. Len(t) + 1 \in DOMAIN Append(t, m) /\ Append(t, m)[Len(t) + 1] = m
    BY <1>4
  <2> QED BY <2>1 DEF Within
<1> QED
  BY <1>1, <1>2, <1>3, <1>4 DEF Within

\* What a call returns leaves no gap when everything up to the number reached is in it.
LEMMA CoveredReturn ==
  ASSUME NEW K, NEW l \in Nat, DOMAIN K = 1 .. l, NEW s \in Seq(Nat), NEW t \in Seq(Nat), NEW m \in Nat,
         Covered(K, s, t, m), TakenBy(K, s \o t, m)
  PROVE  NoGap(K, s \o t) /\ Covered(K, s \o t, <<>>, m)
<1>1. ASSUME NEW n \in DOMAIN K, n <= m, K[n] = "data" PROVE Within(n, s \o t)
  BY <1>1, WithinParts DEF Covered
<1>2. s \o t \in Seq(Nat)
  OBVIOUS
<1> DEFINE r == s \o t
<1> HIDE DEF r
<1>3. ASSUME NEW i \in DOMAIN r, NEW n \in 1 .. r[i], K[n] = "data" PROVE Within(n, r)
  <2>1. r[i] <= m /\ r[i] \in DOMAIN K /\ r[i] \in Nat
    BY <1>2, <1>3 DEF TakenBy, r
  <2>2. n \in DOMAIN K /\ n <= m
    BY <1>3, <2>1
  <2> QED BY <1>1, <1>3, <2>2 DEF r
<1> QED
  BY <1>1, <1>3 DEF NoGap, Covered, r

\* The next number: its payload is collected, or it carries none.
LEMMA CoveredNext ==
  ASSUME NEW K, NEW l \in Nat, DOMAIN K = 1 .. l, NEW s \in Seq(Nat), NEW t \in Seq(Nat), NEW m \in Nat,
         Covered(K, s, t, m)
  PROVE  /\ Covered(K, s, Append(t, m + 1), m + 1)
         /\ K[m + 1] # "data" => Covered(K, s, t, m + 1)
<1>1. ASSUME NEW n \in DOMAIN K, n <= m + 1, K[n] = "data"
      PROVE  n = m + 1 \/ Within(n, s) \/ Within(n, t)
  BY <1>1 DEF Covered
<1>2. \A n : Within(n, t) => Within(n, Append(t, m + 1))
  BY WithinParts, m + 1 \in Nat
<1>3. Within(m + 1, Append(t, m + 1))
  BY WithinParts, m + 1 \in Nat
<1> QED
  BY <1>1, <1>2, <1>3 DEF Covered
\* A record that has the number expected carries the payload expected.
LEMMA Opened ==
  ASSUME TypeInv, FlowInv, Stream # <<>>, Stream[1].part = 1
  PROVE  /\ Stream[1].seq \in Nat /\ Stream[1].seq >= read_seq
         /\ Stream[1].seq = read_seq => Stream[1].id = read_seq + 1 /\ read_seq + 1 \in DOMAIN Kinds
         /\ Reliable => Stream[1].seq = read_seq
<1>1. Stream \in Seq(Unit(use)) /\ Len(Stream) >= 1 /\ read_seq \in Nat
  BY StreamParts DEF TypeInv, RecvType
<1>2. Stream[1] \in Unit(use)
  BY <1>1
<1>3. Stream[1].seq \in Nat /\ Stream[1].id \in DOMAIN Kinds
  BY <1>2, UseFacts DEF Unit, Kinds
<1>4. After(Strict, read_seq - 1, read_seq, Stream[1].seq, Stream[1].id)
  BY DEF FlowInv, HeadInv, StartsAt
<1> QED
  BY <1>1, <1>3, <1>4 DEF After, Strict

\* What a step does to the payloads: nothing, ...
Kept ==
  /\ UNCHANGED <<received, read_seq>> /\ Pending' = Pending
  /\ Waits /\ r_open' /\ Ahead(read_seq) => Ahead(read_seq)'

\* ... what the call had is lost, and nothing that is left opens, ...
Forgotten ==
  /\ received' = received /\ Pending' = <<>> /\ read_seq' \in {read_seq, read_seq + 1}
  /\ Waits /\ r_open' => Ahead(read_seq)'

\* ... a record without a payload for the caller is passed over, ...
Passed ==
  /\ received' = received /\ Pending' = Pending
  /\ \/ read_seq' = read_seq /\ Ahead(read_seq)'
     \/ /\ read_seq' = read_seq + 1 /\ r_open /\ ~Ahead(read_seq)
        /\ Kinds[read_seq + 1] # "data"

\* ... the next payload is collected, and perhaps returned with the others, ...
Collected ==
  /\ read_seq' = read_seq + 1 /\ r_open /\ ~Ahead(read_seq)
  /\ read_seq + 1 \in DOMAIN Kinds /\ Kinds[read_seq + 1] = "data"
  /\ \/ received' = received /\ Pending' = Append(Pending, read_seq + 1)
     \/ received' = received \o Append(Pending, read_seq + 1) /\ Pending' = <<>>

\* ... or close_notify makes the call return what it has.
Finished ==
  /\ read_seq' = read_seq + 1 /\ r_open /\ ~Ahead(read_seq) /\ ~r_open'
  /\ received' = received \o Pending /\ Pending' = <<>>

\* Every step is one of these.
LEMMA Delivery ==
  ASSUME TypeInv, ExecutorInv, PhaseInv, StreamInv, Next
  PROVE  Kept \/ Forgotten \/ Passed \/ Collected \/ Finished
<1>1. use' = use /\ read_seq \in Nat /\ write_seq \in Nat
  BY StepCases DEF TypeInv, RecvType, SendType
<1>2. ASSUME UNCHANGED <<received, read_seq, s_open, write_seq>>, Pending' = Pending,
             r_open' => Stream' = Stream
      PROVE  Kept
  BY <1>2 DEF Kept, Ahead
<1>3. ASSUME UNCHANGED <<s_open, rec, rbuf, pipe>> PROVE Stream' = Stream
  BY <1>3 DEF Stream, Unsent
<1>4. r_open' => FlowInv /\ DatagramInv
  BY StaysClosed DEF StreamInv
<1>10. CASE send
  <2>1. UNCHANGED recvVars
    BY <1>10 DEF send
  <2>2. Pending' = Pending /\ received' = received /\ read_seq' = read_seq
    BY <2>1 DEF recvVars, Pending
  <2>3. ASSUME r_open', Ahead(read_seq) PROVE Ahead(read_seq)'
    <3>1. /\ Stream' # <<>> /\ (Stream # <<>> => Stream'[1] = Stream[1])
          /\ s_open /\ (Stream = <<>> => Stream'[1].seq = write_seq)
      BY <1>1, <1>4, <1>10, <2>3, FlowSend
    <3> QED BY <2>2, <2>3, <3>1 DEF Ahead
  <2> QED BY <2>2, <2>3 DEF Kept
<1>11. CASE WriteSome \/ FillSome
  <2>1. UNCHANGED <<received, read_seq, s_open, write_seq, out, r_state>>
    BY <1>11 DEF WriteSome, FillSome, recvVars, sendVars
  <2>2. Pending' = Pending
    BY <2>1 DEF Pending
  <2>3. r_open' => Stream' = Stream
    BY <1>1, <1>4, <1>11, FlowMoves
  <2> QED BY <1>2, <2>1, <2>2, <2>3
<1>12. CASE WriteDone \/ WriteSuspends \/ run_once
  <2>1. UNCHANGED <<s_open, write_seq, rec, recvVars, pipe>>
    BY <1>12 DEF WriteDone, WriteSuspends, run_once, sendVars
  <2>2. Pending' = Pending /\ UNCHANGED <<received, read_seq, rbuf>>
    BY <2>1 DEF Pending, recvVars
  <2> QED BY <1>2, <1>3, <2>1, <2>2
<1>13. CASE WriteWouldBlock
  BY <1>13 DEF WriteWouldBlock, Kept, Pending, Waits, recvVars
<1>14. CASE PartialWriteTimeout \/ WriteFails \/ CloseSender
  <2>1. ~s_open' /\ UNCHANGED <<recvVars, pipe>>
    BY <1>14 DEF PartialWriteTimeout, WriteFails, CloseSender
  <2>2. Pending' = Pending /\ UNCHANGED <<received, read_seq, rbuf, ktls_active>>
    BY <2>1 DEF Pending, recvVars
  <2>3. r_open' => (Stream' # <<>> => Stream # <<>> /\ Stream'[1] = Stream[1])
    BY <1>1, <1>4, <2>1, <2>2, SenderCloses
  <2> QED BY <2>1, <2>2, <2>3 DEF Kept, Ahead
<1>15. CASE recv
  <2>1. r_state = "idle" /\ out' = <<>> /\ UNCHANGED <<sendVars, pipe, rbuf, read_seq, received>>
    BY <1>15 DEF recv
  <2>2. Pending = <<>> /\ Pending' = <<>>
    BY <2>1 DEF Pending
  <2> QED BY <1>2, <1>3, <2>1, <2>2 DEF sendVars
<1>16. CASE FillWouldBlock
  <2>1. /\ RecvMode = "nonblocking" /\ r_state' = "idle" /\ received' = received /\ read_seq' = read_seq
    BY <1>16 DEF FillWouldBlock, ReturnFalse
  <2> QED BY <2>1 DEF Forgotten, Pending, Waits
<1>17. CASE FillSuspends
  <2>1. /\ r_state = "reading" /\ r_state' = "suspended" /\ UNCHANGED <<sendVars, pipe, rbuf, read_seq, received, out>>
    BY <1>17 DEF FillSuspends, FillBlocked, Reading
  <2>2. Pending' = Pending
    BY <2>1 DEF Pending
  <2> QED BY <1>2, <1>3, <2>1, <2>2 DEF sendVars
<1>18. CASE FillEof \/ KtlsEof
  <2>1. r_state' = "idle" /\ received' = received /\ read_seq' = read_seq /\ ~r_open'
    BY <1>18 DEF FillEof, KtlsEof, ReturnFalse
  <2> QED BY <2>1 DEF Forgotten, Pending
<1>19. CASE CloseReceiver
  <2>1. UNCHANGED <<r_state, out, received, read_seq>> /\ ~r_open'
    BY <1>19 DEF CloseReceiver
  <2> QED BY <2>1 DEF Kept, Pending
<1>20. CASE resume
  <2>1. Suspended(Head(ready))
    <3>1. ready \in Seq(Calls) /\ ready # <<>>
      BY <1>20 DEF resume, TypeInv, ExecType
    <3> QED BY <3>1 DEF ExecutorInv
  <2>2. UNCHANGED <<s_open, write_seq, rec, pipe, rbuf, read_seq, received, out>>
    BY <1>20 DEF resume
  <2>3. Pending' = Pending
    BY <1>20, <2>1 DEF resume, Suspended, Asleep, Pending
  <2> QED BY <1>2, <1>3, <2>2, <2>3
<1>21. CASE enable_ktls
  <2>1. r_state = "idle" /\ UNCHANGED <<received, read_seq, sendVars, r_state, out>>
    BY <1>21 DEF enable_ktls
  <2>2. Pending' = Pending
    BY <2>1 DEF Pending
  <2>3. Waits /\ r_open' => Stream' = Stream
    BY <1>1, <1>4, <1>21, <2>1, FlowEnable DEF Waits, PhaseInv
  <2> QED BY <2>1, <2>2, <2>3 DEF Kept, Ahead, sendVars
<1>22. CASE LoseDatagram
  <2>1. UNCHANGED <<sendVars, recvVars>>
    BY <1>22 DEF LoseDatagram
  <2>2. Pending' = Pending /\ UNCHANGED <<received, read_seq, write_seq, s_open>>
    BY <2>1 DEF recvVars, sendVars, Pending
  <2>3. ASSUME r_open', Ahead(read_seq) PROVE Ahead(read_seq)'
    <3>1. /\ Stream # <<>> /\ (Stream' # <<>> => Stream'[1].seq >= Stream[1].seq)
          /\ Stream' = <<>> /\ s_open => write_seq > Stream[1].seq /\ FlowInv'
      BY <1>1, <1>4, <1>22, <2>3, FlowLose
    <3>2. Stream[1].seq \in Nat
      BY <3>1, StreamParts, UnitFields
    <3>3. Stream' # <<>> => Stream'[1].seq \in Nat
      BY <1>1, TypeStep, StreamNext
    <3> QED BY <1>1, <2>2, <2>3, <3>1, <3>2, <3>3 DEF Ahead
  <2> QED BY <2>2, <2>3 DEF Kept
<1>23. CASE read_record
  <2> DEFINE r == rbuf[1]
  <2>1. /\ r_state = "reading" /\ UNCHANGED <<sendVars, ktls_active, pipe>>
        /\ Fails(r) \/ Data(r) \/ Skips(r) \/ Alerted(r)
    BY <1>23, ReadEffect
  <2>2. FlowInv /\ r_open
    BY <2>1 DEF PhaseInv, StreamInv
  <2>3. /\ Stream # <<>> /\ Stream[1] = r /\ r.part = 1
        /\ Stream' # <<>> => Stream'[1].seq > r.seq
        /\ Stream' = <<>> /\ s_open => write_seq > r.seq
    BY <1>1, <1>23, <2>2, FlowRead
  <2> HIDE DEF r
  <2>4. /\ r.seq \in Nat /\ r.seq >= read_seq
        /\ r.seq = read_seq => r.id = read_seq + 1 /\ read_seq + 1 \in DOMAIN Kinds
    BY <2>2, <2>3, Opened
  <2>5. r.seq = read_seq => ~Ahead(read_seq)
    BY <1>1, <2>3 DEF Ahead
  <2>6. Stream' # <<>> => Stream'[1].seq \in Nat
    BY <1>1, TypeStep, StreamNext
  <2>7. UNCHANGED <<s_open, write_seq>> /\ Pending = out
    BY <2>1 DEF sendVars, Pending
  <2>8. CASE Fails(r)
    <3>1. r.seq >= read_seq + 1 /\ read_seq' = read_seq + 1
      BY <1>1, <2>4, <2>8 DEF Fails
    <3>2. Ahead(read_seq)'
      BY <1>1, <2>3, <2>4, <2>6, <2>7, <3>1 DEF Ahead
    <3> QED BY <2>8, <3>1, <3>2 DEF Fails, Forgotten, Pending
  <2>9. CASE Data(r)
    BY <2>1, <2>2, <2>4, <2>5, <2>7, <2>9 DEF Data, Collected, Pending
  <2>10. CASE Skips(r)
    <3>1. Pending' = Pending /\ received' = received
      BY <2>10 DEF Skips, Pending
    <3>2. CASE read_seq' = read_seq
      <4>1. Ahead(read_seq)'
        BY <1>1, <2>3, <2>4, <2>6, <2>7, <3>2 DEF Ahead
      <4> QED BY <3>1, <3>2, <4>1 DEF Passed
    <3>3. CASE r.seq = read_seq /\ Kinds[r.id] = "ticket" /\ read_seq' = read_seq + 1
      BY <2>2, <2>4, <2>5, <3>1, <3>3 DEF Passed
    <3> QED BY <2>10, <3>2, <3>3 DEF Skips
  <2>11. CASE Alerted(r)
    <3>1. /\ r.seq = read_seq /\ read_seq' = read_seq + 1 /\ Pending' = <<>>
      BY <2>11 DEF Alerted, Pending
    <3>2. CASE RecvMode = "coroutine" /\ Ver = 13 /\ received' = received
      BY <3>1, <3>2 DEF Forgotten, Waits
    <3>3. CASE ~r_open' /\ received' = received
      BY <3>1, <3>3 DEF Forgotten
    <3>4. CASE ~r_open' /\ received' = received \o out
      BY <2>2, <2>5, <2>7, <3>1, <3>4 DEF Finished
    <3> QED BY <2>11, <3>2, <3>3, <3>4 DEF Alerted
  <2> QED BY <2>1, <2>8, <2>9, <2>10, <2>11
<1>24. CASE KtlsRecord
  <2> DEFINE r == pipe[1]
  <2>1. /\ r_state = "reading" /\ ktls_active /\ read_seq' = read_seq + 1 /\ r_state' = "idle" /\ UNCHANGED sendVars
        /\ \/ /\ r.part = 1 /\ r.seq = read_seq /\ Kinds[r.id] = "data"
              /\ out' = <<r.id>> /\ received' = received \o out' /\ r_open' = r_open
           \/ out' = out /\ received' = received /\ ~r_open'
    BY <1>24, KtlsEffect
  <2>2. FlowInv /\ r_open /\ Pending = <<>> /\ Pending' = <<>>
    BY <2>1 DEF PhaseInv, StreamInv, Pending
  <2>3. CASE received' = received /\ ~r_open'
    BY <2>1, <2>2, <2>3 DEF Forgotten
  <2>4. CASE /\ r.part = 1 /\ r.seq = read_seq /\ Kinds[r.id] = "data"
             /\ out' = <<r.id>> /\ received' = received \o out' /\ r_open' = r_open
    <3>1. Stream # <<>> /\ Stream[1] = r
      BY <1>1, <1>24, <2>2, <2>4, FlowKtls
    <3> HIDE DEF r
    <3>2. r.id = read_seq + 1 /\ read_seq + 1 \in DOMAIN Kinds
      BY <2>2, <2>4, <3>1, Opened
    <3>3. ~Ahead(read_seq)
      BY <1>1, <2>4, <3>1 DEF Ahead
    <3>4. received' = received \o Append(Pending, read_seq + 1)
      BY <2>2, <2>4, <3>2, Append(<<>>, read_seq + 1) = <<read_seq + 1>>
    <3> QED BY <2>1, <2>2, <2>4, <3>2, <3>3, <3>4 DEF Collected
  <2> QED BY <2>1, <2>3, <2>4
<1> QED
  BY StepCases, <1>10, <1>11, <1>12, <1>13, <1>14, <1>15, <1>16, <1>17, <1>18, <1>19, <1>20, <1>21, <1>22, <1>23, <1>24
\* Payloads stay in order.
LEMMA TakenStep ==
  ASSUME TypeInv, ExecutorInv, PhaseInv, StreamInv, TakenInv, Next
  PROVE  TakenInv'
<1> DEFINE K == Kinds
           p == Pending
           n == read_seq
<1>1. /\ Kinds' = K /\ n \in Nat /\ received \in Seq(Nat) /\ p \in Seq(Nat) /\ n + 1 \in Nat
      /\ TakenBy(K, received, n) /\ TakenBy(K, p, n) /\ Apart(received, p)
  BY StepCases, Fixed, Len(<<>>) = 0, <<>> \in Seq(Nat) DEF TypeInv, RecvType, TakenInv, Pending
<1> HIDE DEF K, p, n
<1>2. ASSUME TakenBy(K, received', read_seq'), TakenBy(K, Pending', read_seq'), Apart(received', Pending')
      PROVE  TakenInv'
  BY <1>1, <1>2 DEF TakenInv, TakenBy, Apart
<1>3. TakenBy(K, received, n + 1) /\ TakenBy(K, p, n + 1)
  BY <1>1, TakenLater
<1>4. TakenBy(K, <<>>, n) /\ TakenBy(K, <<>>, n + 1) /\ \A s : Apart(s, <<>>)
  BY DEF TakenBy, Apart
<1>5. Kept \/ Forgotten \/ Passed \/ Collected \/ Finished
  BY Delivery
<1>6. CASE Kept
  BY <1>1, <1>2, <1>6 DEF Kept, p, n
<1>7. CASE Forgotten
  BY <1>1, <1>2, <1>3, <1>4, <1>7 DEF Forgotten, n
<1>8. CASE Passed
  BY <1>1, <1>2, <1>3, <1>8 DEF Passed, p, n
<1>9. CASE Collected
  <2> DEFINE q == Append(p, n + 1)
  <2>1. n + 1 \in DOMAIN K /\ K[n + 1] = "data" /\ read_seq' = n + 1
    BY <1>9 DEF Collected, K, n
  <2>2. TakenBy(K, q, n + 1) /\ q \in Seq(Nat)
    BY <1>1, <2>1, TakenAppend
  <2>3. Apart(received, q)
    <3> SUFFICES ASSUME NEW i \in DOMAIN received, NEW j \in DOMAIN q PROVE received[i] < q[j]
      BY DEF Apart
    <3>1. (j \in DOMAIN p /\ q[j] = p[j]) \/ q[j] = n + 1
      BY <1>1
    <3>2. received[i] <= n /\ received[i] \in Nat
      BY <1>1 DEF TakenBy
    <3>3. j \in DOMAIN p => received[i] < p[j]
      BY <1>1 DEF Apart
    <3> QED BY <1>1, <3>1, <3>2, <3>3
  <2> HIDE DEF q
  <2>4. CASE received' = received /\ Pending' = q
    BY <1>2, <1>3, <2>1, <2>2, <2>3, <2>4
  <2>5. CASE received' = received \o q /\ Pending' = <<>>
    <3>1. TakenBy(K, received \o q, n + 1)
      BY <1>1, <1>3, <2>2, <2>3, TakenJoin
    <3> QED BY <1>2, <1>4, <2>1, <2>5, <3>1
  <2> QED BY <1>9, <2>4, <2>5 DEF Collected, q, p, n
<1>10. CASE Finished
  <2>1. TakenBy(K, received \o p, n + 1)
    BY <1>1, <1>3, TakenJoin
  <2> QED BY <1>2, <1>4, <1>10, <2>1 DEF Finished, p, n
<1> QED
  BY <1>5, <1>6, <1>7, <1>8, <1>9, <1>10

\* Calls that wait leave no gap.
LEMMA GapStep ==
  ASSUME TypeInv, ExecutorInv, PhaseInv, StreamInv, TakenInv, GapInv, Next
  PROVE  GapInv'
<1> DEFINE K == Kinds
           p == Pending
           n == read_seq
<1>1. /\ Kinds' = K /\ n \in Nat /\ received \in Seq(Nat) /\ p \in Seq(Nat) /\ n + 1 \in Nat
      /\ TakenBy(K, received, n) /\ TakenBy(K, p, n) /\ Apart(received, p) /\ Waits' = Waits
  BY StepCases, Fixed, Len(<<>>) = 0, <<>> \in Seq(Nat) DEF TypeInv, RecvType, TakenInv, Pending
<1>2. Len(K) \in Nat /\ DOMAIN K = 1 .. Len(K)
  BY UseFacts
<1> SUFFICES ASSUME Waits PROVE GapInv'
  BY <1>1 DEF GapInv
<1>3. NoGap(K, received) /\ (r_open => Ahead(n) \/ Covered(K, received, p, n))
  BY DEF GapInv
<1>4. Kept \/ Forgotten \/ Passed \/ Collected \/ Finished
  BY Delivery
<1>5. r_open' => r_open
  BY StaysClosed
<1>6. r_open /\ ~Ahead(read_seq) => Covered(K, received, p, n)
  BY <1>3 DEF n
<1> HIDE DEF K, p, n
<1>7. ASSUME NoGap(K, received'), r_open' => Ahead(read_seq)' \/ Covered(K, received', Pending', read_seq')
      PROVE  GapInv'
  BY <1>1, <1>7 DEF GapInv, NoGap, Covered
<1>8. CASE Kept
  <2>1. received' = received /\ Pending' = p /\ read_seq' = n /\ (r_open' /\ Ahead(n) => Ahead(read_seq)')
    BY <1>8 DEF Kept, p, n
  <2> QED BY <1>3, <1>5, <1>7, <2>1
<1>9. CASE Forgotten
  <2>1. received' = received /\ (r_open' => Ahead(read_seq)')
    BY <1>9 DEF Forgotten
  <2> QED BY <1>3, <1>7, <2>1
<1>10. CASE Passed
  <2>1. CASE received' = received /\ Ahead(read_seq)'
    BY <1>3, <1>7, <2>1
  <2>2. CASE received' = received /\ Pending' = p /\ read_seq' = n + 1 /\ r_open /\ ~Ahead(read_seq) /\ K[n + 1] # "data"
    <3>1. Covered(K, received, p, n + 1)
      BY <1>1, <1>2, <1>6, <2>2, CoveredNext
    <3> QED BY <1>3, <1>7, <2>2, <3>1
  <2> QED BY <1>10, <2>1, <2>2 DEF Passed, p, n, K
<1>11. CASE Collected
  <2> DEFINE q == Append(p, n + 1)
  <2>1. n + 1 \in DOMAIN K /\ K[n + 1] = "data" /\ read_seq' = n + 1 /\ r_open /\ ~Ahead(read_seq)
    BY <1>11 DEF Collected, K, n
  <2>2. Covered(K, received, q, n + 1) /\ q \in Seq(Nat)
    BY <1>1, <1>2, <1>6, <2>1, CoveredNext
  <2>3. CASE received' = received /\ Pending' = q
    BY <1>3, <1>7, <2>1, <2>2, <2>3
  <2>4. CASE received' = received \o q /\ Pending' = <<>>
    <3>1. TakenBy(K, received \o q, n + 1)
      <4>1. TakenInv'
        BY TakenStep
      <4> QED BY <1>1, <2>1, <2>4, <4>1 DEF TakenInv, TakenBy
    <3> HIDE DEF q
    <3>2. NoGap(K, received \o q) /\ Covered(K, received \o q, <<>>, n + 1)
      BY <1>1, <1>2, <2>2, <3>1, CoveredReturn
    <3> QED BY <1>7, <2>1, <2>4, <3>2
  <2> QED BY <1>11, <2>3, <2>4 DEF Collected, p, n
<1>12. CASE Finished
  <2>1. r_open /\ ~Ahead(read_seq) /\ ~r_open' /\ received' = received \o p
    BY <1>12 DEF Finished, p
  <2>2. TakenBy(K, received \o p, n)
    BY <1>1, TakenJoin
  <2>3. NoGap(K, received \o p)
    BY <1>1, <1>2, <1>6, <2>1, <2>2, CoveredReturn
  <2> QED BY <1>7, <2>1, <2>3
<1> QED
  BY <1>4, <1>8, <1>9, <1>10, <1>11, <1>12

\* Where nothing opens a gap, every record has the number expected.
LEMMA InStepStep ==
  ASSUME TypeInv, ExecutorInv, PhaseInv, StreamInv, InStepInv, Next
  PROVE  InStepInv'
<1> SUFFICES ASSUME Reliable PROVE ~failed'
  BY StepCases, Fixed DEF InStepInv
<1>1. ~failed
  BY DEF InStepInv
<1>2. CASE read_record
  <2> DEFINE r == rbuf[1]
  <2>1. r_state = "reading" /\ (Fails(r) \/ Data(r) \/ Skips(r) \/ Alerted(r))
    BY <1>2, ReadEffect
  <2>2. FlowInv
    BY <2>1 DEF PhaseInv, StreamInv
  <2>3. Stream # <<>> /\ Stream[1] = r /\ r.part = 1
    BY <1>2, <2>2, StepCases, FlowRead
  <2>4. r.seq = read_seq
    BY <2>2, <2>3, Opened
  <2> HIDE DEF r
  <2> QED BY <1>1, <2>1, <2>4 DEF Fails, Data, Skips, Alerted
<1>3. CASE KtlsRecord
  <2>1. /\ r_state = "reading" /\ ktls_active /\ Len(pipe) >= RecordUnits
        /\ failed' = failed \/ (pipe[1].part = 1 /\ pipe[1].seq = read_seq => (failed' <=> failed))
    BY <1>3, KtlsEffect
  <2>2. FlowInv /\ rbuf = <<>> /\ use.ktls
    BY <2>1 DEF PhaseInv, StreamInv
  <2>3. Stream # <<>> /\ Stream[1] = pipe[1]
    <3>1. Len(rbuf) = 0 /\ 1 \in 1 .. Len(pipe) /\ 0 + 1 = 1 /\ Len(pipe) \in Nat
      BY <2>1, <2>2, SizesAssumption DEF TypeInv
    <3>2. Stream[Len(rbuf) + 1] = pipe[1] /\ Len(Stream) # 0
      BY <3>1, StreamParts
    <3> QED BY <3>1, <3>2, StreamParts
  <2>4. Stream[1].part = 1
    BY <2>2, <2>3 DEF FlowInv, HeadInv, Reliable, Dependable
  <2>5. pipe[1].seq = read_seq
    BY <2>2, <2>3, <2>4, Opened
  <2> QED BY <1>1, <2>1, <2>3, <2>4, <2>5
<1>4. CASE \/ send \/ WriteSome \/ WriteDone \/ WriteWouldBlock \/ PartialWriteTimeout
           \/ WriteSuspends \/ WriteFails \/ CloseSender \/ run_once \/ resume \/ LoseDatagram
  BY <1>1, <1>4 DEF send, WriteSome, WriteDone, WriteWouldBlock, PartialWriteTimeout,
     WriteSuspends, WriteFails, CloseSender, run_once, resume, LoseDatagram, recvVars
<1>5. CASE \/ recv \/ FillSome \/ FillWouldBlock \/ FillSuspends \/ FillEof
           \/ CloseReceiver \/ KtlsEof \/ enable_ktls
  BY <1>1, <1>5 DEF recv, FillSome, FillWouldBlock, FillSuspends, FillEof, CloseReceiver, KtlsEof, enable_ktls
<1> QED
  BY StepCases, <1>2, <1>3, <1>4, <1>5

-----------------------------------------------------------------------------
(* The theorems *)

\* The initial state satisfies the invariant.
LEMMA InvInit == Init => IInv
<1> SUFFICES ASSUME Init PROVE IInv
  OBVIOUS
<1>1. TypeInv
  BY TypeInit
<1>2. /\ rec = <<>> /\ rbuf = <<>> /\ pipe = <<>> /\ out = <<>> /\ received = <<>> /\ waiters = <<>> /\ ready = <<>>
      /\ s_state = "idle" /\ r_state = "idle" /\ s_open /\ ~ktls_active /\ ~failed
      /\ write_seq = 0 /\ read_seq = 0 /\ next = 1
  BY DEF Init
<1>3. RecordUnits \in Nat /\ RecordUnits >= 2 /\ Len(<<>>) = 0
  BY SizesAssumption
<1>4. ExecutorInv
  BY <1>2 DEF ExecutorInv
<1>5. PhaseInv
  BY <1>2, <1>3 DEF PhaseInv
<1>6. Stream = <<>>
  BY <1>2 DEF Stream, Unsent
<1>7. StreamInv
  <2>1. TailId = 1
    BY <1>2 DEF TailId, FirstRecord
  <2>2. Chain(Strict, Stream)
    BY <1>3, <1>6 DEF Chain
  <2>3. HeadInv /\ RecInv /\ DatagramInv
    BY <1>2, <1>6 DEF HeadInv, StartsAt, RecInv, DatagramInv
  <2>4. TailInv
    BY <1>2, <1>6, <2>1 DEF TailInv, EndsAt, After
  <2> QED BY <2>2, <2>3, <2>4 DEF StreamInv, FlowInv
<1>8. TakenInv
  BY <1>2 DEF TakenInv, TakenBy, Apart, Pending
<1>9. GapInv
  <2>1. Covered(Kinds, received, Pending, read_seq)
    BY <1>1, <1>2, UseFacts DEF Covered
  <2> QED BY <1>2, <2>1 DEF GapInv, NoGap
<1> QED
  BY <1>1, <1>2, <1>4, <1>5, <1>7, <1>8, <1>9 DEF IInv, InStepInv

\* Every step keeps the invariant.
LEMMA InvStep == IInv /\ [Next]_vars => IInv'
<1> SUFFICES ASSUME IInv, [Next]_vars PROVE IInv'
  OBVIOUS
<1>1. CASE Next
  BY <1>1, TypeStep, ExecutorStepInv, PhaseStep, StreamStep, TakenStep, GapStep, InStepStep DEF IInv
<1>2. CASE UNCHANGED vars
  <2>1. /\ UNCHANGED <<use, s_open, s_state, write_seq, next, rec, off>>
        /\ UNCHANGED <<r_open, r_state, read_seq, rbuf, ktls_active, out, received, dropped, failed>>
        /\ UNCHANGED <<pipe, waiters, ready, active>>
    BY <1>2 DEF vars, sendVars, recvVars, execVars
  <2>2. /\ Strict' = Strict /\ Reliable' = Reliable /\ Waits' = Waits /\ RecvMode' = RecvMode
        /\ Kinds' = Kinds /\ LastRecord' = LastRecord /\ Unit(use)' = Unit(use)
    BY <2>1, Fixed
  <2>3. Stream' = Stream /\ Unsent' = Unsent /\ TailId' = TailId /\ Pending' = Pending
    BY <2>1, Fixed DEF Stream, Unsent, TailId, Pending
  <2>4. TypeInv'
    BY <2>1, <2>2 DEF IInv, TypeInv, SendType, RecvType, ExecType
  <2>5. ExecutorInv'
    BY <2>1 DEF IInv, ExecutorInv, Suspended
  <2>6. PhaseInv'
    BY <2>1, <2>2 DEF IInv, PhaseInv
  <2>7. StreamInv'
    <3>1. FlowInv => FlowInv'
      <4> SUFFICES ASSUME FlowInv PROVE FlowInv'
        OBVIOUS
      <4> QED BY <2>1, <2>3, SameStream
    <3>2. (RecInv => RecInv') /\ (DatagramInv => DatagramInv')
      BY <2>1 DEF RecInv, DatagramInv
    <3> QED BY <2>1, <3>1, <3>2 DEF IInv, StreamInv
  <2>8. TakenInv'
    BY <2>1, <2>2, <2>3 DEF IInv, TakenInv, TakenBy, Apart
  <2>9. GapInv'
    BY <2>1, <2>2, <2>3 DEF IInv, GapInv, NoGap, Covered, Ahead
  <2>10. InStepInv'
    BY <2>1, <2>2 DEF IInv, InStepInv
  <2> QED BY <2>4, <2>5, <2>6, <2>7, <2>8, <2>9, <2>10 DEF IInv
<1> QED
  BY <1>1, <1>2

\* The stream between two tls_connection objects, with the calls, the executor and the
\* record numbers of both sessions, always satisfies the inductive invariant.
THEOREM Invariant == Spec => []IInv
<1>1. Init => IInv
  BY InvInit
<1>2. IInv /\ [Next]_vars => IInv'
  BY InvStep
<1> QED
  BY <1>1, <1>2, PTL DEF Spec

\* What fill_rbuf and write_all leave behind, whatever the kernel takes at a time, are
\* whole records one after the other; only enable_ktls of a non-blocking connection
\* that holds part of a record cuts one.
THEOREM Framed == Spec => [](~(use.ktls /\ RecvMode = "nonblocking") => StreamFramed)
<1>1. ASSUME IInv, ~(use.ktls /\ RecvMode = "nonblocking") PROVE StreamFramed
  <2> SUFFICES ASSUME r_open
               PROVE  /\ Stream # <<>> => Stream[1].part = 1
                      /\ Stream # <<>> /\ s_open => Stream[Len(Stream)].part = RecordUnits
                      /\ \A i \in 1 .. Len(Stream) - 1 :
                           IF Stream[i].part = RecordUnits THEN Stream[i + 1].part = 1
                           ELSE Stream[i + 1] = [Stream[i] EXCEPT !.part = @ + 1]
    BY DEF StreamFramed, Stream, Unsent
  <2>1. FlowInv /\ TypeInv /\ (ktls_active => use.ktls)
    BY <1>1 DEF IInv, StreamInv, PhaseInv
  <2>2. Stream # <<>> => Stream[1].part = 1
    BY <1>1, <2>1 DEF FlowInv, HeadInv
  <2>3. Stream # <<>> /\ s_open => Stream[Len(Stream)].part = RecordUnits
    BY <2>1 DEF FlowInv, TailInv, EndsAt
  <2>4. ASSUME NEW i \in 1 .. Len(Stream) - 1
        PROVE  IF Stream[i].part = RecordUnits THEN Stream[i + 1].part = 1
               ELSE Stream[i + 1] = [Stream[i] EXCEPT !.part = @ + 1]
    <3>1. Stream \in Seq(Unit(use))
      BY <2>1, StreamParts
    <3>2. Stream[i] \in Unit(use) /\ Stream[i + 1] \in Unit(use)
      BY <2>4, <3>1
    <3>3. Adjacent(Strict, Stream[i], Stream[i + 1])
      BY <2>1, <2>4 DEF FlowInv, Chain
    <3> QED BY <3>2, <3>3 DEF Adjacent, Unit
  <2> QED BY <2>2, <2>3, <2>4
<1> QED
  BY <1>1, Invariant, PTL

\* tls_decrypt, or the kernel, opens every record of the peer: unless datagrams are lost,
\* a send that would block is repeated, a TLS 1.2 handshake record is skipped unopened,
\* or enable_ktls drops part of a record, the two sessions count in step.
THEOREM InStep == Spec => [](Dependable => NoDecryptFailure)
<1>1. IInv => (Dependable => NoDecryptFailure)
  BY DEF IInv, InStepInv, Reliable, NoDecryptFailure
<1> QED
  BY <1>1, Invariant, PTL

\* Whatever the modes, with repeated sends, lost datagrams, early closes and kTLS, recv
\* returns payloads in order and at most once, and without a gap when the calls wait.
THEOREM InOrder == Spec => []OrderedOnce
<1>1. ASSUME IInv PROVE OrderedOnce
  <2>1. TakenBy(Kinds, received, read_seq) /\ (Waits => NoGap(Kinds, received))
    BY <1>1 DEF IInv, TakenInv, GapInv
  <2> QED BY <2>1 DEF OrderedOnce, TakenBy, NoGap, Within
<1> QED
  BY <1>1, Invariant, PTL
=============================================================================
