------------------------------ MODULE FoldSteps ------------------------------
(***************************************************************************)
(* What FoldLeft and FlattenSeq compute, step by step, for the proofs      *)
(* about operators that fold a step over a sequence of messages or         *)
(* records.  op is the step; t is whatever else the step depends on.       *)
(***************************************************************************)
EXTENDS Naturals, Sequences, SequencesExt, WellFoundedInduction, TLAPS

CONSTANT op(_, _, _)

Fold(t, base, seq) == FoldLeft(LAMBDA a, m : op(a, m, t), base, seq)

\* Induction over the natural numbers, for a set instead of a predicate.
LEMMA NatSetInduction ==
  ASSUME NEW S, 0 \in S, \A n \in Nat : n \in S => n + 1 \in S
  PROVE  \A n \in Nat : n \in S
<1> SUFFICES ASSUME NEW m \in Nat, m \notin S PROVE FALSE
  OBVIOUS
<1> DEFINE T == Nat \ S
           R == OpToRel(<, Nat)
<1>1. IsWellFoundedOn(R, Nat)
  BY NatLessThanWellFounded
<1>2. T \subseteq Nat /\ T # {}
  OBVIOUS
<1> HIDE DEF R, T
<1>3. PICK n \in T : \A k \in T : ~(<<k, n>> \in R)
  BY <1>1, <1>2, WFMin
<1>4. \A k \in T : ~(k < n)
  BY <1>2, <1>3 DEF R, OpToRel
<1>5. n \in Nat /\ n # 0 /\ n - 1 \in Nat /\ n - 1 \notin T
  BY <1>4 DEF T
<1> QED BY <1>5 DEF T

\* The maximum of a nonempty set of positions.
LEMMA Maximum ==
  ASSUME NEW n \in Nat, NEW s \in SUBSET (1 .. n), s # {}
  PROVE  Max(s) \in s /\ \A y \in s : Max(s) >= y
<1> DEFINE Has(k) == \A z \in SUBSET (1 .. k) : z # {} => \E x \in z : \A y \in z : x >= y
           S == {k \in Nat : Has(k)}
<1>1. 0 \in S
  <2>1. \A z \in SUBSET (1 .. 0) : z = {}
    OBVIOUS
  <2> QED BY <2>1
<1>2. ASSUME NEW k \in Nat, k \in S PROVE k + 1 \in S
  <2> SUFFICES ASSUME NEW z \in SUBSET (1 .. k + 1), z # {}
               PROVE  \E x \in z : \A y \in z : x >= y
    OBVIOUS
  <2>1. CASE k + 1 \in z
    BY <2>1
  <2>2. CASE k + 1 \notin z
    <3>1. z \in SUBSET (1 .. k)
      BY <2>2
    <3> QED BY <1>2, <3>1
  <2> QED BY <2>1, <2>2
<1> HIDE DEF S
<1>3. n \in S
  BY <1>1, <1>2, NatSetInduction
<1>4. \E x \in s : \A y \in s : x >= y
  BY <1>3 DEF S
<1> QED BY <1>4 DEF Max

\* The function the library's fold is defined by.
IsTable(g, t, base, seq, D) ==
  g = [s \in SUBSET D |->
         IF s = {} THEN base ELSE op(g[s \ {Max(s)}], seq[Max(s)], t)]

Table(t, base, seq, D) == CHOOSE g : IsTable(g, t, base, seq, D)

LEMMA FoldIsTable ==
  ASSUME NEW t, NEW base, NEW seq
  PROVE  Fold(t, base, seq) = Table(t, base, seq, DOMAIN seq)[DOMAIN seq]
BY DEF Fold, FoldLeft, MapThenFoldSet, Table, IsTable, Max

LEMMA TableExists ==
  ASSUME NEW t, NEW base, NEW seq, NEW n \in Nat
  PROVE  \E g : IsTable(g, t, base, seq, 1 .. n)
<1> DEFINE Ok(g, k) == IsTable(g, t, base, seq, 1 .. k)
           S == {k \in Nat : \E g : Ok(g, k)}
<1>1. 0 \in S
  <2> DEFINE g == [s \in SUBSET (1 .. 0) |-> base]
  <2>1. \A s \in SUBSET (1 .. 0) : s = {}
    OBVIOUS
  <2>2. Ok(g, 0)
    BY <2>1 DEF IsTable
  <2> QED BY <2>2
<1>2. ASSUME NEW k \in Nat, k \in S PROVE k + 1 \in S
  <2>1. PICK g : Ok(g, k)
    BY <1>2
  <2> DEFINE h == [s \in SUBSET (1 .. k + 1) |->
                     IF s = {} THEN base ELSE op(g[s \ {Max(s)}], seq[Max(s)], t)]
  <2>2. ASSUME NEW s \in SUBSET (1 .. k + 1), s # {}
        PROVE  h[s \ {Max(s)}] = g[s \ {Max(s)}]
    <3>1. Max(s) \in s /\ (\A y \in s : Max(s) >= y)
      BY <2>2, Maximum, k + 1 \in Nat
    <3> DEFINE x == Max(s)
               z == s \ {x}
    <3>3. z \in SUBSET (1 .. k) /\ z \in SUBSET (1 .. k + 1)
      <4> HIDE DEF x
      <4>1. x \in 1 .. k + 1 /\ \A y \in s : y \in 1 .. k + 1 /\ x >= y
        BY <3>1 DEF x
      <4>2. \A y \in z : y \in 1 .. k
        BY <4>1
      <4> QED BY <4>2
    <3> HIDE DEF z
    <3>4. h[z] = IF z = {} THEN base ELSE op(g[z \ {Max(z)}], seq[Max(z)], t)
      BY <3>3
    <3>5. g[z] = IF z = {} THEN base ELSE op(g[z \ {Max(z)}], seq[Max(z)], t)
      BY <2>1, <3>3 DEF IsTable
    <3> QED BY <3>4, <3>5 DEF z
  <2> HIDE DEF h
  <2>3. h = [s \in SUBSET (1 .. k + 1) |->
               IF s = {} THEN base ELSE op(h[s \ {Max(s)}], seq[Max(s)], t)]
    BY <2>2 DEF h
  <2>4. \E f : Ok(f, k + 1)
    BY <2>3 DEF IsTable
  <2> HIDE DEF Ok
  <2> QED BY <2>4
<1> HIDE DEF S
<1>3. n \in S
  BY <1>1, <1>2, NatSetInduction
<1> QED BY <1>3 DEF S

\* r holds the values along the way.
IsRun(r, t, base, seq, n) ==
  /\ r[0] = base
  /\ \A i \in 1 .. n : r[i] = op(r[i - 1], seq[i], t)
  /\ Fold(t, base, seq) = r[n]

\* FoldLeft starts with base and takes one step per element.
THEOREM Steps ==
  ASSUME NEW t, NEW base, NEW seq, NEW n \in Nat, DOMAIN seq = 1 .. n
  PROVE  \E r : IsRun(r, t, base, seq, n)
<1> DEFINE g == Table(t, base, seq, 1 .. n)
           r == [k \in 0 .. n |-> g[1 .. k]]
<1>1. g = [s \in SUBSET (1 .. n) |->
             IF s = {} THEN base ELSE op(g[s \ {Max(s)}], seq[Max(s)], t)]
  <2>1. IsTable(g, t, base, seq, 1 .. n)
    BY TableExists, Zenon DEF Table
  <2> QED BY <2>1 DEF IsTable
<1> HIDE DEF g
<1>2. r[0] = base
  <2>1. 1 .. 0 = {}
    OBVIOUS
  <2>2. {} \in SUBSET (1 .. n)
    OBVIOUS
  <2>3. g[{}] = base
    BY <1>1, <2>2
  <2> QED BY <2>1, <2>3
<1>3. ASSUME NEW i \in 1 .. n PROVE r[i] = op(r[i - 1], seq[i], t)
  <2>1. 1 .. i \in SUBSET (1 .. n) /\ 1 .. i # {}
    OBVIOUS
  <2>2. Max(1 .. i) = i
    <3>1. Max(1 .. i) \in 1 .. i /\ \A y \in 1 .. i : Max(1 .. i) >= y
      BY <2>1, Maximum
    <3> QED BY <3>1
  <2>3. (1 .. i) \ {i} = 1 .. i - 1
    OBVIOUS
  <2>4. g[1 .. i] = op(g[1 .. i - 1], seq[i], t)
    <3> DEFINE z == 1 .. i
    <3>1. z \in SUBSET (1 .. n) /\ z # {}
      BY <2>1
    <3> HIDE DEF z
    <3>2. g[z] = op(g[z \ {Max(z)}], seq[Max(z)], t)
      BY <1>1, <3>1
    <3> QED BY <2>2, <2>3, <3>2 DEF z
  <2> QED BY <2>4
<1>4. Fold(t, base, seq) = r[n]
  BY FoldIsTable DEF g
<1> HIDE DEF r
<1> QED BY <1>2, <1>3, <1>4 DEF IsRun

\* The function FlattenSeq is defined by.
IsPrefixes(g, ss, n) ==
  g = [i \in 1 .. n |-> IF i = 1 THEN ss[i] ELSE g[i - 1] \o ss[i]]

LEMMA PrefixesExist ==
  ASSUME NEW ss, NEW n \in Nat
  PROVE  \E g : IsPrefixes(g, ss, n)
<1> DEFINE S == {k \in Nat : \E g : IsPrefixes(g, ss, k)}
<1>1. 0 \in S
  <2>1. IsPrefixes([i \in 1 .. 0 |-> ss], ss, 0)
    BY DEF IsPrefixes
  <2> QED BY <2>1
<1>2. ASSUME NEW k \in Nat, k \in S PROVE k + 1 \in S
  <2>1. PICK g : IsPrefixes(g, ss, k)
    BY <1>2
  <2> DEFINE h == [i \in 1 .. k + 1 |-> IF i = 1 THEN ss[i] ELSE g[i - 1] \o ss[i]]
  <2>2. ASSUME NEW i \in 1 .. k PROVE h[i] = g[i]
    <3>1. h[i] = IF i = 1 THEN ss[i] ELSE g[i - 1] \o ss[i]
      OBVIOUS
    <3>2. g[i] = IF i = 1 THEN ss[i] ELSE g[i - 1] \o ss[i]
      <4> HIDE DEF h
      <4> QED BY <2>1 DEF IsPrefixes
    <3> HIDE DEF h
    <3> QED BY <3>1, <3>2
  <2> HIDE DEF h
  <2>3. h = [i \in 1 .. k + 1 |-> IF i = 1 THEN ss[i] ELSE h[i - 1] \o ss[i]]
    <3>1. \A i \in 1 .. k + 1 : i # 1 => h[i - 1] = g[i - 1]
      BY <2>2
    <3> QED BY <3>1 DEF h
  <2>4. IsPrefixes(h, ss, k + 1)
    BY <2>3 DEF IsPrefixes
  <2> QED BY <2>4
<1> HIDE DEF S
<1>3. n \in S
  BY <1>1, <1>2, NatSetInduction
<1> QED BY <1>3 DEF S

\* Flattening a sequence of sequences over U gives a sequence over U.
THEOREM Flattened ==
  ASSUME NEW U, NEW ss \in Seq(Seq(U))
  PROVE  FlattenSeq(ss) \in Seq(U) /\ (Len(ss) = 1 => FlattenSeq(ss) = ss[1])
<1> DEFINE n == Len(ss)
<1>1. CASE n = 0
  <2>1. FlattenSeq(ss) = ss /\ ss = <<>>
    BY <1>1 DEF FlattenSeq
  <2> QED BY <1>1, <2>1
<1>2. CASE n # 0
  <2> DEFINE g == CHOOSE f : IsPrefixes(f, ss, n)
  <2>1. FlattenSeq(ss) = g[n]
    BY <1>2 DEF FlattenSeq, IsPrefixes
  <2>2. IsPrefixes(g, ss, n)
    <3>1. n \in Nat
      OBVIOUS
    <3> HIDE DEF n
    <3>2. \E f : IsPrefixes(f, ss, n)
      BY <3>1, PrefixesExist
    <3> QED BY <3>2, Zenon
  <2> HIDE DEF g
  <2> DEFINE S == {k \in Nat : k \in 1 .. n => g[k] \in Seq(U)}
  <2>3. 0 \in S
    OBVIOUS
  <2>4. ASSUME NEW k \in Nat, k \in S PROVE k + 1 \in S
    <3>1. CASE k + 1 \in 1 .. n
      <4> DEFINE i == k + 1
      <4>0. i \in 1 .. n /\ i - 1 = k
        BY <3>1
      <4> HIDE DEF i, n
      <4>1. g[i] = IF i = 1 THEN ss[i] ELSE g[k] \o ss[i]
        <5>1. g[i] = IF i = 1 THEN ss[i] ELSE g[i - 1] \o ss[i]
          BY <2>2, <4>0 DEF IsPrefixes
        <5> QED BY <4>0, <5>1
      <4>2. ss[i] \in Seq(U)
        BY <4>0 DEF n
      <4>3. i # 1 => g[k] \in Seq(U)
        BY <2>4, <4>0 DEF S, i, n
      <4>4. CASE i = 1
        BY <4>1, <4>2, <4>4 DEF S, i
      <4>5. CASE i # 1
        <5>1. g[k] \o ss[i] \in Seq(U)
          BY <4>2, <4>3, <4>5
        <5>2. g[i] \in Seq(U)
          BY <4>1, <4>5, <5>1, Zenon
        <5> QED BY <5>2 DEF S, i
      <4> QED BY <4>4, <4>5
    <3> QED BY <3>1
  <2> HIDE DEF S
  <2>5. n \in S
    BY <2>3, <2>4, NatSetInduction
  <2>6. n = 1 => g[n] = ss[1]
    BY <2>2 DEF IsPrefixes
  <2> QED BY <1>2, <2>1, <2>5, <2>6 DEF S
<1> QED BY <1>1, <1>2
=============================================================================
