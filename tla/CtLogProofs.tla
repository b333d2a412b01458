----------------------------- MODULE CtLogProofs ------------------------------
(***************************************************************************)
(* A log keeps its promises for every set of chains, roots and keys, every *)
(* number of entries and heads, and whatever the clock shows: LogKept is   *)
(* an invariant of CtSpec.  Hashes, signatures and the Merkle tree are not *)
(* looked into; that its proofs convince is left to the model checker.     *)
(***************************************************************************)
EXTENDS CtLog, TLAPS

ASequence(s) == \E S : s \in Seq(S)

\* Entries are not later than last_entry_time, heads not later than last_sth_time.
TimesBehind ==
  /\ last_entry_time \in Nat /\ last_sth_time \in Nat
  /\ \A i \in 1..Len(entries) : entries[i].timestamp \in Nat /\ entries[i].timestamp <= last_entry_time
  /\ \A k \in 1..Len(sths) : /\ sths[k].timestamp \in Nat /\ sths[k].timestamp <= last_sth_time
                             /\ sths[k].tree_size \in Nat

Sequences4 == ASequence(entries) /\ ASequence(leaf_hashes) /\ ASequence(scts) /\ ASequence(sths)

NothingBefore == log = Absent => entries = <<>> /\ sths = <<>>

\* The inductive invariant: a log that is not open is empty, and the two clocks
\* of the log are ahead of what it has signed.
CtInv == Sequences4 /\ TimesBehind /\ NothingBefore /\ TimestampsKept /\ HeadsKept

-----------------------------------------------------------------------------
\* Appending leaves what was there where it was.
LEMMA AppendFacts ==
  ASSUME NEW s, ASequence(s), NEW e
  PROVE  /\ ASequence(Append(s, e)) /\ Len(s) \in Nat /\ Len(Append(s, e)) = Len(s) + 1
         /\ Append(s, e)[Len(s) + 1] = e
         /\ \A i \in 1..Len(s) : Append(s, e)[i] = s[i]
<1>1. PICK S : s \in Seq(S)
  BY DEF ASequence
<1>2. Len(s) \in Nat /\ s \in [1..Len(s) -> S]
  BY <1>1
<1>3. s \in [1..Len(s) -> S \cup {e}]
  BY <1>2
<1>4. s \in Seq(S \cup {e})
  BY <1>2, <1>3
<1>5. Append(s, e) \in Seq(S \cup {e})
  BY <1>4
<1>. QED
  BY <1>2, <1>4, <1>5 DEF ASequence

\* The first n items stay the first n items.
LEMMA PrefixKept ==
  ASSUME NEW s, ASequence(s), NEW e, NEW n \in 0..Len(s)
  PROVE  SubSeq(Append(s, e), 1, n) = SubSeq(s, 1, n)
<1>1. PICK S : s \in Seq(S)
  BY DEF ASequence
<1>. QED
  BY <1>1, AppendFacts

\* The whole sequence is its own prefix.
LEMMA WholePrefix ==
  ASSUME NEW s, ASequence(s)
  PROVE  SubSeq(s, 1, Len(s)) = s
<1>1. PICK S : s \in Seq(S)
  BY DEF ASequence
<1>. QED
  BY <1>1

\* What Signature makes, SignedBy recognises.
LEMMA SignatureFacts ==
  ASSUME NEW scheme, NEW key, NEW d, NEW form
  PROVE  LET g == Signature(scheme, key, d, form)
         IN SignedBy(g, scheme, key, d) /\ g # <<>> /\ (form = "raw" => RawSize(g))
BY DEF Signature, SignedBy, RawSize

\* A timestamp verifies as what it was issued for (issue_sct, verify_sct and their kinds).
LEMMA SctVerifies ==
  ASSUME NEW ts, NEW et, NEW entry
  PROVE  VerifySct(IssueSct(ts, et, entry), et, entry) /\ IssueSct(ts, et, entry).timestamp = ts
<1>. DEFINE d == sct_signed_data(ts, et, entry, <<>>)
            Made(alg, scheme, form) == Timestamp(log.log_id, ts, <<>>, alg, Signature(scheme, log.pub, d, form))
<1>0. ASSUME NEW alg, NEW scheme, NEW form
      PROVE  LET s == Made(alg, scheme, form)
             IN /\ SctFor(s, alg) /\ s.timestamp = ts
                /\ s.signature = Signature(scheme, log.pub, d, form)
                /\ sct_signed_data(s.timestamp, et, entry, s.extensions) = d
  BY DEF Timestamp, SctFor
<1>1. CASE log.sig = "ECDSA_P256"
  <2>1. IssueSct(ts, et, entry) = Made(SIG_ECDSA, "ECDSA_P256", "der")
    BY <1>1 DEF IssueSct, issue_sct_std
  <2>2. verify_sct_std(Made(SIG_ECDSA, "ECDSA_P256", "der"), log.pub, et, entry)
    BY <1>0, SignatureFacts DEF verify_sct_std
  <2>. QED
    BY <1>0, <1>1, <2>1, <2>2 DEF VerifySct
<1>2. CASE log.sig = "RSA"
  <2>1. IssueSct(ts, et, entry) = Made(SIG_RSA, "RSA", "raw")
    BY <1>2 DEF IssueSct, issue_sct_rsa
  <2>2. verify_sct_rsa(Made(SIG_RSA, "RSA", "raw"), log.pub, et, entry)
    BY <1>0, SignatureFacts DEF verify_sct_rsa
  <2>. QED
    BY <1>0, <1>2, <2>1, <2>2 DEF VerifySct
<1>3. CASE log.sig \notin {"ECDSA_P256", "RSA"}
  <2>1. IssueSct(ts, et, entry) = Made(SIG_SM2, "SM2", "raw")
    BY <1>3 DEF IssueSct, issue_sct
  <2>2. verify_sct(Made(SIG_SM2, "SM2", "raw"), log.pub, et, entry)
    BY <1>0, SignatureFacts DEF verify_sct
  <2>. QED
    BY <1>0, <1>3, <2>1, <2>2 DEF VerifySct
<1>. QED
  BY <1>1, <1>2, <1>3

\* So does a tree head (sign_sth, verify_sth and their kinds).
LEMMA HeadVerifies ==
  ASSUME NEW ts, NEW size, NEW root
  PROVE  LET h == SignHead(ts, size, root)
         IN VerifySth(h) /\ h.timestamp = ts /\ h.tree_size = size /\ h.root_hash = root
<1>. DEFINE h(alg) == TreeHead(ts, size, root, alg)
            Made(alg, scheme) == [h(alg) EXCEPT !.signature = Signature(scheme, log.pub, sth_signed_data(h(alg)), "raw")]
<1>0. ASSUME NEW alg, NEW scheme
      PROVE  LET s == Made(alg, scheme)
             IN VerifyHead(s, log.pub, alg, scheme) /\ s.timestamp = ts /\ s.tree_size = size /\ s.root_hash = root
  <2>. DEFINE s == Made(alg, scheme)
  <2>1. /\ SctFor(s, alg) /\ s.timestamp = ts /\ s.tree_size = size /\ s.root_hash = root
        /\ s.signature = Signature(scheme, log.pub, sth_signed_data(h(alg)), "raw")
        /\ s.version = h(alg).version /\ h(alg).timestamp = ts /\ h(alg).tree_size = size /\ h(alg).root_hash = root
    BY DEF TreeHead, SctFor
  <2>2. sth_signed_data(s) = sth_signed_data(h(alg))
    <3>. HIDE DEF s, h
    <3>. QED BY <2>1 DEF sth_signed_data
  <2>3. RawSize(s.signature) /\ SignedBy(s.signature, scheme, log.pub, sth_signed_data(s))
    <3>. HIDE DEF s, h
    <3>. QED BY <2>1, <2>2, SignatureFacts
  <2>4. VerifyHead(s, log.pub, alg, scheme)
    <3>. HIDE DEF s, h
    <3>. QED BY <2>1, <2>3 DEF VerifyHead
  <2>. QED
    BY <2>1, <2>4
<1>1. CASE log.sig = "ECDSA_P256"
  <2>1. SignHead(ts, size, root) = Made(SIG_ECDSA, "ECDSA_P256")
    BY <1>1 DEF SignHead, sign_sth_std
  <2>. HIDE DEF Made
  <2>. QED
    BY <1>0, <1>1, <2>1 DEF VerifySth, verify_sth_std
<1>2. CASE log.sig = "RSA"
  <2>1. SignHead(ts, size, root) = Made(SIG_RSA, "RSA")
    BY <1>2 DEF SignHead, sign_sth_rsa
  <2>. HIDE DEF Made
  <2>. QED
    BY <1>0, <1>2, <2>1 DEF VerifySth, verify_sth_rsa
<1>3. CASE log.sig \notin {"ECDSA_P256", "RSA"}
  <2>1. SignHead(ts, size, root) = Made(SIG_SM2, "SM2")
    BY <1>3 DEF SignHead, sign_sth
  <2>. HIDE DEF Made
  <2>. QED
    BY <1>0, <1>3, <2>1 DEF VerifySth, verify_sth
<1>. QED
  BY <1>1, <1>2, <1>3

-----------------------------------------------------------------------------
\* An empty log keeps its promises.
LEMMA InitHolds == CtInit => CtInv
<1>. SUFFICES ASSUME CtInit PROVE CtInv
  OBVIOUS
<1>1. Sequences4
  BY DEF CtInit, Sequences4, ASequence
<1>2. Len(entries) = 0 /\ Len(scts) = 0 /\ Len(leaf_hashes) = 0 /\ Len(sths) = 0
  BY DEF CtInit
<1>. QED
  BY <1>1, <1>2 DEF CtInit, CtInv, TimesBehind, NothingBefore, TimestampsKept, HeadsKept

\* Opening a log finds it empty, so no promise was made under another key (ct_log::ct_log).
LEMMA OpenKeeps == CtInv /\ open_log => CtInv'
<1>. SUFFICES ASSUME CtInv, open_log PROVE CtInv'
  OBVIOUS
<1>1. /\ entries' = <<>> /\ sths' = <<>> /\ UNCHANGED <<scts, leaf_hashes, last_entry_time, last_sth_time>>
      /\ Len(entries') = 0 /\ Len(sths') = 0 /\ Len(scts') = 0 /\ Len(leaf_hashes') = 0
  BY DEF CtInv, open_log, logData, headData, NothingBefore, TimestampsKept
<1>2. Sequences4' /\ TimesBehind' /\ NothingBefore'
  BY <1>1 DEF CtInv, open_log, logData, headData, Sequences4, ASequence, TimesBehind, NothingBefore
<1>3. TimestampsKept' /\ HeadsKept'
  BY <1>1 DEF TimestampsKept, HeadsKept
<1>. QED
  BY <1>2, <1>3 DEF CtInv

\* A new entry is later than those before, and under no head (ct_log::append_entry).
LEMMA AppendKeeps ==
  ASSUME CtInv, NEW et, NEW entry, NEW extra, NEW t \in Nat, log # Absent,
         append_entry(et, entry, extra, t), UNCHANGED <<log, headData>>
  PROVE  CtInv'
<1>. DEFINE ts == EntryTime(t)
            leaf == Leaf(ts, et, entry)
            sct == IssueSct(ts, et, entry)
            lh == leaf_hash(log.hash, serialize_merkle_tree_leaf(leaf))
            n == Len(entries)
<1>1. /\ entries' = Append(entries, leaf) /\ scts' = Append(scts, sct) /\ leaf_hashes' = Append(leaf_hashes, lh)
      /\ last_entry_time' = ts /\ UNCHANGED <<log, sths, last_sth_time>>
  BY DEF append_entry, headData
<1>2. ts \in Nat /\ ts > last_entry_time
  BY DEF EntryTime, CtInv, TimesBehind
<1>3. VerifySct(sct, et, entry) /\ sct.timestamp = ts
  BY SctVerifies
<1>4. leaf.timestamp = ts /\ leaf.entry_type = et /\ leaf.signed_entry = entry
  BY DEF Leaf
<1>5. ASequence(entries) /\ ASequence(scts) /\ ASequence(leaf_hashes) /\ n \in Nat /\ Len(scts) = n /\ Len(leaf_hashes) = n
  BY AppendFacts DEF CtInv, Sequences4, TimestampsKept
<1>. HIDE DEF ts, leaf, sct, lh
<1>6. /\ ASequence(entries') /\ Len(entries') = n + 1 /\ entries'[n + 1] = leaf
      /\ \A i \in 1..n : entries'[i] = entries[i]
  BY <1>1, <1>5, AppendFacts
<1>7. /\ ASequence(scts') /\ Len(scts') = n + 1 /\ scts'[n + 1] = sct
      /\ \A i \in 1..n : scts'[i] = scts[i]
  BY <1>1, <1>5, AppendFacts
<1>8. /\ ASequence(leaf_hashes') /\ Len(leaf_hashes') = n + 1 /\ leaf_hashes'[n + 1] = lh
      /\ \A i \in 1..n : leaf_hashes'[i] = leaf_hashes[i]
  BY <1>1, <1>5, AppendFacts
<1>. HIDE DEF n
<1>9. Sequences4' /\ NothingBefore'
  BY <1>1, <1>6, <1>7, <1>8 DEF CtInv, Sequences4, NothingBefore
<1>10. TimesBehind'
  <2>1. ASSUME NEW i \in 1..n PROVE entries'[i].timestamp \in Nat /\ entries'[i].timestamp <= ts
    BY <1>2, <1>6, <2>1 DEF CtInv, TimesBehind, n
  <2>. QED
    BY <1>1, <1>2, <1>4, <1>5, <1>6, <2>1 DEF CtInv, TimesBehind
<1>11. TimestampsKept'
  <2>1. ASSUME NEW i \in 1..n + 1
        PROVE  /\ VerifySct(scts[i], entries[i].entry_type, entries[i].signed_entry)'
               /\ scts'[i].timestamp = entries'[i].timestamp
               /\ leaf_hashes'[i] = leaf_hash(log'.hash, serialize_merkle_tree_leaf(entries'[i]))
    <3>1. CASE i = n + 1
      BY <1>1, <1>3, <1>4, <1>6, <1>7, <1>8, <3>1 DEF VerifySct, lh
    <3>2. CASE i # n + 1
      <4>1. i \in 1..n
        BY <1>5, <3>2
      <4>2. /\ VerifySct(scts[i], entries[i].entry_type, entries[i].signed_entry)
            /\ scts[i].timestamp = entries[i].timestamp
            /\ leaf_hashes[i] = leaf_hash(log.hash, serialize_merkle_tree_leaf(entries[i]))
        BY <4>1 DEF CtInv, TimestampsKept, n
      <4>. QED
        BY <1>1, <1>6, <1>7, <1>8, <4>1, <4>2 DEF VerifySct
    <3>. QED
      BY <3>1, <3>2
  <2>2. ASSUME NEW i \in 1..n + 1, NEW j \in 1..n + 1, i < j
        PROVE  entries'[i].timestamp < entries'[j].timestamp
    <3>1. i \in 1..n /\ entries'[i].timestamp \in Nat /\ entries'[i].timestamp <= last_entry_time
      BY <1>5, <1>6, <2>2 DEF CtInv, TimesBehind, n
    <3>2. CASE j = n + 1
      BY <1>2, <1>4, <1>6, <3>1, <3>2 DEF CtInv, TimesBehind
    <3>3. CASE j # n + 1
      <4>1. j \in 1..n
        BY <1>5, <3>3
      <4>2. entries[i].timestamp < entries[j].timestamp
        BY <2>2, <3>1, <4>1 DEF CtInv, TimestampsKept, n
      <4>. QED
        BY <1>6, <3>1, <4>1, <4>2
    <3>. QED
      BY <3>2, <3>3
  <2>. QED
    BY <1>6, <1>7, <1>8, <2>1, <2>2 DEF TimestampsKept
<1>12. HeadsKept'
  <2>. SUFFICES ASSUME NEW k \in 1..Len(sths)
                PROVE  /\ VerifySth(sths[k])'
                       /\ sths[k].tree_size <= Len(leaf_hashes')
                       /\ sths[k].root_hash = merkle_root(log.hash, SubSeq(leaf_hashes', 1, sths[k].tree_size))
                       /\ \A i \in 1..sths[k].tree_size : entries'[i].timestamp <= sths[k].timestamp
                       /\ \A m \in 1..k - 1 : sths[m].timestamp < sths[k].timestamp /\ sths[m].tree_size <= sths[k].tree_size
    BY <1>1 DEF HeadsKept
  <2>1. /\ VerifySth(sths[k]) /\ sths[k].tree_size \in 0..n
        /\ sths[k].root_hash = merkle_root(log.hash, SubSeq(leaf_hashes, 1, sths[k].tree_size))
        /\ \A i \in 1..sths[k].tree_size : entries[i].timestamp <= sths[k].timestamp
        /\ \A m \in 1..k - 1 : sths[m].timestamp < sths[k].timestamp /\ sths[m].tree_size <= sths[k].tree_size
    BY <1>5 DEF CtInv, HeadsKept, TimesBehind
  <2>2. SubSeq(leaf_hashes', 1, sths[k].tree_size) = SubSeq(leaf_hashes, 1, sths[k].tree_size)
    BY <1>1, <1>5, <2>1, PrefixKept
  <2>3. \A i \in 1..sths[k].tree_size : entries'[i].timestamp <= sths[k].timestamp
    BY <1>5, <1>6, <2>1
  <2>4. VerifySth(sths[k])'
    BY <1>1, <2>1 DEF VerifySth
  <2>5. sths[k].tree_size <= Len(leaf_hashes')
    BY <1>5, <1>8, <2>1
  <2>6. sths[k].root_hash = merkle_root(log.hash, SubSeq(leaf_hashes', 1, sths[k].tree_size))
    BY <2>1, <2>2
  <2>. QED
    BY ONLY <2>1, <2>3, <2>4, <2>5, <2>6
<1>. QED
  BY <1>9, <1>10, <1>11, <1>12 DEF CtInv

\* A new head is later than every head and entry and covers them all (ct_log::get_sth).
LEMMA HeadKeeps ==
  ASSUME CtInv, NEW t \in Nat, get_sth(t)
  PROVE  CtInv'
<1>. DEFINE ts == HeadTime(t)
            root == merkle_root(log.hash, leaf_hashes)
            head == SignHead(ts, Len(leaf_hashes), root)
            n == Len(sths)
<1>1. /\ sths' = Append(sths, head) /\ last_sth_time' = ts /\ log # Absent
      /\ UNCHANGED <<log, entries, scts, leaf_hashes, last_entry_time>>
  BY DEF get_sth, logData
<1>2. ts \in Nat /\ ts > last_sth_time /\ ts >= last_entry_time
  BY DEF HeadTime, CtInv, TimesBehind
<1>3. VerifySth(head) /\ head.timestamp = ts /\ head.tree_size = Len(leaf_hashes) /\ head.root_hash = root
  BY HeadVerifies
<1>4. /\ ASequence(sths) /\ n \in Nat /\ ASequence(leaf_hashes) /\ Len(leaf_hashes) \in Nat
      /\ Len(entries) = Len(leaf_hashes)
  BY AppendFacts DEF CtInv, Sequences4, TimestampsKept
<1>. HIDE DEF ts, head
<1>5. /\ ASequence(sths') /\ Len(sths') = n + 1 /\ sths'[n + 1] = head
      /\ \A k \in 1..n : sths'[k] = sths[k]
  BY <1>1, <1>4, AppendFacts
<1>6. Sequences4' /\ NothingBefore'
  BY <1>1, <1>5 DEF CtInv, Sequences4, NothingBefore
<1>7. TimestampsKept'
  BY <1>1 DEF CtInv, TimestampsKept, VerifySct
<1>8. \A k \in 1..n : /\ sths[k].timestamp \in Nat /\ sths[k].timestamp <= last_sth_time
                      /\ sths[k].tree_size \in Nat /\ sths[k].tree_size <= Len(leaf_hashes)
  BY DEF CtInv, TimesBehind, HeadsKept
<1>. HIDE DEF n, root
<1>9. TimesBehind'
  <2>1. ASSUME NEW k \in 1..n + 1
        PROVE  sths'[k].timestamp \in Nat /\ sths'[k].timestamp <= ts /\ sths'[k].tree_size \in Nat
    <3>1. CASE k = n + 1
      BY <1>2, <1>3, <1>4, <1>5, <3>1
    <3>2. CASE k # n + 1
      <4>1. k \in 1..n
        BY <1>4, <3>2
      <4>. QED
        BY <1>2, <1>5, <1>8, <4>1 DEF CtInv, TimesBehind
    <3>. QED
      BY <3>1, <3>2
  <2>. QED
    BY <1>1, <1>2, <1>5, <2>1 DEF CtInv, TimesBehind
<1>10. HeadsKept'
  <2>. DEFINE Kept(h) == /\ h.tree_size <= Len(leaf_hashes)
                         /\ h.root_hash = merkle_root(log.hash, SubSeq(leaf_hashes, 1, h.tree_size))
                         /\ \A i \in 1..h.tree_size : entries[i].timestamp <= h.timestamp
              Before(g, h) == g.timestamp < h.timestamp /\ g.tree_size <= h.tree_size
  <2>1. ASSUME NEW k \in 1..n
        PROVE  VerifySth(sths[k]) /\ Kept(sths[k]) /\ \A m \in 1..k - 1 : Before(sths[m], sths[k])
    BY DEF CtInv, HeadsKept, n
  <2>2. Kept(head)
    <3>1. SubSeq(leaf_hashes, 1, Len(leaf_hashes)) = leaf_hashes
      BY <1>4, WholePrefix
    <3>2. \A i \in 1..Len(leaf_hashes) : entries[i].timestamp <= ts
      BY <1>2, <1>4 DEF CtInv, TimesBehind
    <3>3. head.root_hash = merkle_root(log.hash, SubSeq(leaf_hashes, 1, head.tree_size))
      BY <1>3, <3>1 DEF root
    <3>4. \A i \in 1..head.tree_size : entries[i].timestamp <= head.timestamp
      BY <1>3, <3>2
    <3>. QED
      BY <1>3, <1>4, <3>3, <3>4
  <2>3. \A m \in 1..n : Before(sths[m], head)
    BY <1>2, <1>3, <1>8 DEF CtInv, TimesBehind
  <2>. HIDE DEF Kept, Before
  <2>4. ASSUME NEW k \in 1..n + 1
        PROVE  VerifySth(sths'[k]) /\ Kept(sths'[k]) /\ \A m \in 1..k - 1 : Before(sths'[m], sths'[k])
    <3>1. CASE k = n + 1
      <4>1. sths'[k] = head /\ k - 1 = n
        BY <1>4, <1>5, <3>1
      <4>2. \A m \in 1..n : Before(sths'[m], head)
        BY <1>5, <2>3
      <4>. QED
        BY <1>3, <2>2, <4>1, <4>2
    <3>2. CASE k # n + 1
      <4>1. k \in 1..n /\ \A m \in 1..k - 1 : m \in 1..n
        BY <1>4, <3>2
      <4>. QED
        BY <1>5, <2>1, <4>1
    <3>. QED
      BY <3>1, <3>2
  <2>5. \A k \in 1..n + 1 : VerifySth(sths[k])'
    BY <1>1, <2>4 DEF VerifySth
  <2>. QED
    BY <1>1, <1>5, <2>4, <2>5 DEF HeadsKept, Kept, Before
<1>. QED
  BY <1>6, <1>7, <1>9, <1>10 DEF CtInv

\* Roots come and go without touching what was promised.
LEMMA OtherKeeps ==
  ASSUME CtInv, UNCHANGED <<log, logData, headData>>
  PROVE  CtInv'
BY DEF CtInv, logData, headData, Sequences4, TimesBehind, NothingBefore, TimestampsKept, HeadsKept, VerifySct, VerifySth

\* The invariant is inductive, one case per call of ct_log.
LEMMA StepKeeps == CtInv /\ [CtNext]_ctVars => CtInv'
<1>. SUFFICES ASSUME CtInv, [CtNext]_ctVars PROVE CtInv'
  OBVIOUS
<1>1. CASE open_log
  BY <1>1, OpenKeeps
<1>2. ASSUME NEW r \in Roots, accept_root(r) PROVE CtInv'
  BY <1>2, OtherKeeps DEF accept_root
<1>3. CASE clear_roots
  BY <1>3, OtherKeeps DEF clear_roots
<1>4. ASSUME NEW c \in Chains, NEW now \in ClockReadings, NEW t \in ClockReadings, add_chain(c, now, t) PROVE CtInv'
  <2>1. t \in Nat
    BY CtAssumption
  <2>. QED
    BY <1>4, <2>1, AppendKeeps DEF add_chain
<1>5. ASSUME NEW c \in Chains, NEW now \in ClockReadings, NEW t \in ClockReadings, add_pre_chain(c, now, t) PROVE CtInv'
  <2>1. t \in Nat
    BY CtAssumption
  <2>. QED
    BY <1>5, <2>1, AppendKeeps DEF add_pre_chain
<1>6. ASSUME NEW t \in ClockReadings, get_sth(t) PROVE CtInv'
  BY <1>6, CtAssumption, HeadKeeps
<1>7. CASE UNCHANGED ctVars
  BY <1>7, OtherKeeps DEF ctVars
<1>. QED
  BY <1>1, <1>2, <1>3, <1>4, <1>5, <1>6, <1>7 DEF CtNext

\* For every log, every chain submitted and every behaviour of the clock: each SCT
\* verifies and its entry stays in the log at its place, timestamps increase, and
\* each tree head stays the head of a prefix of the log (append_entry, get_sth).
THEOREM PromisesKept == CtSpec => []LogKept
<1>1. CtInv => LogKept
  BY DEF CtInv, LogKept
<1>. QED
  BY InitHolds, StepKeeps, <1>1, PTL DEF CtSpec
=============================================================================
