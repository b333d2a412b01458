------------------------------- MODULE CtLog ---------------------------------
(***************************************************************************)
(* The in-memory log of Certificate Transparency, with the formats and     *)
(* signatures it uses and the handling of precertificates.  A certificate  *)
(* is the tree of X509, a 32-byte hash is one unit of a byte string, and a *)
(* signature remembers who signed what.  The clock may show anything each  *)
(* time it is read: it is the caller's function, or the wall clock.        *)
(***************************************************************************)
EXTENDS X509

CONSTANTS OCTET,       \* values of a byte (256)
          TICKS,       \* milliseconds in a unit of X.509 time
          Logs,        \* [hash |->, sig |->, pub |->] of the logs that may be opened
          Roots,       \* root certificates an operator may accept
          Chains,      \* chains that are submitted
          ClockReadings,       \* what the clock may show
          MaxEntries, MaxHeads

ASSUME CtAssumption ==
  /\ OCTET \in {2 * n : n \in 1..128} /\ TICKS \in Nat \ {0}
  /\ ClockReadings \subseteq Nat /\ MaxEntries \in Nat /\ MaxHeads \in Nat

-----------------------------------------------------------------------------
(* The Merkle tree: root, audit paths and consistency proofs, with their   *)
(* verification.  A hash is the tuple of what is hashed, so two hashes are *)
(* equal exactly when their inputs are; alg tells SM3 from SHA-256.        *)

\* The prefixes 0x00 and 0x01 keep leaves and inner nodes apart.
leaf_hash(alg, d) == <<alg, "leaf", d>>

node_hash(alg, l, r) == <<alg, "node", l, r>>

empty_hash(alg) == <<alg, "empty">>

Odd(n) == n % 2 = 1

\* Mutant: a tree is cut in the middle.
pow2_floor_Half(n) == IF n <= 2 THEN 1 ELSE n \div 2

\* The largest power of two below n, and 1 for n = 1.
pow2_floor(n) == IF n <= 2 THEN 1 ELSE CHOOSE k \in {2^i : i \in 0..n} : k < n /\ n <= 2 * k

-----------------------------------------------------------------------------
(* What the log makes of its leaves, counted from 0, as in the code.       *)

mth_of(alg, leaves) ==
  LET mth[from \in 0..Len(leaves), n \in 0..Len(leaves)] ==
        IF n = 0 THEN empty_hash(alg)
        ELSE IF n = 1 THEN leaves[from + 1]
        ELSE LET k == pow2_floor(n)
             IN node_hash(alg, mth[from, k], mth[from + k, n - k])
  IN mth[0, Len(leaves)]

merkle_root(alg, leaves) == mth_of(alg, leaves)

\* The n leaves from number from on.
Slice(leaves, from, n) == SubSeq(leaves, from + 1, from + n)

path_impl(alg, leaves, index) ==
  LET path[from \in 0..Len(leaves), n \in 0..Len(leaves), m \in 0..Len(leaves)] ==
        IF n = 1 THEN <<>>
        ELSE LET k == pow2_floor(n)
             IN IF m < k
                THEN Append(path[from, k, m], mth_of(alg, Slice(leaves, from + k, n - k)))
                ELSE Append(path[from + k, n - k, m - k], mth_of(alg, Slice(leaves, from, k)))
  IN path[0, Len(leaves), index]

audit_path(alg, leaves, index) ==
  IF index >= Len(leaves) THEN <<>> ELSE path_impl(alg, leaves, index)

\* b: the subtree is still a subtree of the first tree.
subproof_impl(alg, leaves, first) ==
  LET sub[from \in 0..Len(leaves), n \in 0..Len(leaves), m \in 0..Len(leaves), b \in BOOLEAN] ==
        IF m = n THEN IF b THEN <<>> ELSE <<mth_of(alg, Slice(leaves, from, n))>>
        ELSE LET k == pow2_floor(n)
             IN IF m <= k
                THEN Append(sub[from, k, m, b], mth_of(alg, Slice(leaves, from + k, n - k)))
                ELSE Append(sub[from + k, n - k, m - k, FALSE], mth_of(alg, Slice(leaves, from, k)))
  IN sub[0, Len(leaves), first, TRUE]

consistency_proof(alg, leaves, first, second) ==
  IF first = 0 \/ first > second \/ second > Len(leaves) THEN <<>>
  ELSE subproof_impl(alg, SubSeq(leaves, 1, second), first)

-----------------------------------------------------------------------------
(* Checked by an auditor, who has no leaves.                                *)

\* fn and sn without the zeros fn ends with; both stop when fn is 0.
ShiftOut(fn, sn) ==
  IF fn = 0 THEN <<0, sn>>
  ELSE LET z == CHOOSE i \in 0..fn : fn % 2^i = 0 /\ Odd(fn \div 2^i)
       IN <<fn \div 2^z, sn \div 2^z>>

\* fn and sn without the ones fn ends with.
ShiftOnes(fn, sn) ==
  LET z == CHOOSE i \in 0..fn + 1 : (fn + 1) % 2^i = 0 /\ Odd((fn + 1) \div 2^i)
  IN <<fn \div 2^z, sn \div 2^z>>

\* One hash of an audit path.
PathStep(alg, a, h) ==
  LET left == Odd(a.fn) \/ a.fn = a.sn
      at   == IF left /\ ~Odd(a.fn) THEN ShiftOut(a.fn, a.sn) ELSE <<a.fn, a.sn>>
  IN IF ~a.ok \/ a.sn = 0 THEN [a EXCEPT !.ok = FALSE]
     ELSE [ok |-> TRUE, fn |-> at[1] \div 2, sn |-> at[2] \div 2,
           fr |-> IF left THEN node_hash(alg, h, a.fr) ELSE node_hash(alg, a.fr, h)]

verify_audit_path(alg, index, size, leaf, path, root) ==
  LET a == FoldLeft(LAMBDA b, h : PathStep(alg, b, h),
                    [ok |-> TRUE, fn |-> index, sn |-> size - 1, fr |-> leaf], path)
  IN index < size /\ a.ok /\ a.fr = root /\ a.sn = 0

IsPowerOf2(n) == \E i \in 0..n : n = 2^i

\* One hash of a consistency proof.
ConsistencyStep(alg, a, h) ==
  LET left == Odd(a.fn) \/ a.fn = a.sn
      at   == IF left THEN ShiftOut(a.fn, a.sn) ELSE <<a.fn, a.sn>>
  IN IF ~a.ok \/ a.sn = 0 THEN [a EXCEPT !.ok = FALSE]
     ELSE [ok |-> TRUE, fn |-> at[1] \div 2, sn |-> at[2] \div 2,
           fr |-> IF left THEN node_hash(alg, h, a.fr) ELSE a.fr,
           sr |-> IF left THEN node_hash(alg, h, a.sr) ELSE node_hash(alg, a.sr, h)]

\* A first tree that is complete is its own start of the proof.
verify_consistency(alg, first, second, first_root, second_root, proof) ==
  LET p == (IF IsPowerOf2(first) THEN <<first_root>> ELSE <<>>) \o proof
      z == ShiftOnes(first - 1, second - 1)
      a == FoldLeft(LAMBDA b, h : ConsistencyStep(alg, b, h),
                    [ok |-> TRUE, fn |-> z[1], sn |-> z[2], fr |-> p[1], sr |-> p[1]], Tail(p))
  IN IF first > second \/ first = 0 THEN FALSE
     ELSE IF first = second THEN proof = <<>> /\ first_root = second_root
     ELSE p # <<>> /\ a.ok /\ a.fr = first_root /\ a.sr = second_root /\ a.sn = 0

-----------------------------------------------------------------------------
(* Byte strings of TLS.                                                    *)

U(n, v) == [i \in 1..n |-> (v \div OCTET^(n - i)) % OCTET]

encode_u16(v) == U(2, v)
encode_u64(v) == U(8, v)

\* What is too long for its length disappears.
encode_tls_vector16(d) == IF Len(d) >= OCTET^2 THEN <<>> ELSE U(2, Len(d)) \o d
encode_tls_vector24(d) == IF Len(d) >= OCTET^3 THEN <<>> ELSE U(3, Len(d)) \o d

\* A reader: where it is, whether everything was there, and the last thing read.
Start == [ok |-> TRUE, off |-> 0, v |-> <<>>]

Take(d, r, n) ==
  IF r.ok /\ r.off + n <= Len(d)
  THEN [ok |-> TRUE, off |-> r.off + n, v |-> SubSeq(d, r.off + 1, r.off + n)]
  ELSE [r EXCEPT !.ok = FALSE]

ValueOf(b) == FoldLeft(LAMBDA a, x : a * OCTET + x, 0, b)

ReadVector(d, r, n) ==
  LET l == Take(d, r, n) IN IF l.ok THEN Take(d, l, ValueOf(l.v)) ELSE l

read_vector16(d, r) == ReadVector(d, r, 2)
read_vector24(d, r) == ReadVector(d, r, 3)

\* The size of the TLV at the reader, 0 when it is not all there.
tlv_total_len(d, off) ==
  LET first == d[off + 2]
      n     == first - OCTET \div 2
      vlen  == IF n < 0 THEN first ELSE ValueOf(SubSeq(d, off + 3, off + 2 + n))
      head  == IF n < 0 THEN 2 ELSE 2 + n
  IN IF off + 2 > Len(d) THEN 0
     ELSE IF n >= 0 /\ (n = 0 \/ n > 4 \/ off + 2 + n > Len(d)) THEN 0
     ELSE IF off + head + vlen > Len(d) THEN 0 ELSE head + vlen

-----------------------------------------------------------------------------
(* Log entries.                                                            *)

CT_VERSION_V1 == 0
X509_ENTRY    == 0
PRECERT_ENTRY == 1

serialize_precert(pc) == <<pc.issuer_key_hash>> \o encode_tls_vector24(pc.tbs_certificate)

deserialize_precert(d) ==
  LET h == Take(d, Start, 1)
      t == read_vector24(d, h)
  IN IF t.ok /\ t.off = Len(d) THEN [issuer_key_hash |-> h.v[1], tbs_certificate |-> t.v] ELSE Absent

serialize_merkle_tree_leaf(leaf) ==
  <<leaf.version, leaf.leaf_type>> \o encode_u64(leaf.timestamp) \o encode_u16(leaf.entry_type)
    \o leaf.signed_entry \o encode_tls_vector16(leaf.extensions)

\* The entry says itself where it ends; the rest is exactly the extensions.
deserialize_merkle_tree_leaf(d) ==
  LET h == Take(d, Start, 2)
      t == Take(d, h, 8)
      e == Take(d, t, 2)
      pc == read_vector24(d, Take(d, e, 1))
      n == CASE ValueOf(e.v) = X509_ENTRY -> tlv_total_len(d, e.off)
             [] ValueOf(e.v) = PRECERT_ENTRY -> IF pc.ok THEN pc.off - e.off ELSE 0
             [] OTHER -> 0
      s == Take(d, e, n)
      x == read_vector16(d, s)
  IN IF ~e.ok THEN Absent
     ELSE IF n = 0 \/ ~x.ok THEN Absent
     ELSE IF x.off # Len(d) THEN Absent
     ELSE [version |-> d[1], leaf_type |-> d[2], timestamp |-> ValueOf(t.v), entry_type |-> ValueOf(e.v),
           signed_entry |-> s.v, extensions |-> x.v]

-----------------------------------------------------------------------------
(* Signed timestamps and tree heads.                                       *)

HASH_ALG == 4   \* CT_HASH_ALG_SM3 and CT_HASH_ALG_SHA256 are the same number
SIG_SM2 == 4
SIG_ECDSA == 3
SIG_RSA == 1

Signature(scheme, key, d, form) == <<[scheme |-> scheme, by |-> key, over |-> d, form |-> form]>>

SignedBy(sig, scheme, key, d) == sig[1].scheme = scheme /\ sig[1].by = key /\ sig[1].over = d

RawSize(sig) == sig # <<>> /\ Len(sig) = 1 /\ sig[1].form = "raw"

sct_signed_data(ts, entry_type, entry, ext) ==
  <<CT_VERSION_V1, 0>> \o encode_u64(ts) \o encode_u16(entry_type) \o entry \o encode_tls_vector16(ext)

Timestamp(log_id, ts, ext, alg, sig) ==
  [version |-> CT_VERSION_V1, log_id |-> log_id, timestamp |-> ts, extensions |-> ext,
   hash_algorithm |-> HASH_ALG, signature_algorithm |-> alg, signature |-> sig]

issue_sct(key, log_id, ts, et, entry, ext) ==
  Timestamp(log_id, ts, ext, SIG_SM2, Signature("SM2", key, sct_signed_data(ts, et, entry, ext), "raw"))

issue_sct_std(key, log_id, ts, et, entry, ext) ==
  Timestamp(log_id, ts, ext, SIG_ECDSA, Signature("ECDSA_P256", key, sct_signed_data(ts, et, entry, ext), "der"))

issue_sct_rsa(key, log_id, ts, et, entry, ext) ==
  Timestamp(log_id, ts, ext, SIG_RSA, Signature("RSA", key, sct_signed_data(ts, et, entry, ext), "raw"))

SctFor(sct, alg) ==
  sct.version = CT_VERSION_V1 /\ sct.hash_algorithm = HASH_ALG /\ sct.signature_algorithm = alg

verify_sct(sct, key, et, entry) ==
  /\ SctFor(sct, SIG_SM2) /\ RawSize(sct.signature)
  /\ SignedBy(sct.signature, "SM2", key, sct_signed_data(sct.timestamp, et, entry, sct.extensions))

\* Raw or in DER.
verify_sct_std(sct, key, et, entry) ==
  /\ SctFor(sct, SIG_ECDSA) /\ sct.signature # <<>>
  /\ SignedBy(sct.signature, "ECDSA_P256", key, sct_signed_data(sct.timestamp, et, entry, sct.extensions))

verify_sct_rsa(sct, key, et, entry) ==
  /\ SctFor(sct, SIG_RSA) /\ RawSize(sct.signature)
  /\ SignedBy(sct.signature, "RSA", key, sct_signed_data(sct.timestamp, et, entry, sct.extensions))

serialize_sct(sct) ==
  <<sct.version, sct.log_id>> \o encode_u64(sct.timestamp) \o encode_tls_vector16(sct.extensions)
    \o <<sct.hash_algorithm, sct.signature_algorithm>> \o encode_tls_vector16(sct.signature)

deserialize_sct(d) ==
  LET h == Take(d, Start, 2)
      t == Take(d, h, 8)
      x == read_vector16(d, t)
      a == Take(d, x, 2)
      s == read_vector16(d, a)
  IN IF s.ok /\ s.off = Len(d)
     THEN [version |-> h.v[1], log_id |-> h.v[2], timestamp |-> ValueOf(t.v), extensions |-> x.v,
           hash_algorithm |-> a.v[1], signature_algorithm |-> a.v[2], signature |-> s.v]
     ELSE Absent

sth_signed_data(sth) ==
  <<sth.version, 1>> \o encode_u64(sth.timestamp) \o encode_u64(sth.tree_size) \o <<sth.root_hash>>

TreeHead(ts, size, root, alg) ==
  [version |-> CT_VERSION_V1, timestamp |-> ts, tree_size |-> size, root_hash |-> root,
   hash_algorithm |-> HASH_ALG, signature_algorithm |-> alg, signature |-> <<>>]

sign_sth(key, ts, size, root) ==
  LET h == TreeHead(ts, size, root, SIG_SM2)
  IN [h EXCEPT !.signature = Signature("SM2", key, sth_signed_data(h), "raw")]

sign_sth_std(key, ts, size, root) ==
  LET h == TreeHead(ts, size, root, SIG_ECDSA)
  IN [h EXCEPT !.signature = Signature("ECDSA_P256", key, sth_signed_data(h), "raw")]

sign_sth_rsa(key, ts, size, root) ==
  LET h == TreeHead(ts, size, root, SIG_RSA)
  IN [h EXCEPT !.signature = Signature("RSA", key, sth_signed_data(h), "raw")]

VerifyHead(sth, key, alg, scheme) ==
  /\ SctFor(sth, alg) /\ RawSize(sth.signature)
  /\ SignedBy(sth.signature, scheme, key, sth_signed_data(sth))

verify_sth(sth, key) == VerifyHead(sth, key, SIG_SM2, "SM2")
verify_sth_std(sth, key) == VerifyHead(sth, key, SIG_ECDSA, "ECDSA_P256")
verify_sth_rsa(sth, key) == VerifyHead(sth, key, SIG_RSA, "RSA")

-----------------------------------------------------------------------------
(* Certificates.                                                           *)

extract_tbs(d) ==
  IF ~Is(d, "SEQUENCE") THEN Absent ELSE IF Is(At(d.v, 1), "SEQUENCE") THEN d.v[1] ELSE Absent

tbs_elements(tbs) == tbs.v

\* The SubjectPublicKeyInfo, five elements behind the serial number.
spki_raw(cert) ==
  LET tbs  == IF cert.tbs_raw # Absent THEN cert.tbs_raw ELSE extract_tbs(to_der(cert))
      elems == tbs_elements(tbs)
      skip == IF Is(At(elems, 1), "CONTEXT0") THEN 1 ELSE 0
  IN At(elems, skip + 6)

\* The extensions of a TBSCertificate: the first element tagged [3].
ExtensionsOf(tbs) ==
  LET at == {i \in DOMAIN tbs.v : tbs.v[i].tag = "CONTEXT3" /\ \A j \in 1..i - 1 : tbs.v[j].tag # "CONTEXT3"}
  IN IF at = {} THEN <<>> ELSE tbs.v[CHOOSE i \in at : TRUE].v[1].v

\* The contents of the first extension with this identifier.
find_extn(d, oid) ==
  LET found == SelectSeq(ExtensionsOf(extract_tbs(d)), LAMBDA x : x.v[1] = Oid(oid))
  IN IF extract_tbs(d) = Absent \/ found = <<>> THEN Absent ELSE Last(found[1].v).v

\* Extensions are taken out and put behind the others; elements that follow
\* them are not copied.
modify_tbs_extensions(tbs, remove_oids, add_exts) ==
  LET first == {i \in DOMAIN tbs.v : \A j \in 1..i : tbs.v[j].tag # "CONTEXT3"}
      body  == SubSeq(tbs.v, 1, Cardinality(first))
      kept  == SelectSeq(ExtensionsOf(tbs), LAMBDA x : x.v[1].v[1] \notin remove_oids)
      added == [i \in DOMAIN add_exts |-> Extension(add_exts[i].oid, add_exts[i].critical, add_exts[i].extn_value)]
      exts  == kept \o added
  IN Tlv("SEQUENCE", body \o (IF exts = <<>> THEN <<>> ELSE <<Tlv("CONTEXT3", <<Tlv("SEQUENCE", exts)>>)>>))

\* RSA needs the modulus, P-384 and P-521 are not there.
sign_tbs(tbs, kt, key) ==
  IF kt \in {"Ed25519", "Ed448", "ECDSA_P256", "SM2"}
  THEN <<[scheme |-> <<kt>>, text |-> tbs, size |-> 0, public |-> key]>> ELSE <<>>

\* A list that is too long leaves an empty octet string.
encode_sct_list_extn(scts) ==
  LET items == [i \in DOMAIN scts |-> serialize_sct(scts[i])]
      list  == FoldLeft(LAMBDA a, s : a \o U(2, Len(s)) \o s, <<>>, items)
  IN IF \E i \in DOMAIN items : Len(items[i]) >= OCTET^2 THEN <<>>
     ELSE <<Tlv("OCTET_STRING", encode_tls_vector16(list))>>

\* With the octet string around the list, or without it.
decode_sct_list_extn(v) ==
  LET list == IF Len(v) = 1 THEN v[1].v ELSE v
      item[off \in 0..Len(list)] ==
        LET r   == read_vector16(list, [Start EXCEPT !.off = off])
            sct == deserialize_sct(r.v)
        IN IF off = Len(list) THEN <<>>
           ELSE IF ~r.ok THEN Absent
           ELSE IF sct = Absent THEN Absent
           ELSE IF item[r.off] = Absent THEN Absent ELSE <<sct>> \o item[r.off]
      total == Take(list, Start, 2)
  IN IF ~total.ok THEN Absent
     ELSE IF ValueOf(total.v) # Len(list) - 2 THEN Absent ELSE item[2]

scts_from_cert(d) ==
  LET ext == find_extn(d, "SCT_LIST") IN IF ext = Absent THEN Absent ELSE decode_sct_list_extn(ext)

\* What cannot be signed comes back as it was, with the poison.
finalize_precert(precert, scts, kt, key) ==
  LET sct_ext == [oid |-> "SCT_LIST", critical |-> FALSE, extn_value |-> encode_sct_list_extn(scts)]
      new_tbs == modify_tbs_extensions(extract_tbs(to_der(precert)), {"CT_POISON", "SCT_LIST"}, <<sct_ext>>)
      sig     == sign_tbs(new_tbs, kt, key)
      final   == from_der(Tlv("SEQUENCE", <<new_tbs, encode_sig_algo(kt, 32, FALSE), Tlv("BIT_STRING", <<0>> \o sig)>>))
  IN IF sig = <<>> THEN precert ELSE IF final = Absent THEN precert ELSE final

precert_tbs_from_final(d) ==
  IF extract_tbs(d) = Absent THEN Absent ELSE modify_tbs_extensions(extract_tbs(d), {"SCT_LIST"}, <<>>)

HashOf(alg, d) == <<alg, "hash", d>>

compute_log_id(cert) == HashOf("SM3", spki_raw(cert))
compute_log_id_std(cert) == HashOf("SHA256", spki_raw(cert))

\* Each certificate with a length of three bytes in front.
serialize_cert_chain(chain) ==
  FoldLeft(LAMBDA a, d : a \o encode_tls_vector24(<<d>>), <<>>, chain)

-----------------------------------------------------------------------------
(* The log.                                                                *)

VARIABLES log,              \* the log that was opened: algorithms, key, LogID; or Absent
          roots,           \* roots_
          entries,         \* entries_
          extra_datas,     \* extra_datas_
          leaf_hashes,     \* leaf_hashes_
          last_entry_time, \* last_entry_time_
          last_sth_time,   \* last_sth_time_
          scts,            \* every SCT handed out, in order
          sths             \* every tree head handed out, in order

logData == <<entries, extra_datas, leaf_hashes, last_entry_time, scts>>
headData == <<last_sth_time, sths>>
ctVars == <<log, roots, logData, headData>>

CtInit ==
  /\ log = Absent /\ roots = <<>>
  /\ entries = <<>> /\ extra_datas = <<>> /\ leaf_hashes = <<>> /\ last_entry_time = 0
  /\ last_sth_time = 0 /\ scts = <<>> /\ sths = <<>>

\* The LogID is the hash of the public key, taken for SM2 unless both
\* algorithms are the international ones.
LogId(l) ==
  LET kt == CASE l.sig = "RSA" -> "RSA_2048"
              [] l.sig = "ECDSA_P256" /\ l.hash = "SHA256" -> "ECDSA_P256"
              [] OTHER -> "SM2"
  IN HashOf(l.hash, encode_spki(kt, l.pub))

open_log ==
  /\ log = Absent
  /\ \E l \in Logs : log' = [hash |-> l.hash, sig |-> l.sig, pub |-> l.pub, log_id |-> LogId(l)]
  /\ UNCHANGED <<roots, logData, headData>>

accept_root(r) ==
  /\ log # Absent
  /\ roots' = Append(roots, r)
  /\ UNCHANGED <<log, logData, headData>>

clear_roots ==
  /\ log # Absent
  /\ roots' = <<>>
  /\ UNCHANGED <<log, logData, headData>>

chain_ok(chain, expect_precert, t) ==
  LET certs == [i \in DOMAIN chain |-> from_der(chain[i])]
  IN /\ chain # <<>>
     /\ Last(chain) \in Range(roots)
     /\ \A i \in DOMAIN chain : certs[i] # Absent
     /\ (find_extn(chain[1], "CT_POISON") # Absent) <=> expect_precert
     /\ expect_precert => Len(chain) >= 2
     /\ \A i \in 1..Len(chain) - 1 : verify_signature(certs[i], certs[i + 1])
     /\ \A i \in DOMAIN chain : is_valid_at(certs[i], t \div TICKS)

\* Mutant: two entries of the same millisecond get the same timestamp.
EntryTime_Equal(t) == IF t <= last_entry_time THEN last_entry_time ELSE t

\* Later than the entry before, whatever the clock shows.
EntryTime(t) == IF t <= last_entry_time THEN last_entry_time + 1 ELSE t

IssueSct(ts, et, entry) ==
  CASE log.sig = "ECDSA_P256" -> issue_sct_std(log.pub, log.log_id, ts, et, entry, <<>>)
    [] log.sig = "RSA" -> issue_sct_rsa(log.pub, log.log_id, ts, et, entry, <<>>)
    [] OTHER -> issue_sct(log.pub, log.log_id, ts, et, entry, <<>>)

Leaf(ts, et, entry) ==
  [version |-> CT_VERSION_V1, leaf_type |-> 0, timestamp |-> ts, entry_type |-> et,
   signed_entry |-> entry, extensions |-> <<>>]

append_entry(et, entry, extra, t) ==
  LET ts   == EntryTime(t)
      leaf == Leaf(ts, et, entry)
  IN /\ last_entry_time' = ts
     /\ entries' = Append(entries, leaf)
     /\ extra_datas' = Append(extra_datas, extra)
     /\ leaf_hashes' = Append(leaf_hashes, leaf_hash(log.hash, serialize_merkle_tree_leaf(leaf)))
     /\ scts' = Append(scts, IssueSct(ts, et, entry))

\* The clock is read for the dates, and again for the entry.
add_chain(chain, now, t) ==
  /\ log # Absent /\ Len(entries) < MaxEntries
  /\ chain_ok(chain, FALSE, now)
  /\ append_entry(X509_ENTRY, <<chain[1]>>, <<>>, t)
  /\ UNCHANGED <<log, roots, headData>>

\* What is logged of a precertificate: its TBSCertificate as it was submitted.
PreCert(chain) ==
  [issuer_key_hash |-> HashOf(log.hash, spki_raw(from_der(chain[2]))), tbs_certificate |-> <<extract_tbs(chain[1])>>]

add_pre_chain(chain, now, t) ==
  /\ log # Absent /\ Len(entries) < MaxEntries
  /\ chain_ok(chain, TRUE, now)
  /\ append_entry(PRECERT_ENTRY, serialize_precert(PreCert(chain)),
                  encode_tls_vector16(<<chain[1]>>) \o encode_tls_vector16(serialize_cert_chain(Tail(chain))), t)
  /\ UNCHANGED <<log, roots, headData>>

\* Not before the last entry, and later than the head before.
HeadTime(t) ==
  LET ts == IF t <= last_entry_time THEN last_entry_time ELSE t
  IN IF ts <= last_sth_time THEN last_sth_time + 1 ELSE ts

SignHead(ts, size, root) ==
  CASE log.sig = "ECDSA_P256" -> sign_sth_std(log.pub, ts, size, root)
    [] log.sig = "RSA" -> sign_sth_rsa(log.pub, ts, size, root)
    [] OTHER -> sign_sth(log.pub, ts, size, root)

get_sth(t) ==
  /\ log # Absent /\ Len(sths) < MaxHeads
  /\ last_sth_time' = HeadTime(t)
  /\ sths' = Append(sths, SignHead(HeadTime(t), Len(leaf_hashes), merkle_root(log.hash, leaf_hashes)))
  /\ UNCHANGED <<log, roots, logData>>

get_sth_consistency(first, second) ==
  IF first > second \/ second > Len(leaf_hashes) THEN <<>>
  ELSE consistency_proof(log.hash, leaf_hashes, first, second)

\* The first leaf with this hash among the first size.
get_proof_by_hash(h, size) ==
  LET at == {i \in 1..size : leaf_hashes[i] = h}
      i  == CHOOSE j \in at : \A k \in at : j <= k
  IN IF size > Len(leaf_hashes) THEN [ok |-> FALSE]
     ELSE IF at = {} THEN [ok |-> FALSE]
     ELSE [ok |-> TRUE, index |-> i - 1, path |-> audit_path(log.hash, SubSeq(leaf_hashes, 1, size), i - 1)]

\* From start to end, counted from 0, both included.
get_entries(start, end) ==
  IF start > end \/ end >= Len(entries) THEN [ok |-> FALSE]
  ELSE [ok |-> TRUE, leaf_inputs |-> [i \in 1..end - start + 1 |-> serialize_merkle_tree_leaf(entries[start + i])],
        extra_datas |-> SubSeq(extra_datas, start + 1, end + 1)]

CtNext ==
  \/ open_log
  \/ \E r \in Roots : Len(roots) < Cardinality(Roots) /\ accept_root(r)
  \/ clear_roots
  \/ \E c \in Chains, now, t \in ClockReadings : add_chain(c, now, t) \/ add_pre_chain(c, now, t)
  \/ \E t \in ClockReadings : get_sth(t)

CtSpec == CtInit /\ [][CtNext]_ctVars

-----------------------------------------------------------------------------
(* What the log promises.                                                  *)

VerifySct(sct, et, entry) ==
  CASE log.sig = "ECDSA_P256" -> verify_sct_std(sct, log.pub, et, entry)
    [] log.sig = "RSA" -> verify_sct_rsa(sct, log.pub, et, entry)
    [] OTHER -> verify_sct(sct, log.pub, et, entry)

VerifySth(sth) ==
  CASE log.sig = "ECDSA_P256" -> verify_sth_std(sth, log.pub)
    [] log.sig = "RSA" -> verify_sth_rsa(sth, log.pub)
    [] OTHER -> verify_sth(sth, log.pub)

\* Every SCT handed out verifies for the entry it was given for, and that entry is
\* in the log, with the SCT's timestamp, at its own place; timestamps increase
\* strictly even when the clock stands or is set back.
TimestampsKept ==
  /\ Len(scts) = Len(entries) /\ Len(leaf_hashes) = Len(entries)
  /\ \A i \in 1..Len(entries) :
       /\ VerifySct(scts[i], entries[i].entry_type, entries[i].signed_entry)
       /\ scts[i].timestamp = entries[i].timestamp
       /\ leaf_hashes[i] = leaf_hash(log.hash, serialize_merkle_tree_leaf(entries[i]))
  /\ \A i, j \in 1..Len(entries) : i < j => entries[i].timestamp < entries[j].timestamp

\* Every tree head handed out verifies, is later than the head before and not
\* earlier than the entries it covers, and its root is still that of the first
\* tree_size leaves: the log only grows.
HeadsKept ==
  \A k \in 1..Len(sths) :
    /\ VerifySth(sths[k])
    /\ sths[k].tree_size <= Len(leaf_hashes)
    /\ sths[k].root_hash = merkle_root(log.hash, SubSeq(leaf_hashes, 1, sths[k].tree_size))
    /\ \A i \in 1..sths[k].tree_size : entries[i].timestamp <= sths[k].timestamp
    /\ \A m \in 1..k - 1 : /\ sths[m].timestamp < sths[k].timestamp
                           /\ sths[m].tree_size <= sths[k].tree_size

\* The promises of ct_log: SCTs and tree heads are kept (append_entry, get_sth).
LogKept == TimestampsKept /\ HeadsKept

\* An auditor can check them without the log's word: an entry with an SCT is found
\* by its hash at its own place and proved to be in every head that covers it, any
\* two heads are proved consistent, and the entries read back are what was signed
\* (get_proof_by_hash, get_sth_consistency, get_entries).
LogAuditable ==
  /\ \A k \in 1..Len(sths) : \A i \in 1..sths[k].tree_size :
       LET p == get_proof_by_hash(leaf_hashes[i], sths[k].tree_size)
       IN /\ p.ok /\ p.index = i - 1
          /\ verify_audit_path(log.hash, p.index, sths[k].tree_size, leaf_hashes[i], p.path, sths[k].root_hash)
  /\ \A k \in 1..Len(sths) : \A m \in 1..k :
       sths[m].tree_size > 0 =>
         verify_consistency(log.hash, sths[m].tree_size, sths[k].tree_size, sths[m].root_hash, sths[k].root_hash,
                            get_sth_consistency(sths[m].tree_size, sths[k].tree_size))
  /\ entries # <<>> =>
       LET e == get_entries(0, Len(entries) - 1)
       IN e.ok /\ \A i \in 1..Len(entries) : leaf_hash(log.hash, e.leaf_inputs[i]) = leaf_hashes[i]
=============================================================================
