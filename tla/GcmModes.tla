------------------------------ MODULE GcmModes ------------------------------
(***************************************************************************)
(* AES-GCM and SM4-GCM: the software back end, the vector back ends that   *)
(* encrypt and authenticate several blocks at a time, and the dispatch     *)
(* between them.                                                           *)
(*                                                                         *)
(* A call is a record: iv, lo (the low word the hash of a long IV has),    *)
(* aad, text, tag, inplace, and the features of the CPU.  An answer is     *)
(* [ok, out, tag].  A GHASH value is a polynomial in H: a set of terms     *)
(* <<power of H, byte of the block, atom>>.                                *)
(***************************************************************************)
EXTENDS CipherBlocks

CONSTANT IVLEN      \* length of an IV that is used as it is (12)

Terms(b) == UNION {{<<0, j, a>> : a \in b[j]} : j \in 1..BLK}

\* x times H^n: the table, PCLMULQDQ and PMULL multiplications alike.
gf128_mul(x, n) == {<<t[1] + n, t[2], t[3]>> : t \in x}

ghash_core(y, b) == gf128_mul(SymDiff(y, Terms(b)), 1)

ghash(y, d) == FoldLeft(ghash_core, y, Pieces(d))

LengthBlock(a, n) == [j \in 1..BLK |-> {<<"len", a, n, j>>}]

-----------------------------------------------------------------------------
(* The streaming hash of ghash_init, ghash_update, ghash_final.            *)

Absorb(s, b) == [s EXCEPT !.state = ghash_core(@, b)]

ghash_update(s, d) ==
  LET take == IF s.buf = <<>> THEN 0 ELSE Smaller(Len(d), BLK - Len(s.buf))
      buf  == s.buf \o SubSeq(d, 1, take)
      full == Len(buf) = BLK
      s1   == IF take = 0 THEN s
              ELSE IF full THEN Absorb([s EXCEPT !.buf = <<>>], buf)
              ELSE [s EXCEPT !.buf = buf]
      rest == SubSeq(d, take + 1, Len(d))
      n    == Len(rest) \div BLK
      s2   == FoldLeft(LAMBDA s3, k : Absorb(s3, Block(rest, k - 1)), s1, Times(n))
  IN IF rest = <<>> THEN s1
     ELSE IF Len(rest) % BLK = 0 THEN s2
     ELSE [s2 EXCEPT !.buf = SubSeq(rest, n * BLK + 1, Len(rest))]

ghash_final(s) == IF s.buf = <<>> THEN s.state ELSE Absorb(s, Block(s.buf, 0)).state

\* GHASH of AAD and data, each zero-padded, and their lengths.
gcm_ghash(aad, data) ==
  LET s1 == ghash_update([state |-> {}, buf |-> <<>>], aad)
      s2 == IF Len(aad) % BLK # 0
              THEN ghash_update(s1, Zeros(BLK - (Len(aad) % BLK))) ELSE s1
      s3 == ghash_update(s2, data)
      s4 == IF Len(data) % BLK # 0
              THEN ghash_update(s3, Zeros(BLK - (Len(data) % BLK))) ELSE s3
  IN ghash_final(ghash_update(s4, LengthBlock(Len(aad), Len(data))))

-----------------------------------------------------------------------------
(* Several blocks per multiplication: (y + b1) H^n + b2 H^(n-1) + ... bn H. *)

ghash_lanes(y, bs) ==
  LET n == Len(bs)
      x(k) == IF k = 1 THEN SymDiff(y, Terms(bs[1])) ELSE Terms(bs[k])
  IN FoldLeft(LAMBDA s, k : SymDiff(s, gf128_mul(x(k), n - k + 1)), {}, Times(n))

\* Full groups of n blocks by the aggregated step, the rest one by one.
ghash_bulk(y, d, n) ==
  LET group(s, g) ==
        ghash_lanes(s, [k \in 1..n |-> Block(d, (g - 1) * n + k - 1)])
      groups == Len(d) \div (n * BLK)
  IN ghash(FoldLeft(group, y, Times(groups)), SubSeq(d, groups * n * BLK + 1, Len(d)))

\* J0: its value, and its counter (relative to itself).
build_j0(c) ==
  IF Len(c.iv) = IVLEN
    THEN [value |-> {<<0, 0, c.iv>>}, ctr |-> <<0, 1>>]
    ELSE [value |-> ghash_core(ghash({}, c.iv), LengthBlock(0, Len(c.iv))),
          ctr |-> <<0, c.lo>>]

Tag(c, j0, y) ==
  [j0 |-> j0.value,
   s |-> SymDiff(ghash_core(y, LengthBlock(Len(c.aad), Len(c.text))),
                 Terms(E(j0.ctr)))]

-----------------------------------------------------------------------------
(* The CTR loops.  s is [m, i, ctrs, y, ct]: the buffers, the block reached,*)
(* the counters, the hash so far and the blocks produced last.             *)

Lanes(ctr, n) == [k \in 1..n |-> inc32_by(ctr, k)]

Advance(ctrs, n) == [k \in DOMAIN ctrs |-> inc32_by(ctrs[k], n)]

\* Every counter of ctrs encrypted and XORed into the next blocks: the wide
\* kernels (2 x 4, 4 x 2 or 4 blocks in registers) and the single block.
CtrGroup(s) ==
  LET n   == Len(s.ctrs)
      len == Smaller(n * BLK, Len(s.m.in) - s.i * BLK)
      ks  == FlattenSeq([k \in 1..n |-> E(s.ctrs[k])])
      m   == StoreXor(s.m, s.i * BLK, ks, len)
  IN [s EXCEPT !.m = m, !.i = @ + n,
               !.ct = [k \in 1..n |-> Block(m.out, s.i + k - 1)]]

HashGroup(s) == [s EXCEPT !.y = ghash_lanes(@, s.ct)]

AdvanceAll(s) == [s EXCEPT !.ctrs = Advance(@, Len(@))]

Started(c, j0, n, y) ==
  [m |-> Memory(c), i |-> 0, ctrs |-> Lanes(j0.ctr, n), y |-> y, ct |-> <<>>]

\* The blocks after the last full group, one by one from inc(J0, i + 1).
RestOfBlocks(s, j0, hashed) ==
  LET step(a, k) == LET b == CtrGroup(a)
                    IN AdvanceAll(IF hashed THEN HashGroup(b) ELSE b)
  IN FoldLeft(step, [s EXCEPT !.ctrs = <<inc32_by(j0.ctr, s.i + 1)>>],
              Times(Blocks(s.m.in) - s.i))

Groups(c, n) == Times(Len(c.text) \div (n * BLK))

Sealed(c, j0, s) == [ok |-> TRUE, out |-> s.m.out, tag |-> Tag(c, j0, s.y)]

Refused(c, s) == [ok |-> FALSE, out |-> s.m.out, tag |-> c.tag]

Opened(c, s) == [ok |-> TRUE, out |-> s.m.out, tag |-> c.tag]

(* A vector back end: the blocks one GHASH step takes and the blocks one    *)
(* pass of its CTR kernel takes.                                            *)
Vaes   == [hash |-> 4, ctr |-> 8]
Avx2   == [hash |-> 4, ctr |-> 4]
Avx512 == [hash |-> 8, ctr |-> 8]
Neon   == [hash |-> 4, ctr |-> 4]

\* Each group is hashed as it is produced.
EncryptInLanes(c, b) ==
  LET j0 == build_j0(c)
      s0 == Started(c, j0, b.ctr, ghash_bulk({}, c.aad, b.hash))
      step(s, k) == AdvanceAll(HashGroup(CtrGroup(s)))
  IN Sealed(c, j0, RestOfBlocks(FoldLeft(step, s0, Groups(c, b.ctr)), j0, TRUE))

\* The tag first, then CTR: a refused text is not decrypted.
DecryptInLanes(c, b) ==
  LET j0 == build_j0(c)
      y  == ghash_bulk(ghash_bulk({}, c.aad, b.hash), c.text, b.hash)
      s0 == Started(c, j0, b.ctr, y)
      step(s, k) == AdvanceAll(CtrGroup(s))
  IN IF Tag(c, j0, y) # c.tag THEN Refused(c, s0)
     ELSE Opened(c, RestOfBlocks(FoldLeft(step, s0, Groups(c, b.ctr)), j0, FALSE))

aes_gcm_encrypt_avx2(c) == EncryptInLanes(c, Avx2)
aes_gcm_decrypt_avx2(c) == DecryptInLanes(c, Avx2)
aes_gcm_encrypt_avx512(c) == EncryptInLanes(c, Avx512)
aes_gcm_decrypt_avx512(c) == DecryptInLanes(c, Avx512)
aes_gcm_encrypt_neon(c) == EncryptInLanes(c, Neon)
aes_gcm_decrypt_neon(c) == DecryptInLanes(c, Neon)

\* The group of eight hashed as two groups of four.
HashHalves(s) ==
  [s EXCEPT !.y = ghash_lanes(ghash_lanes(@, SubSeq(s.ct, 1, Vaes.hash)),
                              SubSeq(s.ct, Vaes.hash + 1, Vaes.ctr))]

\* Software pipelining: a group is hashed while the next one is encrypted.
aes_gcm_encrypt_vaes(c) ==
  LET j0 == build_j0(c)
      n  == Len(c.text) \div (Vaes.ctr * BLK)
      s0 == Started(c, j0, Vaes.ctr, ghash_bulk({}, c.aad, Vaes.hash))
      step(s, k) == CtrGroup(AdvanceAll(HashHalves(s)))
      s1 == IF n = 0 THEN s0
            ELSE HashHalves(FoldLeft(step, CtrGroup(s0), Times(n - 1)))
  IN Sealed(c, j0, RestOfBlocks(s1, j0, TRUE))

aes_gcm_decrypt_vaes(c) == DecryptInLanes(c, Vaes)

-----------------------------------------------------------------------------
(* The software back end: all the keystream, then the hash of one buffer.  *)
(* Working in place goes through a copy.                                   *)

gcm_ctr(c, j0) ==
  LET ks == FlattenSeq([i \in 1..Blocks(c.text) |-> E(inc32_by(j0.ctr, i))])
  IN StoreXor(Memory(c), 0, ks, Len(c.text))

gcm_hash_input(c, d) == Padded(c.aad) \o Padded(d)

aes_gcm_encrypt(c) ==
  LET j0 == build_j0(c)
      m  == gcm_ctr(c, j0)
  IN [ok |-> TRUE, out |-> m.out, tag |-> Tag(c, j0, ghash({}, gcm_hash_input(c, m.out)))]

aes_gcm_decrypt(c) ==
  LET j0 == build_j0(c)
  IN IF Tag(c, j0, ghash({}, gcm_hash_input(c, c.text))) # c.tag
       THEN Refused(c, [m |-> Memory(c)])
       ELSE Opened(c, [m |-> gcm_ctr(c, j0)])

-----------------------------------------------------------------------------
(* Dispatch on the CPU's features.  A thread that finds g_auto_checked set  *)
(* before the detecting thread has stored the level reads level 0.         *)

detect_best(c) ==
  CASE c.raced -> "software"
    [] {"arm_aes", "arm_pmull"} \subseteq c.feats -> "neon"
    [] {"avx512", "vpclmulqdq_vaes"} \subseteq c.feats -> "avx512"
    [] {"avx2", "vpclmulqdq_vaes", "aesni"} \subseteq c.feats -> "vaes"
    [] {"avx2", "pclmulqdq", "aesni"} \subseteq c.feats -> "avx2"
    [] OTHER -> "software"

aes_gcm_encrypt_auto(c) ==
  LET level == detect_best(c)
  IN CASE level = "neon" -> aes_gcm_encrypt_neon(c)
       [] level = "avx512" -> aes_gcm_encrypt_avx512(c)
       [] level = "vaes" -> aes_gcm_encrypt_vaes(c)
       [] level = "avx2" -> aes_gcm_encrypt_avx2(c)
       [] OTHER -> aes_gcm_encrypt(c)

aes_gcm_decrypt_auto(c) ==
  LET level == detect_best(c)
  IN CASE level = "neon" -> aes_gcm_decrypt_neon(c)
       [] level = "avx512" -> aes_gcm_decrypt_avx512(c)
       [] level = "vaes" -> aes_gcm_decrypt_vaes(c)
       [] level = "avx2" -> aes_gcm_decrypt_avx2(c)
       [] OTHER -> aes_gcm_decrypt(c)

-----------------------------------------------------------------------------
(* SM4-GCM: CTR first or last over the whole text, the hash by itself.     *)

sm4_gcm_ctr_start(c, j0) ==
  IF Len(c.iv) = IVLEN THEN inc32_by(j0.ctr, 1) ELSE inc128(j0.ctr)

\* The scalar loop carries through all sixteen bytes of the counter.
sm4_ctr_xor(m, ctr) ==
  LET step(s, k) ==
        [m |-> StoreXor(s.m, (k - 1) * BLK, E(s.ctr),
                        Smaller(BLK, Len(m.in) - (k - 1) * BLK)),
         ctr |-> inc128(s.ctr)]
  IN FoldLeft(step, [m |-> m, ctr |-> ctr], Times(Blocks(m.in))).m

\* Eight counters at a time, the rest one by one from the first of them; all
\* of them count in the low word only.
sm4_ctr_gfni(m, ctr) ==
  LET s0 == [m |-> m, i |-> 0, y |-> {}, ct |-> <<>>,
             ctrs |-> [k \in 1..8 |-> inc32_by(ctr, k - 1)]]
      step(s, k) == AdvanceAll(CtrGroup(s))
      s1 == FoldLeft(step, s0, Times(Len(m.in) \div (8 * BLK)))
  IN FoldLeft(step, [s1 EXCEPT !.ctrs = <<@[1]>>], Times(Blocks(m.in) - s1.i)).m

sm4_ctr_avx2(m, ctr) == sm4_ctr_gfni(m, ctr)

sm4_gcm_ghash(c, ct) ==
  IF "pclmulqdq" \in c.feats
    THEN ghash_bulk(ghash_bulk({}, c.aad, 4), ct, 4)
    ELSE ghash({}, Padded(c.aad) \o Padded(ct))

sm4_detect_best(c) ==
  CASE c.raced -> 0
    [] {"gfni", "avx2"} \subseteq c.feats -> 2
    [] "avx2" \in c.feats -> 1
    [] OTHER -> 0

Sm4Start(c) == sm4_gcm_ctr_start(c, build_j0(c))

Sm4Seal(c, m) ==
  [ok |-> TRUE, out |-> m.out, tag |-> Tag(c, build_j0(c), sm4_gcm_ghash(c, m.out))]

\* m, the decrypted buffers, is looked at only once the tag is right.
Sm4Open(c, m) ==
  IF Tag(c, build_j0(c), sm4_gcm_ghash(c, c.text)) # c.tag
    THEN Refused(c, [m |-> Memory(c)])
    ELSE Opened(c, [m |-> m])

sm4_gcm_encrypt(c) == Sm4Seal(c, sm4_ctr_xor(Memory(c), Sm4Start(c)))
sm4_gcm_decrypt(c) == Sm4Open(c, sm4_ctr_xor(Memory(c), Sm4Start(c)))
sm4_gcm_encrypt_gfni(c) == Sm4Seal(c, sm4_ctr_gfni(Memory(c), Sm4Start(c)))
sm4_gcm_decrypt_gfni(c) == Sm4Open(c, sm4_ctr_gfni(Memory(c), Sm4Start(c)))
sm4_gcm_encrypt_avx2(c) == Sm4Seal(c, sm4_ctr_avx2(Memory(c), Sm4Start(c)))
sm4_gcm_decrypt_avx2(c) == Sm4Open(c, sm4_ctr_avx2(Memory(c), Sm4Start(c)))

sm4_gcm_encrypt_auto(c) ==
  LET level == sm4_detect_best(c)
  IN CASE level = 2 -> sm4_gcm_encrypt_gfni(c)
       [] level = 1 -> sm4_gcm_encrypt_avx2(c)
       [] OTHER -> sm4_gcm_encrypt(c)

sm4_gcm_decrypt_auto(c) ==
  LET level == sm4_detect_best(c)
  IN CASE level = 2 -> sm4_gcm_decrypt_gfni(c)
       [] level = 1 -> sm4_gcm_decrypt_avx2(c)
       [] OTHER -> sm4_gcm_decrypt(c)

-----------------------------------------------------------------------------
(* GCM as NIST SP 800-38D defines it: the sums of powers of H written out.  *)

GHASH(blocks) ==
  LET m == Len(blocks)
  IN UNION {gf128_mul(Terms(blocks[i]), m - i + 1) : i \in 1..m}

GcmJ0(c) ==
  IF Len(c.iv) = IVLEN THEN [value |-> {<<0, 0, c.iv>>}, ctr |-> <<0, 1>>]
  ELSE [value |-> GHASH(Append(Pieces(c.iv), LengthBlock(0, Len(c.iv)))),
        ctr |-> <<0, c.lo>>]

GcmText(c) ==
  [i \in DOMAIN c.text |->
     SymDiff(c.text[i], {<<"E", inc32_by(GcmJ0(c).ctr, 1 + (i - 1) \div BLK),
                           1 + ((i - 1) % BLK)>>})]

GcmTag(c, ct) ==
  [j0 |-> GcmJ0(c).value,
   s |-> SymDiff(GHASH(Pieces(c.aad) \o Pieces(ct)
                         \o <<LengthBlock(Len(c.aad), Len(ct))>>),
                 Terms(E(GcmJ0(c).ctr)))]
=============================================================================
