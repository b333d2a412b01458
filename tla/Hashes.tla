-------------------------------- MODULE Hashes -------------------------------
(***************************************************************************)
(* The hash functions, HMAC and HKDF: how a message that arrives in pieces *)
(* is cut into blocks, padded and extracted.  A compression function is    *)
(* opaque: the chaining value is the sequence of the blocks compressed.    *)
(***************************************************************************)
EXTENDS CipherBlocks

CONSTANTS HB,       \* bytes of a block of SHA-1, SHA-2 and SM3 (64 or 128)
          LB,       \* bytes of the length field that ends the padding (8 or 16)
          RATE,     \* bytes of a block of SHA-3 and SHAKE (72, 104, 136 or 168)
          DIG,      \* bytes of a digest
          COUNT     \* values of the block counter of HKDF-Expand (256)

ASSUME HashesAssumption ==
  /\ {HB, LB, RATE, DIG, COUNT} \subseteq Nat \ {0}
  /\ LB + 1 < HB /\ RATE > 1

From(d, i) == SubSeq(d, i + 1, Len(d))

LengthField(n) == [j \in 1..LB |-> {<<"bits", n, j>>}]

Digest(h) == [j \in 1..DIG |-> {<<"digest", h, j>>}]

-----------------------------------------------------------------------------
(* The compression functions of each back end.                             *)

sha1_transform_scalar(h, b)  == Append(h, b)
sha1_transform_neon(h, b)    == Append(h, b)
sha256_transform_scalar(h, b) == Append(h, b)
sha256_transform_neon(h, b)  == Append(h, b)
sha256_transform_sha_ni(h, b) == Append(h, b)
sha512_transform_cpu(h, b)   == Append(h, b)
sha512_transform_opt(h, b)   == Append(h, b)
sha512_transform_neon(h, b)  == Append(h, b)
sm3_cf_neon(h, b)            == Append(h, b)

sha1_transform(c, h, b) ==
  IF "arm_sha1" \in c.feats THEN sha1_transform_neon(h, b) ELSE sha1_transform_scalar(h, b)

sha256_transform(c, h, b) ==
  IF "arm_sha2" \in c.feats THEN sha256_transform_neon(h, b) ELSE sha256_transform_scalar(h, b)

\* The pointer the static initialisers leave, in whichever order they run.
sha512_transform_ptr(c, h, b) ==
  IF "arm_sha512" \in c.feats THEN sha512_transform_neon(h, b)
  ELSE IF "avx2" \in c.feats THEN sha512_transform_opt(h, b)
  ELSE sha512_transform_cpu(h, b)

sm3_cf(c, h, b) == IF "arm_sm3" \in c.feats THEN sm3_cf_neon(h, b) ELSE Append(h, b)

Compress(c, h, b) ==
  CASE c.alg = "sha1" -> sha1_transform(c, h, b)
    [] c.alg = "sha256" -> sha256_transform(c, h, b)
    [] c.alg = "sha512" -> sha512_transform_ptr(c, h, b)
    [] c.alg = "sm3" -> sm3_cf(c, h, b)

\* The n whole blocks of d compressed one after the other.
CompressAll(c, h, d, n) ==
  FoldLeft(LAMBDA v, k : Compress(c, v, SubSeq(d, (k - 1) * HB + 1, k * HB)), h, Times(n))

-----------------------------------------------------------------------------
(* Streaming: SHA-1, SHA-256, SHA-384/512 and SM3.                         *)

Fresh == [h |-> <<>>, len |-> 0, buf |-> <<>>]

sha1_init == Fresh
sha256_init == Fresh
sha512_init == Fresh
sm3_init == Fresh

\* A piece that does not complete the buffer is appended to it; any other one
\* completes it, and the rest goes through without being copied.
UpdateStream(c, s, d) ==
  LET off == HB - Len(s.buf)
      n   == (Len(d) - off) \div HB
      h1  == Compress(c, s.h, s.buf \o SubSeq(d, 1, off))
  IN IF d = <<>> THEN s
     ELSE IF Len(s.buf) + Len(d) < HB
            THEN [s EXCEPT !.len = @ + Len(d), !.buf = @ \o d]
            ELSE [h |-> CompressAll(c, h1, From(d, off), n), len |-> s.len + Len(d),
                  buf |-> From(d, off + n * HB)]

sha1_update(c, s, d)   == UpdateStream(c, s, d)
sha256_update(c, s, d) == UpdateStream(c, s, d)
sha512_update(c, s, d) == UpdateStream(c, s, d)

\* SM3 fills the buffer first, whether or not the piece completes it.
sm3_update(c, s, d) ==
  LET copy == IF s.buf = <<>> THEN 0 ELSE Smaller(HB - Len(s.buf), Len(d))
      buf1 == s.buf \o SubSeq(d, 1, copy)
      full == Len(buf1) = HB
      h1   == IF full THEN Compress(c, s.h, buf1) ELSE s.h
      rest == From(d, copy)
      n    == Len(rest) \div HB
      tail == From(rest, n * HB)
  IN IF d = <<>> THEN s
     ELSE [h |-> CompressAll(c, h1, rest, n), len |-> s.len + Len(d),
           buf |-> IF tail # <<>> THEN tail ELSE IF full THEN <<>> ELSE buf1]

\* Mutant: the padding starts a second block only when the marker fills the first.
FinishStream_Late(c, s) ==
  LET b  == Append(s.buf, Number(128))
      h1 == IF Len(b) >= HB THEN Compress(c, s.h, SubSeq(b \o Zeros(HB), 1, HB)) ELSE s.h
      b1 == IF Len(b) >= HB THEN <<>> ELSE b
  IN Compress(c, h1, SubSeq(b1 \o Zeros(HB), 1, HB - LB) \o LengthField(s.len))

\* 0x80, zeros, and the length: in a second block when it does not fit.
FinishStream(c, s) ==
  LET b  == Append(s.buf, Number(128))
      h1 == IF Len(b) > HB - LB THEN Compress(c, s.h, b \o Zeros(HB - Len(b))) ELSE s.h
      b1 == IF Len(b) > HB - LB THEN <<>> ELSE b
  IN Compress(c, h1, b1 \o Zeros(HB - LB - Len(b1)) \o LengthField(s.len))

sha1_finalize_tail(c, s) == FinishStream(c, s)
sha256_final(c, s) == FinishStream(c, s)
sha512_final(c, s) == FinishStream(c, s)
sm3_final(c, s)    == FinishStream(c, s)

\* init, one update per piece, final.
sha1(c, pieces)   == sha1_finalize_tail(c, FoldLeft(LAMBDA s, d : sha1_update(c, s, d), sha1_init, pieces))
sha256(c, pieces) == sha256_final(c, FoldLeft(LAMBDA s, d : sha256_update(c, s, d), sha256_init, pieces))
sha512(c, pieces) == sha512_final(c, FoldLeft(LAMBDA s, d : sha512_update(c, s, d), sha512_init, pieces))
sm3(c, pieces)    == sm3_final(c, FoldLeft(LAMBDA s, d : sm3_update(c, s, d), sm3_init, pieces))

HashStream(c, pieces) ==
  CASE c.alg = "sha1" -> sha1(c, pieces)
    [] c.alg = "sha256" -> sha256(c, pieces)
    [] c.alg = "sha512" -> sha512(c, pieces)
    [] c.alg = "sm3" -> sm3(c, pieces)

-----------------------------------------------------------------------------
(* One call: SHA-256 with the SHA extensions, SHA-1 of many messages.      *)

sha256_sha_ni(d) ==
  LET n    == Len(d) \div HB
      h1   == FoldLeft(LAMBDA v, k : sha256_transform_sha_ni(v, SubSeq(d, (k - 1) * HB + 1, k * HB)),
                       <<>>, Times(n))
      b    == Append(From(d, n * HB), Number(128))
      h2   == IF Len(b) > HB - LB THEN sha256_transform_sha_ni(h1, b \o Zeros(HB - Len(b))) ELSE h1
      b1   == IF Len(b) > HB - LB THEN <<>> ELSE b
  IN sha256_transform_sha_ni(h2, b1 \o Zeros(HB - LB - Len(b1)) \o LengthField(Len(d)))

\* The last one or two blocks of a message with r bytes left, in one buffer.
sha1_pad_block(rest, n) ==
  LET r == Len(rest)
  IN IF r < HB - LB
       THEN Append(rest, Number(128)) \o Zeros(HB - LB - 1 - r) \o LengthField(n)
       ELSE Append(rest, Number(128)) \o Zeros(HB - 1 - r) \o Zeros(HB - LB) \o LengthField(n)

sha1_block8_avx2(hs, blks)    == [m \in DOMAIN hs |-> Append(hs[m], blks[m])]
sha1_block16_avx512(hs, blks) == [m \in DOMAIN hs |-> Append(hs[m], blks[m])]

sha1_multi_avx2(msgs) ==
  LET len   == Len(msgs[1])
      off   == len \div HB
      r     == len - off * HB
      tail  == [m \in DOMAIN msgs |-> sha1_pad_block(From(msgs[m], off * HB), len)]
      whole == FoldLeft(LAMBDA hs, k :
                          sha1_block8_avx2(hs, [m \in DOMAIN msgs |-> SubSeq(msgs[m], (k - 1) * HB + 1, k * HB)]),
                        [m \in DOMAIN msgs |-> <<>>], Times(off))
      first == sha1_block8_avx2(whole, [m \in DOMAIN msgs |-> SubSeq(tail[m], 1, HB)])
  IN IF r >= HB - LB
       THEN sha1_block8_avx2(first, [m \in DOMAIN msgs |-> From(tail[m], HB)]) ELSE first

sha1_multi_avx512(msgs) == sha1_multi_avx2(msgs)

\* Groups of LANES5 messages, then of LANES2, then one at a time.
sha1_batch(c, msgs, wide5, wide2) ==
  LET n     == Len(msgs)
      i5    == IF "avx512" \in c.feats THEN (n \div wide5) * wide5 ELSE 0
      i2    == IF "avx2" \in c.feats THEN i5 + ((n - i5) \div wide2) * wide2 ELSE i5
      Group(k, w, at) == SubSeq(msgs, at + (k - 1) * w + 1, at + k * w)
  IN FlattenSeq([k \in 1..(i5 \div wide5) |-> sha1_multi_avx512(Group(k, wide5, 0))])
       \o FlattenSeq([k \in 1..((i2 - i5) \div wide2) |-> sha1_multi_avx2(Group(k, wide2, i5))])
       \o [k \in 1..(n - i2) |-> sha1(c, <<msgs[i2 + k]>>)]

-----------------------------------------------------------------------------
(* SHA-3 and SHAKE.  The state is the sequence of the blocks absorbed; a   *)
(* sponge that is squeezed also has its number of further permutations.    *)

keccak_f1600_scalar(st, b) == Append(st, b)
keccak_f1600_neon(st, b)   == Append(st, b)

keccak_f1600_ptr(c, st, b) ==
  IF "arm_sha3" \in c.feats THEN keccak_f1600_neon(st, b) ELSE keccak_f1600_scalar(st, b)

sha3_init == [st |-> <<>>, buf |-> <<>>, out |-> None, off |-> 0]

sha3_update(c, s, d) ==
  LET copy == IF s.buf = <<>> THEN 0 ELSE Smaller(RATE - Len(s.buf), Len(d))
      buf1 == s.buf \o SubSeq(d, 1, copy)
      full == Len(buf1) = RATE
      st1  == IF full THEN keccak_f1600_ptr(c, s.st, buf1) ELSE s.st
      rest == From(d, copy)
      n    == Len(rest) \div RATE
      tail == From(rest, n * RATE)
  IN [s EXCEPT !.st = FoldLeft(LAMBDA v, k : keccak_f1600_ptr(c, v, SubSeq(rest, (k - 1) * RATE + 1, k * RATE)),
                               st1, Times(n)),
               !.buf = IF tail # <<>> THEN tail ELSE IF full THEN <<>> ELSE buf1]

shake_update(c, s, d) == sha3_update(c, s, d)

\* The marker goes after the message and 0x80 into the last byte, over the
\* marker when the message leaves one byte only.
SpongePad(buf, marker) ==
  LET b == Append(buf, Number(marker))
  IN [(b \o Zeros(RATE - Len(b))) EXCEPT ![RATE] = Number(128)]

sha3_final(c, s) == keccak_f1600_ptr(c, s.st, SpongePad(s.buf, 6))

shake_pad_and_permute(c, s) ==
  [s EXCEPT !.st = keccak_f1600_ptr(c, @, SpongePad(s.buf, 31)), !.out = 0, !.off = 0]

\* Byte j of the state after the absorbed blocks and p more permutations.
Squeezed(st, p, j) == {<<"squeeze", st, p, j>>}

\* n more bytes of output: [s |-> the sponge, out |-> the bytes].
shake_squeeze(c, s, n) ==
  LET s0 == IF s.out = None THEN shake_pad_and_permute(c, s) ELSE s
      step(a, k) ==
        LET again == a.s.off >= RATE
            p     == IF again THEN a.s.out + 1 ELSE a.s.out
            off   == IF again THEN 0 ELSE a.s.off
            m     == Smaller(RATE - off, n - Len(a.out))
        IN IF Len(a.out) = n THEN a
           ELSE [s |-> [a.s EXCEPT !.out = p, !.off = off + m],
                 out |-> a.out \o [j \in 1..m |-> Squeezed(a.s.st, p, off + j)]]
  IN FoldLeft(step, [s |-> s0, out |-> <<>>], Times(n))

sha3(c, pieces) ==
  sha3_final(c, FoldLeft(LAMBDA s, d : sha3_update(c, s, d), sha3_init, pieces))

\* All the bytes of the squeezes, one after the other.
shake(c, pieces, squeezes) ==
  LET s == FoldLeft(LAMBDA t, d : shake_update(c, t, d), sha3_init, pieces)
      more(a, n) == LET b == shake_squeeze(c, a.s, n) IN [s |-> b.s, out |-> a.out \o b.out]
  IN FoldLeft(more, [s |-> s, out |-> <<>>], squeezes).out

-----------------------------------------------------------------------------
(* HMAC and HKDF.                                                          *)

HmacPad(key, n) == Xor(key \o Zeros(HB - Len(key)), [j \in 1..HB |-> Number(n)])

\* The key as it is, or its hash when it is longer than a block, around both hashes.
HmacWith(Hash(_), key, msg) ==
  LET Twice(k) == Hash(<<HmacPad(k, 92), Hash(<<HmacPad(k, 54), msg>>)>>)
  IN Twice(IF Len(key) > HB THEN Hash(<<key>>) ELSE key)

hmac_sha256(c, key, msg) ==
  HmacWith(LAMBDA p : Digest(IF "sha_ni" \in c.feats THEN sha256_sha_ni(FlattenSeq(p)) ELSE sha256(c, p)), key, msg)

hmac_sha384(c, key, msg) == HmacWith(LAMBDA p : Digest(sha512(c, p)), key, msg)

hmac_sm3(c, key, msg) == HmacWith(LAMBDA p : Digest(sm3(c, p)), key, msg)

hmac(c, key, msg) ==
  CASE c.alg = "sha256" -> hmac_sha256(c, key, msg)
    [] c.alg = "sha512" -> hmac_sha384(c, key, msg)
    [] c.alg = "sm3" -> hmac_sm3(c, key, msg)

SaltOf(salt) == IF salt = <<>> THEN Zeros(DIG) ELSE salt

\* The blocks T(1), T(2), ..., of which n bytes are kept; the counter is one byte.
ExpandWith(Mac(_), info, n) ==
  LET extend(s, t) == [t |-> t, counter |-> (s.counter + 1) % COUNT,
                       out |-> s.out \o SubSeq(t, 1, Smaller(DIG, n - Len(s.out)))]
      step(s, k)   == extend(s, Mac(s.t \o info \o <<Number(s.counter)>>))
  IN FoldLeft(step, [t |-> <<>>, counter |-> 1, out |-> <<>>], Times((n + DIG - 1) \div DIG)).out

hkdf_extract(c, salt, ikm) == hmac_sha256(c, SaltOf(salt), ikm)
hkdf_expand(c, prk, info, n) == ExpandWith(LAMBDA m : hmac_sha256(c, prk, m), info, n)
hkdf_extract_sha384(c, salt, ikm) == hmac_sha384(c, SaltOf(salt), ikm)
hkdf_expand_sha384(c, prk, info, n) == ExpandWith(LAMBDA m : hmac_sha384(c, prk, m), info, n)
hkdf_extract_sm3(c, salt, ikm) == hmac_sm3(c, SaltOf(salt), ikm)
hkdf_expand_sm3(c, prk, info, n) == ExpandWith(LAMBDA m : hmac_sm3(c, prk, m), info, n)

hkdf(c, salt, ikm, info, n) ==
  CASE c.alg = "sha256" -> hkdf_expand(c, hkdf_extract(c, salt, ikm), info, n)
    [] c.alg = "sha512" -> hkdf_expand_sha384(c, hkdf_extract_sha384(c, salt, ikm), info, n)
    [] c.alg = "sm3" -> hkdf_expand_sm3(c, hkdf_extract_sm3(c, salt, ikm), info, n)

-----------------------------------------------------------------------------
(* The standards: FIPS 180-4 and GB/T 32905, FIPS 202, RFC 2104, RFC 5869. *)

MD(d) ==
  LET k == CHOOSE z \in 0..HB - 1 : (Len(d) + 1 + z + LB) % HB = 0
      p == d \o <<Number(128)>> \o Zeros(k) \o LengthField(Len(d))
  IN [i \in 1..(Len(p) \div HB) |-> SubSeq(p, (i - 1) * HB + 1, i * HB)]

\* pad10*1 after the suffix: both in one byte when one byte is left.
SPONGE(d, marker) ==
  LET k == RATE - (Len(d) % RATE)
      p == d \o (IF k = 1 THEN <<SymDiff(Number(marker), Number(128))>>
                 ELSE <<Number(marker)>> \o Zeros(k - 2) \o <<Number(128)>>)
  IN [i \in 1..(Len(p) \div RATE) |-> SubSeq(p, (i - 1) * RATE + 1, i * RATE)]

XOF(d, n) ==
  [j \in 1..n |-> Squeezed(SPONGE(d, 31), (j - 1) \div RATE, ((j - 1) % RATE) + 1)]

HMAC(key, msg) ==
  LET k == IF Len(key) > HB THEN Digest(MD(key)) ELSE key
  IN Digest(MD(HmacPad(k, 92) \o Digest(MD(HmacPad(k, 54) \o msg))))

\* T(1) .. T(k), for k below COUNT.
HKDF_T(prk, info, k) ==
  LET T[i \in 0..k] == IF i = 0 THEN <<>> ELSE HMAC(prk, T[i - 1] \o info \o <<Number(i)>>)
  IN FlattenSeq([i \in 1..k |-> T[i]])

HKDF(salt, ikm, info, n) ==
  SubSeq(HKDF_T(HMAC(IF salt = <<>> THEN Zeros(DIG) ELSE salt, ikm), info, (n + DIG - 1) \div DIG), 1, n)
=============================================================================
