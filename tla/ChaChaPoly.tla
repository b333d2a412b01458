----------------------------- MODULE ChaChaPoly -----------------------------
(***************************************************************************)
(* ChaCha20-Poly1305: the wide ChaCha20 back ends, the two Poly1305 states *)
(* (44-bit scalar limbs and 26-bit AVX2 limbs) between which a running     *)
(* hash moves, and the pipelined pass that encrypts one chunk while the    *)
(* previous one is authenticated.                                          *)
(*                                                                         *)
(* A ChaCha20 block is four Poly1305 blocks.  A Poly1305 value is a set of *)
(* terms <<power of r, block>>; its limb representation is left out.       *)
(***************************************************************************)
EXTENDS CipherBlocks

CONSTANTS LANES2,   \* ChaCha20 blocks the AVX2 kernel makes at once (8)
          LANES5,   \* the AVX-512 kernel (16)
          LANESN,   \* the NEON kernel (4)
          CHUNK     \* ChaCha20 blocks of one pipelined chunk (64)

QUAD == 4 * BLK     \* 64 bytes: a ChaCha20 block, four Poly1305 blocks

chacha20_block(ctr) == [j \in 1..QUAD |-> {<<"ks", ctr % CTR, j>>}]

\* n blocks at a time while they are all full, the rest one by one, over the
\* len bytes from offset `at` on.
chacha20_lanes(m, ctr, at, len, n) ==
  LET wide(s, g) ==
        [m |-> StoreXor(s.m, s.at, FlattenSeq([k \in 1..n |-> chacha20_block(s.ctr + k - 1)]),
                        n * QUAD),
         ctr |-> s.ctr + n, at |-> s.at + n * QUAD]
      one(s, k) ==
        LET chunk == Smaller(QUAD, at + len - s.at)
        IN [m |-> StoreXor(s.m, s.at, chacha20_block(s.ctr), chunk),
            ctr |-> s.ctr + 1, at |-> s.at + chunk]
      s1 == FoldLeft(wide, [m |-> m, ctr |-> ctr, at |-> at], Times(len \div (n * QUAD)))
  IN FoldLeft(one, s1, Times((at + len - s1.at + QUAD - 1) \div QUAD)).m

chacha20_crypt_avx2(m, ctr, at, len)   == chacha20_lanes(m, ctr, at, len, LANES2)
chacha20_crypt_avx512(m, ctr, at, len) == chacha20_lanes(m, ctr, at, len, LANES5)
chacha20_crypt_neon(m, ctr, at, len)   == chacha20_lanes(m, ctr, at, len, LANESN)

chacha20_crypt(c, m, ctr, at, len) ==
  CASE "avx512" \in c.feats -> chacha20_crypt_avx512(m, ctr, at, len)
    [] "avx2" \in c.feats -> chacha20_crypt_avx2(m, ctr, at, len)
    [] "neon" \in c.feats -> chacha20_crypt_neon(m, ctr, at, len)
    [] OTHER -> chacha20_lanes(m, ctr, at, len, 1)

-----------------------------------------------------------------------------
(* Poly1305.  hi is the 2^128 bit of a block.                              *)

PolyBlock(d, i) == [b |-> Block(d, i), hi |-> TRUE]

Raise(h, n) == {<<t[1] + n, t[2]>> : t \in h}

poly_add_block3(h, b) == Raise(h \cup {<<0, b>>}, 1)

\* (h + b1) r^4 + b2 r^3 + b3 r^2 + b4 r
poly_blocks4(h, d, g) ==
  UNION {Raise(h \cup {<<0, PolyBlock(d, 4 * g)>>}, 4),
         {<<3, PolyBlock(d, 4 * g + 1)>>}, {<<2, PolyBlock(d, 4 * g + 2)>>},
         {<<1, PolyBlock(d, 4 * g + 3)>>}}

poly1305_init64 == [h |-> {}, avx |-> {}, use_avx |-> FALSE]

\* The AVX2 state folds four lanes, one per block of the quad.
avx2_feed(h, d) ==
  FoldLeft(LAMBDA x, g : poly_blocks4(x, d, g - 1), h, Times(Len(d) \div QUAD))

poly1305_sync_scalar(st) ==
  IF st.use_avx THEN [st EXCEPT !.h = st.avx, !.use_avx = FALSE] ELSE st

feed_scalar(st, d) ==
  LET q    == Len(d) \div QUAD
      h1   == FoldLeft(LAMBDA x, g : poly_blocks4(x, d, g - 1), st.h, Times(q))
      one(x, k) == poly_add_block3(x, PolyBlock(d, 4 * q + k - 1))
  IN [st EXCEPT !.h = FoldLeft(one, h1, Times(Blocks(d) - 4 * q))]

\* The quads through AVX2, the hash moved there first.
feed_quads(st, d) ==
  IF d = <<>> THEN st
  ELSE [st EXCEPT !.avx = avx2_feed(IF st.use_avx THEN st.avx ELSE st.h, d), !.use_avx = TRUE]

\* Mutant: the hash of the quads stays behind in the AVX2 state.
poly1305_feed64_Stale(c, st, d) ==
  LET n64 == IF "avx2" \in c.feats THEN (Len(d) \div QUAD) * QUAD ELSE 0
      st2 == feed_quads(st, SubSeq(d, 1, n64))
  IN IF n64 > 0 /\ n64 = Len(d) THEN st2
     ELSE feed_scalar([st2 EXCEPT !.use_avx = FALSE], SubSeq(d, n64 + 1, Len(d)))

\* Full quads through AVX2; what is left, and what is shorter than a quad, in
\* scalar code, the hash moved back first.
poly1305_feed64(c, st, d) ==
  LET n64 == IF "avx2" \in c.feats THEN (Len(d) \div QUAD) * QUAD ELSE 0
      st2 == feed_quads(st, SubSeq(d, 1, n64))
  IN IF n64 > 0 /\ n64 = Len(d) THEN st2
     ELSE feed_scalar(poly1305_sync_scalar(st2), SubSeq(d, n64 + 1, Len(d)))

LenBlock(c) == [j \in 1..BLK |-> {<<"len", Len(c.aad), Len(c.text), j>>}]

\* The one-time key is ChaCha20 block 0.
poly1305_finish3(st) == [key |-> chacha20_block(0), h |-> poly1305_sync_scalar(st).h]

\* Full blocks carry the 2^128 bit, the last partial one a 1 after its bytes.
poly1305_mac(d) ==
  LET q    == Len(d) \div QUAD
      n    == Len(d) \div BLK
      h1   == FoldLeft(LAMBDA x, g : poly_blocks4(x, d, g - 1), {}, Times(q))
      one(x, k) == poly_add_block3(x, PolyBlock(d, 4 * q + k - 1))
      h2   == FoldLeft(one, h1, Times(n - 4 * q))
      rest == SubSeq(d, n * BLK + 1, Len(d))
  IN IF rest = <<>> THEN h2
     ELSE poly_add_block3(h2, [b |-> Block(Append(rest, {<<"one", 1>>}), 0), hi |-> FALSE])

-----------------------------------------------------------------------------
(* The pipelined pass: chunk k + 1 is encrypted before chunk k is hashed.   *)

\* The steps of the pass over n bytes: encrypt or hash the bytes from `at` on.
PassSteps(n) ==
  LET CH   == CHUNK * QUAD
      full == n \div CH
      Crypt(k) == [crypt |-> TRUE, at |-> k * CH, len |-> Smaller(CH, n - k * CH)]
      Hash(k)  == [Crypt(k) EXCEPT !.crypt = FALSE]
  IN (IF full = 0 THEN <<>> ELSE <<Crypt(0)>> \o FlattenSeq([k \in 1..full - 1 |-> <<Crypt(k), Hash(k - 1)>>])
                                   \o <<Hash(full - 1)>>)
     \o (IF full * CH = n THEN <<>> ELSE <<Crypt(full), Hash(full)>>)

chacha20_crypt_feed_poly(c, st) ==
  FoldLeft(LAMBDA s, o :
             IF o.crypt THEN [s EXCEPT !.m = chacha20_crypt(c, @, 1 + (o.at \div QUAD), o.at, o.len)]
             ELSE [s EXCEPT !.st = poly1305_feed64(c, @, SubSeq(s.m.out, o.at + 1, o.at + o.len))],
           [m |-> Memory(c), st |-> st], PassSteps(Len(c.text)))

chacha20_poly1305_encrypt(c) ==
  LET Sealed(s) == [ok |-> TRUE, out |-> s.m.out,
                    tag |-> poly1305_finish3(poly1305_feed64(c, s.st, LenBlock(c)))]
  IN Sealed(chacha20_crypt_feed_poly(c, poly1305_feed64(c, poly1305_init64, c.aad)))

\* Mutant: the text is decrypted before the tag is compared.
chacha20_poly1305_decrypt_Early(c) ==
  LET s1 == poly1305_feed64(c, poly1305_init64, c.aad)
      s2 == poly1305_feed64(c, s1, c.text)
      s3 == poly1305_feed64(c, s2, LenBlock(c))
  IN [ok |-> poly1305_finish3(s3) = c.tag, tag |-> c.tag,
      out |-> chacha20_crypt(c, Memory(c), 1, 0, Len(c.text)).out]

\* The tag first; then the whole text from block 1.
chacha20_poly1305_decrypt(c) ==
  LET s1 == poly1305_feed64(c, poly1305_init64, c.aad)
      s2 == poly1305_feed64(c, s1, c.text)
      s3 == poly1305_feed64(c, s2, LenBlock(c))
  IN IF poly1305_finish3(s3) # c.tag
       THEN [ok |-> FALSE, out |-> Memory(c).out, tag |-> c.tag]
       ELSE [ok |-> TRUE, tag |-> c.tag,
             out |-> chacha20_crypt(c, Memory(c), 1, 0, Len(c.text)).out]

-----------------------------------------------------------------------------
(* RFC 8439.                                                               *)

POLY(blocks) == {<<Len(blocks) - i + 1, blocks[i]>> : i \in DOMAIN blocks}

POLY1305(d) ==
  POLY([i \in 1..Blocks(d) |->
          IF i * BLK <= Len(d) THEN PolyBlock(d, i - 1)
          ELSE [b |-> Block(Append(d, {<<"one", 1>>}), i - 1), hi |-> FALSE]])

AEAD_TEXT(c) ==
  [i \in DOMAIN c.text |->
     SymDiff(c.text[i], {<<"ks", (1 + (i - 1) \div QUAD) % CTR, 1 + ((i - 1) % QUAD)>>})]

AEAD_TAG(c, ct) ==
  LET d == Padded(c.aad) \o Padded(ct) \o LenBlock(c)
  IN [key |-> chacha20_block(0), h |-> POLY([i \in 1..Blocks(d) |-> PolyBlock(d, i - 1)])]
=============================================================================
