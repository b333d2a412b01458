------------------------------ MODULE CcmModes ------------------------------
(***************************************************************************)
(* AES-CCM and SM4-CCM.  The MAC of a text is the chain of the blocks it    *)
(* has absorbed; counter blocks are <<0, n>> with n the counter field, and *)
(* <<1, n>> once a carry has left it for the nonce.                        *)
(***************************************************************************)
EXTENDS CipherBlocks

CONSTANT LONGAAD    \* AAD lengths from here on take the long prefix (0xFF00)

mac_block(mac, b) == Append(mac, b)

mac_data(mac, d) == mac \o Pieces(d)

\* B0: flags (AAD, tag length, q), nonce and the length in q bytes.
ccm_build_b0(c, taglen) ==
  [j \in 1..BLK |-> {<<"B0", c.iv, c.aad # <<>>, taglen, Len(c.text) % CTR, j>>}]

AadPrefix(aad) ==
  IF Len(aad) < LONGAAD THEN <<{<<"alen", Len(aad)>>}>>
  ELSE <<{<<"alen", "long">>}, {<<"alen", Len(aad)>>}>>

CcmTag(mac) == [mac |-> mac, ctr0 |-> <<0, 0>>]

\* One block: the MAC takes the text read or the text produced.
CcmBlock(s, ctr, from_out) ==
  LET len == Smaller(BLK, Len(s.m.in) - s.i * BLK)
      m   == StoreXor(s.m, s.i * BLK, E(ctr), len)
  IN [s EXCEPT !.m = m, !.i = @ + 1,
               !.mac = mac_block(@, Block(IF from_out THEN m.out ELSE s.m.in, s.i))]

-----------------------------------------------------------------------------
(* AES-CCM with AES-NI: MAC and CTR in one pass.                           *)

ccm_mac_aad(mac, aad) ==
  LET p     == AadPrefix(aad)
      first == Smaller(BLK - Len(p), Len(aad))
  IN mac_data(mac_block(mac, Block(p \o SubSeq(aad, 1, first), 0)),
              SubSeq(aad, first + 1, Len(aad)))

\* Four counters at a time when the counter field fits the low word (q <= 4);
\* the counter is stepped before it is used.
ccm_fused(c, from_out) ==
  LET b0   == mac_block(<<>>, ccm_build_b0(c, c.taglen))
      s0   == [m |-> Memory(c), i |-> 0, ctr |-> <<0, 0>>,
               mac |-> IF c.aad = <<>> THEN b0 ELSE ccm_mac_aad(b0, c.aad)]
      four(s, g) ==
        [FoldLeft(LAMBDA a, k : CcmBlock(a, inc32_by(s.ctr, k), from_out), s, Times(4))
           EXCEPT !.ctr = inc32_by(s.ctr, 4)]
      one(s, k) == CcmBlock([s EXCEPT !.ctr = inc32_by(@, 1)], inc32_by(s.ctr, 1), from_out)
      s1   == IF c.fast THEN FoldLeft(four, s0, Times(Len(c.text) \div (4 * BLK))) ELSE s0
  IN FoldLeft(one, s1, Times(Blocks(c.text) - s1.i))

-----------------------------------------------------------------------------
(* AES-CCM in software: the MAC in one pass, CTR in another.               *)

ccm_mac_all(c, taglen, text) ==
  LET b0 == <<ccm_build_b0(c, taglen)>>
  IN mac_data(IF c.aad = <<>> THEN b0 ELSE mac_data(b0, AadPrefix(c.aad) \o c.aad), text)

ccm_ctr_all(c) ==
  LET ks == FlattenSeq([i \in 1..Blocks(c.text) |-> E(inc32_by(<<0, 0>>, i))])
  IN StoreXor(Memory(c), 0, ks, Len(c.text))

CcmAnswer(ok, m, mac) == [ok |-> ok, out |-> m.out, tag |-> CcmTag(mac)]

TooLong(c) == Len(c.text) >= CTR

\* Encryption: the MAC before the text is overwritten.
aes_ccm_encrypt(c) ==
  IF TooLong(c) THEN [ok |-> FALSE, out |-> Memory(c).out, tag |-> None]
  ELSE IF "aesni" \in c.feats
    THEN LET s == ccm_fused(c, FALSE) IN CcmAnswer(TRUE, s.m, s.mac)
    ELSE CcmAnswer(TRUE, ccm_ctr_all(c), ccm_mac_all(c, c.taglen, c.text))

\* Decryption: the MAC over what has been decrypted, which stays in the buffer
\* when the tag is wrong.
aes_ccm_decrypt(c) ==
  IF TooLong(c) THEN [ok |-> FALSE, out |-> Memory(c).out, tag |-> None]
  ELSE IF "aesni" \in c.feats
    THEN LET s == ccm_fused(c, TRUE) IN CcmAnswer(CcmTag(s.mac) = c.tag, s.m, s.mac)
    ELSE LET m   == ccm_ctr_all(c)
             mac == ccm_mac_all(c, c.taglen, m.out)
         IN CcmAnswer(CcmTag(mac) = c.tag, m, mac)

-----------------------------------------------------------------------------
(* SM4-CCM.  The streaming MAC keeps the bytes of an unfinished block; the  *)
(* flags of B0 always say a 16-byte tag.                                    *)

mac_stream_feed(s, d) ==
  LET all == s.buf \o d
      n   == Len(all) \div BLK
  IN [mac |-> s.mac \o [k \in 1..n |-> Block(all, k - 1)],
      buf |-> SubSeq(all, n * BLK + 1, Len(all))]

mac_stream_finish(s) ==
  IF s.buf = <<>> THEN s ELSE [mac |-> mac_block(s.mac, Block(s.buf, 0)), buf |-> <<>>]

FULLTAG == 16

sm4_ccm_mac_prefix(c) ==
  LET s1 == mac_stream_feed([mac |-> <<>>, buf |-> <<>>], ccm_build_b0(c, FULLTAG))
  IN mac_stream_finish(IF c.aad = <<>> THEN s1 ELSE mac_stream_feed(mac_stream_feed(s1, AadPrefix(c.aad)), c.aad))

\* The CTR loop of the scalar code: the whole block is the counter.
sm4_ctr_crypt(m, ctr) ==
  LET step(s, k) ==
        [m |-> StoreXor(s.m, (k - 1) * BLK, E(s.ctr),
                        Smaller(BLK, Len(m.in) - (k - 1) * BLK)),
         ctr |-> inc128(s.ctr)]
  IN FoldLeft(step, [m |-> m, ctr |-> ctr], Times(Blocks(m.in))).m

\* In place: streaming MAC, then CTR (encryption) or the other way round.
sm4_ccm_encrypt_impl(c) ==
  CcmAnswer(TRUE, sm4_ctr_crypt(Memory(c), <<0, 1>>),
            mac_stream_finish(mac_stream_feed(sm4_ccm_mac_prefix(c), c.text)).mac)

sm4_ccm_decrypt_impl(c) ==
  LET m   == sm4_ctr_crypt(Memory(c), <<0, 1>>)
      mac == mac_stream_finish(mac_stream_feed(sm4_ccm_mac_prefix(c), m.out)).mac
  IN CcmAnswer(CcmTag(mac) = c.tag, m, mac)

\* Into a vector: the MAC input is put together in one buffer.
sm4_ccm_input(c, text) ==
  LET b0  == ccm_build_b0(c, FULLTAG)
      aad == IF c.aad = <<>> THEN <<>> ELSE AadPrefix(c.aad) \o c.aad
  IN Padded(Padded(b0 \o aad) \o text)

sm4_ccm_encrypt(c) ==
  CcmAnswer(TRUE, sm4_ctr_crypt(Memory(c), <<0, 1>>), Pieces(sm4_ccm_input(c, c.text)))

sm4_ccm_decrypt(c) ==
  LET m   == sm4_ctr_crypt(Memory(c), <<0, 1>>)
      mac == Pieces(sm4_ccm_input(c, m.out))
  IN CcmAnswer(CcmTag(mac) = c.tag, m, mac)

\* Eight counters from base, then one at a time; the counter field wraps.
sm4_ccm_mac_ctr_fused(c, mac, from_out) ==
  LET s0 == [m |-> Memory(c), i |-> 0, base |-> <<0, 1>>, mac |-> mac]
      eight(s, g) ==
        [FoldLeft(LAMBDA a, k : CcmBlock(a, inc32_by(s.base, k - 1), from_out), s, Times(8))
           EXCEPT !.base = inc32_by(s.base, 8)]
      one(s, k) == [CcmBlock(s, s.base, from_out) EXCEPT !.base = inc32_by(s.base, 1)]
      s1 == FoldLeft(eight, s0, Times(Len(c.text) \div (8 * BLK)))
  IN FoldLeft(one, s1, Times(Blocks(c.text) - s1.i))

sm4_ccm_encrypt_gfni(c) ==
  LET s == sm4_ccm_mac_ctr_fused(c, sm4_ccm_mac_prefix(c).mac, FALSE)
  IN CcmAnswer(TRUE, s.m, s.mac)

sm4_ccm_decrypt_gfni(c) ==
  LET s == sm4_ccm_mac_ctr_fused(c, sm4_ccm_mac_prefix(c).mac, TRUE)
  IN CcmAnswer(CcmTag(s.mac) = c.tag, s.m, s.mac)

sm4_ccm_detect_best(c) == ~c.raced /\ {"gfni", "avx2"} \subseteq c.feats

sm4_ccm_encrypt_auto(c) ==
  IF sm4_ccm_detect_best(c) THEN sm4_ccm_encrypt_gfni(c)
  ELSE IF c.inplace THEN sm4_ccm_encrypt_impl(c) ELSE sm4_ccm_encrypt(c)

sm4_ccm_decrypt_auto(c) ==
  IF sm4_ccm_detect_best(c) THEN sm4_ccm_decrypt_gfni(c)
  ELSE IF c.inplace THEN sm4_ccm_decrypt_impl(c) ELSE sm4_ccm_decrypt(c)

-----------------------------------------------------------------------------
(* CCM as RFC 3610 defines it.                                             *)

CCM_MAC(c) ==
  <<ccm_build_b0(c, c.taglen)>>
    \o (IF c.aad = <<>> THEN <<>> ELSE Pieces(AadPrefix(c.aad) \o c.aad))
    \o Pieces(c.text)

CCM_TEXT(c) ==
  [i \in DOMAIN c.text |->
     SymDiff(c.text[i], {<<"E", <<0, 1 + (i - 1) \div BLK>>, 1 + ((i - 1) % BLK)>>})]
=============================================================================
