---------------------------- MODULE CipherBlocks ----------------------------
(***************************************************************************)
(* Bytes, blocks and buffers as the cipher modes see them, and the modes   *)
(* that work on one block after another.                                   *)
(*                                                                         *)
(* A byte is the set of the atoms it is the exclusive or of: a message     *)
(* byte is one atom, a byte of E(counter) is one atom, zero is the empty   *)
(* set, and XOR is the symmetric difference.  Two byte strings are equal   *)
(* in the model exactly when the code's are for every key and message (the *)
(* block cipher is opaque, which is all the modes may rely on).            *)
(***************************************************************************)
EXTENDS Integers, Sequences, FiniteSets, FiniteSetsExt, SequencesExt

CONSTANTS BLK,      \* bytes of a cipher block (16 in the code)
          CTR,      \* values of the low word of a counter block (2^32)
          None      \* no call, no tag, no change in transit

ASSUME BlocksAssumption == BLK \in Nat \ {0, 1} /\ CTR \in Nat \ {0, 1}

Message(name, n) == [i \in 1..n |-> {<<name, i>>}]

Zeros(n) == [i \in 1..n |-> {}]

Times(n) == [i \in 1..n |-> i]

\* Block number i (from 0) of d, zero-padded when d ends inside it.
Block(d, i) ==
  [j \in 1..BLK |-> IF i * BLK + j <= Len(d) THEN d[i * BLK + j] ELSE {}]

Blocks(d) == (Len(d) + BLK - 1) \div BLK

Pieces(d) == [i \in 1..Blocks(d) |-> Block(d, i - 1)]

\* d followed by the zeros that fill its last block.
Padded(d) == d \o Zeros(Blocks(d) * BLK - Len(d))

Xor(a, b) == [j \in DOMAIN a |-> SymDiff(a[j], b[j])]

-----------------------------------------------------------------------------
(* Counter blocks: <<carries out of the low word, low word>>, both relative *)
(* to the call's J0; the block cipher applied to one.                      *)

inc32_by(ctr, n) == <<ctr[1], (ctr[2] + n) % CTR>>

\* Every byte of the block takes part: the carry leaves the low word.
inc128(ctr) ==
  IF ctr[2] + 1 = CTR THEN <<ctr[1] + 1, 0>> ELSE <<ctr[1], ctr[2] + 1>>

E(ctr) == [j \in 1..BLK |-> {<<"E", ctr, j>>}]

-----------------------------------------------------------------------------
(* Buffers: the text a call reads and the buffer it writes, which are the  *)
(* same memory when the call works in place.                               *)

Memory(c) ==
  [in |-> c.text,
   out |-> IF c.inplace THEN c.text ELSE Message("old", Len(c.text)),
   inplace |-> c.inplace]

\* The bytes of b stored from offset `at` on.
Store(m, at, b) ==
  LET out == SubSeq(m.out, 1, at) \o b \o SubSeq(m.out, at + Len(b) + 1, Len(m.out))
  IN [m EXCEPT !.out = out, !.in = IF m.inplace THEN out ELSE @]

\* ct[i] = pt[i] ^ ks[i] for the n bytes from offset `at` on.
StoreXor(m, at, ks, n) ==
  Store(m, at, [j \in 1..n |-> SymDiff(m.in[at + j], ks[j])])

Smaller(a, b) == IF a <= b THEN a ELSE b

-----------------------------------------------------------------------------
(* CBC and ECB with PKCS #7 padding, of AES and of SM4.  A ciphertext is a *)
(* sequence of blocks <<x>>, the encryption of x: decrypting <<x>> gives x. *)

Number(k) == {<<"n", k>>}

pkcs7_pad(d) ==
  LET pad == BLK - (Len(d) % BLK) IN d \o [i \in 1..pad |-> Number(pad)]

Refusal == [ok |-> FALSE, out |-> <<>>]

pkcs7_unpad(d) ==
  LET pads == {k \in 1..BLK : d # <<>> /\ Last(d) = Number(k)}
  IN IF d = <<>> \/ Len(d) % BLK # 0 \/ pads = {} THEN Refusal
     ELSE LET pad == Max(pads)
          IN IF \E i \in 0..pad - 1 : d[Len(d) - i] # Number(pad) THEN Refusal
             ELSE [ok |-> TRUE, out |-> SubSeq(d, 1, Len(d) - pad)]

\* The bytes of a ciphertext block, which the next block is XORed with.
Bytes(b) == [j \in 1..BLK |-> {<<"byte", b, j>>}]

cbc_encrypt_impl(iv, d) ==
  LET p == pkcs7_pad(d)
      step(s, k) ==
        LET b == <<Xor(Block(p, k - 1), s.prev)>>
        IN [prev |-> Bytes(b), ct |-> Append(s.ct, b)]
  IN FoldLeft(step, [prev |-> iv, ct |-> <<>>], Times(Blocks(p))).ct

CbcPlain(iv, ct) ==
  FlattenSeq([k \in DOMAIN ct |->
                Xor(ct[k][1], IF k = 1 THEN iv ELSE Bytes(ct[k - 1]))])

cbc_decrypt_impl(iv, ct) == pkcs7_unpad(CbcPlain(iv, ct))

\* SM4: the last block is made from the rest of the text and the padding.
sm4_cbc_encrypt(iv, d) ==
  LET pad    == BLK - (Len(d) % BLK)
      blocks == (Len(d) + pad) \div BLK
      text(b) == IF b < blocks THEN Block(d, b - 1)
                 ELSE [j \in 1..BLK |-> IF j <= BLK - pad THEN d[(b - 1) * BLK + j]
                                        ELSE Number(pad)]
      step(s, b) ==
        LET x == <<Xor(text(b), s.prev)>>
        IN [prev |-> Bytes(x), ct |-> Append(s.ct, x)]
  IN FoldLeft(step, [prev |-> iv, ct |-> <<>>], Times(blocks)).ct

sm4_cbc_decrypt(iv, ct) ==
  IF ct = <<>> THEN Refusal
  ELSE LET d    == CbcPlain(iv, ct)
           pads == {k \in 1..BLK : Last(d) = Number(k)}
       IN IF \E pad \in pads : \A i \in Len(d) - pad + 1..Len(d) : d[i] = Number(pad)
            THEN [ok |-> TRUE, out |-> SubSeq(d, 1, Len(d) - Max(pads))]
            ELSE Refusal

aes_encrypt_ecb_pkcs7(d) == [k \in 1..Blocks(pkcs7_pad(d)) |-> <<Block(pkcs7_pad(d), k - 1)>>]

aes_decrypt_ecb_pkcs7(ct) ==
  IF ct = <<>> THEN Refusal
  ELSE pkcs7_unpad(FlattenSeq([k \in DOMAIN ct |-> ct[k][1]]))
=============================================================================
