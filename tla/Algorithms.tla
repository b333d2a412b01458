----------------------------- MODULE Algorithms ------------------------------
(***************************************************************************)
(* Calls of the library's algorithms, one at a time.  A call picks an      *)
(* algorithm, a CPU and the sizes of its inputs and keeps what the code    *)
(* answers; the properties compare the answer with the definition of the   *)
(* standard, or with the inverse operation.  A program calls algorithms,   *)
(* or runs a Certificate Transparency log, whose calls follow each other.  *)
(***************************************************************************)
EXTENDS GcmModes, CcmModes, ChaChaPoly, Hashes, Rsa, X509Keys, CtLog

CONSTANTS AeadCalls,    \* calls of GCM, CCM and ChaCha20-Poly1305
          PaddedCalls,  \* calls of CBC and ECB with PKCS #7
          RsaCalls,     \* calls of RSA
          HashCalls,    \* calls of the hash functions, HMAC and HKDF
          CodecCalls,   \* calls of Base64, the QUIC codecs, the DER coders and the formats of CT
          CertCalls,    \* certificates, chains, keys, requests and precertificates
          TreeCalls     \* Merkle trees

VARIABLES call,         \* the call being made, None between calls
          answer        \* what it returned

vars == <<call, answer, ctVars>>

-----------------------------------------------------------------------------
(* The bytes of a call.  The text of a decryption is what the standard's    *)
(* encryption of the message gives, changed where `tamper` says so.         *)

Flip(d) == [d EXCEPT ![1] = SymDiff(@, {<<"flip", 0>>})]

Plain(c) ==
  [iv |-> Message("iv", c.ivlen), lo |-> c.lo, aad |-> Message("aad", c.aadlen),
   text |-> Message("m", c.len), inplace |-> c.inplace, feats |-> c.feats,
   raced |-> c.raced, taglen |-> c.taglen, fast |-> c.fast, tag |-> None]

StandardText(c) ==
  CASE c.mode = "gcm" -> GcmText(Plain(c))
    [] c.mode = "ccm" -> CCM_TEXT(Plain(c))
    [] c.mode = "chacha" -> AEAD_TEXT(Plain(c))

StandardTag(c) ==
  CASE c.mode = "gcm" -> GcmTag(Plain(c), StandardText(c))
    [] c.mode = "ccm" -> CcmTag(CCM_MAC(Plain(c)))
    [] c.mode = "chacha" -> AEAD_TAG(Plain(c), StandardText(c))

WrongTag(c) ==
  CASE c.mode = "gcm" -> [StandardTag(c) EXCEPT !.s = {}]
    [] c.mode = "ccm" -> [StandardTag(c) EXCEPT !.mac = <<>>]
    [] c.mode = "chacha" -> [StandardTag(c) EXCEPT !.h = {}]

Input(c) ==
  IF c.op = "encrypt" THEN Plain(c)
  ELSE LET ct == StandardText(c)
       IN [Plain(c) EXCEPT !.text = IF c.tamper = "text" THEN Flip(ct) ELSE ct,
                           !.aad = IF c.tamper = "aad" THEN Flip(@) ELSE @,
                           !.tag = IF c.tamper = "tag" THEN WrongTag(c) ELSE StandardTag(c)]

CbcIv == Message("iv", BLK)

Numbers(s) == [i \in DOMAIN s |-> Number(s[i])]

\* The CBC encryption of a text that fills its blocks.
CbcOf(p) ==
  FoldLeft(LAMBDA ct, k : Append(ct, <<Xor(Block(p, k - 1),
                                           IF k = 1 THEN CbcIv ELSE Bytes(Last(ct)))>>),
           <<>>, Times(Blocks(p)))

EcbOf(p) == [k \in 1..Blocks(p) |-> <<Block(p, k - 1)>>]

\* The message of n bytes number k, and the pieces that sizes cut it into.
MessageOf(k, n) == Message(<<"m", k>>, n)

Total(sizes) == FoldLeft(LAMBDA a, n : a + n, 0, sizes)

PiecesOf(sizes) ==
  FoldLeft(LAMBDA a, n : [at |-> a.at + n,
                          out |-> Append(a.out, SubSeq(MessageOf(0, Total(sizes)), a.at + 1, a.at + n))],
           [at |-> 0, out |-> <<>>], sizes).out

\* The keys of a certificate call, named by their public keys; an RSA modulus
\* has its high bit set.
PublicKey(kt, id) ==
  CASE kt \in RsaTypes -> [i \in 1..rsa_mod_bytes(kt) |-> 128 + id] \o F65537
    [] OTHER -> <<4, id>>

\* The certificate the builder is given.
Draft(c) ==
  [c.fields EXCEPT !.public_key = PublicKey(c.fields.key_type, c.id)]

\* The certificate that issues it: same family as the signing key.
IssuerOf(c) == [x509_cert EXCEPT !.key_type = c.kt, !.public_key = PublicKey(c.kt, c.by)]

Issued(c) == build_and_sign(Draft(c), c.kt, PublicKey(c.kt, c.by),
                            IF c.modulus /\ c.kt \in RsaTypes
                            THEN SubSeq(PublicKey(c.kt, c.by), 1, rsa_mod_bytes(c.kt)) ELSE Absent)

\* A chain of parsed certificates out of the calls that issue them.
ChainOf(cs) == [i \in DOMAIN cs |-> from_pem(to_pem(Issued(cs[i])))]

\* A private key of PKCS #1: version, n, e, d and the CRT numbers.
RsaNumbers(k) == <<<<0>>, SubSeq(PublicKey(k.kt, 1), 1, rsa_mod_bytes(k.kt)), F65537, k.d>> \o k.crt

Pkcs1(k) == Tlv("SEQUENCE", [i \in DOMAIN RsaNumbers(k) |-> Tlv("INTEGER", IntegerBytes(RsaNumbers(k)[i]))])

Sec1(k) == Tlv("SEQUENCE", <<Tlv("INTEGER", <<1>>), Tlv("OCTET_STRING", k.d)>>
                 \o (IF k.named THEN <<Tlv("CONTEXT0", <<Oid(k.kt)>>)>> ELSE <<>>)
                 \o (IF k.point THEN <<Tlv("CONTEXT1", <<Tlv("BIT_STRING", <<0, 4>> \o PublicKey(k.kt, 1))>>)>>
                      ELSE <<>>))

Pkcs8(k) ==
  LET alg == CASE k.kt \in RsaTypes -> <<Oid("RSA_ENCRYPTION"), Null>>
               [] k.kt \in EcTypes -> <<Oid("EC_PUBLIC_KEY"), Oid(k.kt)>>
               [] OTHER -> <<Oid(k.kt)>>
      inner == CASE k.kt \in RsaTypes -> <<Pkcs1(k)>>
                 [] k.kt \in EcTypes -> <<Sec1(k)>>
                 [] OTHER -> IF k.named THEN <<Tlv("CONTEXT0", <<Tlv("OCTET_STRING", k.d)>>)>>
                             ELSE <<Tlv("OCTET_STRING", k.d)>>
  IN Tlv("SEQUENCE", <<Tlv("INTEGER", <<0>>), Tlv("SEQUENCE", alg), Tlv("OCTET_STRING", inner)>>)

KeyDer(k) == CASE k.form = "pkcs8" -> Pkcs8(k) [] k.form = "pkcs1" -> Pkcs1(k) [] k.form = "sec1" -> Sec1(k)

TheIv == [i \in 1..16 |-> 7]

\* The key d, encrypted with a password.
Encrypted(d, password, iterations, cipher) ==
  LET len == IF cipher = "AES128_CBC" THEN 16 ELSE 32
  IN Tlv("SEQUENCE",
       <<Tlv("SEQUENCE",
           <<Oid("PBES2"),
             Tlv("SEQUENCE",
               <<Tlv("SEQUENCE", <<Oid("PBKDF2"),
                   Tlv("SEQUENCE", <<Tlv("OCTET_STRING", <<9>>), Tlv("INTEGER", IntegerBytes(BigEndian(iterations)))>>)>>),
                 Tlv("SEQUENCE", <<Oid(cipher), Tlv("OCTET_STRING", TheIv)>>)>>)>>),
         Tlv("OCTET_STRING", <<[key |-> pbkdf2_hmac_sha256(password, <<9>>, iterations, len),
                                iv |-> TheIv, plain |-> d]>>)>>)

KeyRead(k) ==
  IF k.password = Absent
    THEN private_key_from_pem(pem_encode_block(KeyDer(k), k.label))
    ELSE private_key_from_pem_encrypted(
           pem_encode_block(Encrypted(KeyDer(k), "right", k.iterations, k.cipher), "ENCRYPTED PRIVATE KEY"), k.password)

\* A request: the subject and the key of a certificate call, signed by that key.
RequestOf(c) ==
  LET info == Tlv("SEQUENCE", <<Tlv("INTEGER", <<0>>), encode_name(c.fields.subject),
                                encode_spki(c.fields.key_type, Draft(c).public_key)>>)
  IN Tlv("SEQUENCE", <<info, encode_sig_algo(c.fields.key_type, c.fields.sig_hash_len, c.fields.sig_is_pss),
                       Tlv("BIT_STRING", <<0, 5>>)>>)

\* A byte string as it is, with its last byte missing, and with one too many.
Damaged(d, i) == CASE i = 1 -> d [] i = 2 -> SubSeq(d, 1, Len(d) - 1) [] i = 3 -> d \o <<0>>

\* A precertificate, as it was built or as it was read.
PrecertOf(c) == IF c.parsed THEN from_der(to_der(Issued(c))) ELSE Issued(c)

\* The message of an RSA call: opaque bytes, zeros or ones.
RsaText(c) == CASE c.text = "any" -> Message("m", c.len) [] c.text = "zeros" -> Zeros(c.len)
                [] c.text = "ones" -> [i \in 1..c.len |-> One]

\* A block changed in transit: the low or the top bits of one byte.
Changed(em, change) ==
  IF change[1] \in {"low", "hi"} THEN [em EXCEPT ![change[2]] = SymDiff(@, {<<change[1], <<"flip">>, 0>>})] ELSE em

\* What arrives: a changed block, or a number that is not below the modulus.
Arrived(em, change) == [em |-> Changed(em, change), below |-> change[1] # "above"]

\* The message, the hash, the salt or the label that the receiver takes it for.
Other(m, change) == IF change[1] = "message" THEN Append(m, {}) ELSE m

Receiver(c) ==
  CASE c.change[1] = "hash" -> [c EXCEPT !.hash = c.change[2]]
    [] c.change[1] = "salt" -> [c EXCEPT !.salt = c.change[2]]
    [] OTHER -> c

\* A signature, and what verification makes of what arrives of it.
SignedAndVerified(c, Sign(_, _), Verify(_, _, _)) ==
  LET m  == RsaText(c)
      em == Sign(c, m)
  IN [em |-> em, ok |-> em # None /\ Verify(Receiver(c), Other(m, c.change), Arrived(em, c.change))]

\* The blocks of a batch: two messages, and three blocks that hold none.
BatchBlock(x, k) ==
  LET good == enc_fn(k, Message(x, 3), Message("r", k))
  IN CASE x \in {"a", "b"} -> good
       [] x = "type" -> [good EXCEPT ![2] = One]
       [] x = "empty" -> enc_fn(k, <<>>, Message("r", k))
       [] x = "endless" -> SubSeq(good, 1, 2) \o Message("r", k - 2)

LeavesOf(c) == [i \in 1..c.size |-> leaf_hash(c.alg, <<i>>)]

-----------------------------------------------------------------------------
Init == call = None /\ answer = None /\ CtInit

\* Between calls, in a program that has not opened a log.
Idle == call = None /\ log = Absent

Calls(c, result) ==
  /\ call' = c
  /\ answer' = result
  /\ UNCHANGED ctVars

GcmCall ==
  /\ Idle
  /\ \E c \in AeadCalls :
       /\ c.mode = "gcm"
       /\ \/ c.alg = "aes" /\ c.op = "encrypt" /\ Calls(c, aes_gcm_encrypt_auto(Input(c)))
          \/ c.alg = "aes" /\ c.op = "decrypt" /\ Calls(c, aes_gcm_decrypt_auto(Input(c)))
          \/ c.alg = "sm4" /\ c.op = "encrypt" /\ Calls(c, sm4_gcm_encrypt_auto(Input(c)))
          \/ c.alg = "sm4" /\ c.op = "decrypt" /\ Calls(c, sm4_gcm_decrypt_auto(Input(c)))

CcmCall ==
  /\ Idle
  /\ \E c \in AeadCalls :
       /\ c.mode = "ccm"
       /\ \/ c.alg = "aes" /\ c.op = "encrypt" /\ Calls(c, aes_ccm_encrypt(Input(c)))
          \/ c.alg = "aes" /\ c.op = "decrypt" /\ Calls(c, aes_ccm_decrypt(Input(c)))
          \/ c.alg = "sm4" /\ c.op = "encrypt" /\ Calls(c, sm4_ccm_encrypt_auto(Input(c)))
          \/ c.alg = "sm4" /\ c.op = "decrypt" /\ Calls(c, sm4_ccm_decrypt_auto(Input(c)))

ChaChaCall ==
  /\ Idle
  /\ \E c \in AeadCalls :
       /\ c.mode = "chacha"
       /\ \/ c.op = "encrypt" /\ Calls(c, chacha20_poly1305_encrypt(Input(c)))
          \/ c.op = "decrypt" /\ Calls(c, chacha20_poly1305_decrypt(Input(c)))

\* The hashes on their own: gcm_ghash and poly1305_mac.
MacCall ==
  /\ Idle
  /\ \E c \in AeadCalls :
       \/ c.mode = "ghash" /\ Calls(c, gcm_ghash(Plain(c).aad, Plain(c).text))
       \/ c.mode = "poly1305" /\ Calls(c, poly1305_mac(Plain(c).text))

PaddedCall ==
  /\ Idle
  /\ \E c \in PaddedCalls :
       LET d == Numbers(c.text)
       IN \/ c.mode = "aes_cbc" /\ c.op = "encrypt" /\ Calls(c, cbc_encrypt_impl(CbcIv, d))
          \/ c.mode = "aes_cbc" /\ c.op = "decrypt" /\ Calls(c, cbc_decrypt_impl(CbcIv, CbcOf(d)))
          \/ c.mode = "sm4_cbc" /\ c.op = "encrypt" /\ Calls(c, sm4_cbc_encrypt(CbcIv, d))
          \/ c.mode = "sm4_cbc" /\ c.op = "decrypt" /\ Calls(c, sm4_cbc_decrypt(CbcIv, CbcOf(d)))
          \/ c.mode = "aes_ecb" /\ c.op = "encrypt" /\ Calls(c, aes_encrypt_ecb_pkcs7(d))
          \/ c.mode = "aes_ecb" /\ c.op = "decrypt" /\ Calls(c, aes_decrypt_ecb_pkcs7(EcbOf(d)))

RsaCall ==
  /\ Idle
  /\ \E c \in RsaCalls :
       \/ c.mode = "rsa" /\ Calls(c, dec_fn(Changed(enc_fn(ModBytes(c.tier), RsaText(c), c.random), c.change)))
       \/ c.mode = "rsa_batch"
            /\ LET ems == [i \in DOMAIN c.blocks |-> BatchBlock(c.blocks[i], ModBytes(c.tier))]
               IN Calls(c, CASE c.tier = "2048" -> rsa_batch_decrypt(ems, c.crt)
                             [] c.tier = "3072" -> rsa3072_batch_decrypt(ems, c.crt)
                             [] c.tier = "4096" -> rsa4096_batch_decrypt(ems, c.crt))
       \/ /\ c.mode = "rsa_v15"
          /\ \/ c.tier = "2048" /\ Calls(c, SignedAndVerified(c, rsassa_pkcs1v15_sign, rsassa_pkcs1v15_verify))
             \/ c.tier = "3072" /\ Calls(c, SignedAndVerified(c, rsassa_pkcs1v15_sign3072, rsassa_pkcs1v15_verify3072))
       \/ /\ c.mode = "rsa_pss"
          /\ \/ c.tier = "2048" /\ Calls(c, SignedAndVerified(c, rsassa_pss_sign, rsassa_pss_verify))
             \/ c.tier = "3072" /\ Calls(c, SignedAndVerified(c, rsassa_pss_sign3072, rsassa_pss_verify3072))
             \/ c.tier = "4096" /\ Calls(c, SignedAndVerified(c, rsassa_pss_sign4096, rsassa_pss_verify4096))
       \/ /\ c.mode = "rsa_oaep"
          /\ LET k     == ModBytes(c.tier)
                 label == Message("label", 1)
                 other == Other(label, c.change)
             IN \/ /\ c.tier = "2048"
                   /\ LET em == PeerOaepBlock(k, label, RsaText(c))
                      IN Calls(c, IF em = None THEN Refusal ELSE rsaes_oaep_decrypt(other, Arrived(em, c.change), c.crt))
                \/ /\ c.tier = "3072"
                   /\ LET em == rsaes_oaep_encrypt3072(k, label, RsaText(c))
                      IN Calls(c, IF em = None THEN Refusal ELSE rsaes_oaep_decrypt3072(other, Arrived(em, c.change), c.crt))
       \/ /\ c.mode = "rsa_modpow"
          /\ LET bases == [i \in DOMAIN c.bases |-> Limbs(c.bases[i])]
                 e     == Limbs(c.e)
             IN \/ c.alg = "scalar" /\ Calls(c, batch_modpow_scalar(bases, e, mont_init(c.m)))
                \/ c.alg = "avx2" /\ Calls(c, batch_modpow_avx2(bases, e, mont_init(c.m)))
                \/ c.alg = "avx512" /\ Calls(c, batch_modpow_avx512(bases, e, mont_init(c.m)))
                \/ c.alg = "mul avx2" /\ Calls(c, batch_mont_mul_avx2(bases, bases, Limbs(c.m), mont_init(c.m).mp))
                \/ c.alg = "mul avx512" /\ Calls(c, batch_mont_mul_avx512(bases, bases, Limbs(c.m), mont_init(c.m).mp))
       \/ c.mode = "rsa_keygen" /\ Calls(c, CASE c.tier = "2048" -> rsa_keygen_crt(c.attempts[1])
                                             [] c.tier = "4096" -> rsa4096_keygen_crt(c.attempts[1])
                                             [] c.tier = "3072" -> rsa3072_keygen_crt(c.attempts))

HashCall ==
  /\ Idle
  /\ \E c \in HashCalls :
       LET d == PiecesOf(c.pieces)
       IN \/ c.mode = "stream" /\ Calls(c, HashStream(c, d))
          \/ c.mode = "sha_ni" /\ Calls(c, sha256_sha_ni(FlattenSeq(d)))
          \/ c.mode = "batch"
               /\ Calls(c, sha1_batch(c, [k \in 1..c.n |-> MessageOf(k, Total(c.pieces))], LANES5, LANES2))
          \/ c.mode = "sha3" /\ Calls(c, sha3(c, d))
          \/ c.mode = "shake" /\ Calls(c, shake(c, d, c.squeezes))
          \/ c.mode = "hmac" /\ Calls(c, hmac(c, Message("key", c.n), FlattenSeq(d)))
          \/ c.mode = "hkdf"
               /\ Calls(c, hkdf(c, Message("salt", c.salt), Message("ikm", 1), FlattenSeq(d), c.n))

CodecCall ==
  /\ Idle
  /\ \E c \in CodecCalls :
       \/ c.mode = "b64" /\ Calls(c, LET t == base64_encode(c.feats, c.data)
                                     IN [text |-> t, back |-> base64_decode(c.feats, t)])
       \/ c.mode = "b64text" /\ Calls(c, base64_decode(c.feats, c.data))
       \/ c.mode = "varint" /\ Calls(c, quic_varint_decode(quic_varint_encode(c.v) \o c.rest))
       \/ c.mode = "parameters" /\ Calls(c, tp_decode(tp_encode(c.p)))
       \/ c.mode = "tlv"
            /\ LET d == encode_tlv(SEQUENCE_TAG, c.data) \o <<5, 0>>
               IN Calls(c, [strict |-> decode_tlv(d, 0), loose |-> decode_tlv2(d, 0)])
       \/ c.mode = "integer" /\ Calls(c, decode_tlv(encode_integer(c.data), 0))
       \/ c.mode = "oid" /\ Calls(c, tlv_to_oid(c.data))
       \/ c.mode = "signature" /\ Calls(c, sig_to_raw(ecdsa_raw_sig_to_der(c.data, c.field), c.field))
       \/ c.mode = "sct" /\ Calls(c, [i \in 1..3 |-> deserialize_sct(Damaged(serialize_sct(c.v), i))])
       \/ c.mode = "precert" /\ Calls(c, [i \in 1..3 |-> deserialize_precert(Damaged(serialize_precert(c.v), i))])
       \/ c.mode = "leaf"
            /\ Calls(c, [i \in 1..3 |-> deserialize_merkle_tree_leaf(Damaged(serialize_merkle_tree_leaf(c.v), i))])
       \/ c.mode = "scts" /\ Calls(c, decode_sct_list_extn(encode_sct_list_extn(c.v)))

CertCall ==
  /\ Idle
  /\ \E c \in CertCalls :
       \/ c.mode = "issue" /\ Calls(c, from_pem(to_pem(Issued(c))))
       \/ c.mode = "chain" /\ Calls(c, x509_verify_chain(ChainOf(c.chain), c.now))
       \/ c.mode = "anchored"
            /\ Calls(c, x509_verify_chain_anchored(ChainOf(c.chain), ChainOf(c.anchors), c.now))
       \/ c.mode = "key" /\ Calls(c, KeyRead(c))
       \/ c.mode = "request"
            /\ Calls(c, csr_from_pem(pem_encode_block(RequestOf(c), "CERTIFICATE REQUEST")))
       \/ c.mode = "load"
            /\ LET key == pem_encode_block(KeyDer(c.key), c.key.label)
               IN Calls(c, IF c.csr THEN from_csr_pem(pem_encode_block(RequestOf(c.cert), "CERTIFICATE REQUEST"), key)
                           ELSE tls_certificate_from_pem(to_pem(Issued(c.cert)), key))
       \/ c.mode = "store"
            /\ LET first == from_system([loaded |-> FALSE, cached |-> <<>>], c.env, c.files)
               IN Calls(c, <<first, from_system(first, c.files[1], c.files)>>)
       \/ c.mode = "final" /\ Calls(c, finalize_precert(PrecertOf(c), c.scts, c.kt, PublicKey(c.kt, c.by)))

TreeCall ==
  /\ Idle
  /\ \E c \in TreeCalls :
       LET leaves == LeavesOf(c)
       IN Calls(c, [root |-> merkle_root(c.alg, leaves), path |-> audit_path(c.alg, leaves, c.index),
                    proof |-> consistency_proof(c.alg, leaves, c.index, c.size)])

Return ==
  /\ call # None
  /\ call' = None /\ answer' = None
  /\ UNCHANGED ctVars

\* One call of ct_log.
LogCall == call = None /\ CtNext /\ UNCHANGED <<call, answer>>

Next == \/ GcmCall \/ CcmCall \/ ChaChaCall \/ MacCall \/ PaddedCall \/ RsaCall \/ HashCall
        \/ CodecCall \/ CertCall \/ TreeCall \/ Return \/ LogCall

Spec == Init /\ [][Next]_vars

-----------------------------------------------------------------------------
Aead == call # None /\ call.mode \in {"gcm", "ccm", "chacha"}

\* The last k bytes of d are k.
PaddedBy(d, k) == k <= Len(d) /\ \A i \in 0..k - 1 : d[Len(d) - i] = Number(k)

\* The padding of CBC and ECB: between one and BLK bytes that say how many they
\* are; exactly the texts that end that way are accepted, without it.
PaddingExact ==
  call # None /\ call.mode \in {"aes_cbc", "sm4_cbc", "aes_ecb"} =>
    LET d     == Numbers(call.text)
        Of(p) == IF call.mode = "aes_ecb" THEN EcbOf(p) ELSE CbcOf(p)
    IN IF call.op = "encrypt"
         THEN \E k \in 1..BLK : /\ (Len(d) + k) % BLK = 0
                                /\ answer = Of(d \o [i \in 1..k |-> Number(k)])
         ELSE /\ answer.ok <=> \E k \in 1..BLK : PaddedBy(d, k)
              /\ answer.ok => \E k \in 1..BLK : PaddedBy(d, k) /\ answer.out = SubSeq(d, 1, Len(d) - k)

\* Every back end of AES-GCM, SM4-GCM, AES-CCM, SM4-CCM and ChaCha20-Poly1305
\* computes the text and the tag of the standard, and opens them again, whatever
\* the CPU, the sizes, the overlap of the buffers and the state of the back end
\* selection: no lane, no carry of the counter and no partial block is lost
\* where one code path hands over to the next.  CBC and ECB pad and unpad exactly.
CiphersMatch ==
  /\ PaddingExact
  /\ Aead /\ call.op = "encrypt" =>
       IF call.mode = "ccm" /\ call.len >= CTR THEN ~answer.ok
       ELSE answer.out = StandardText(call) /\ answer.tag = StandardTag(call)
  /\ Aead /\ call.op = "decrypt" /\ call.tamper = None /\ call.len < CTR =>
       answer.ok /\ answer.out = Plain(call).text
  /\ call # None /\ call.mode = "poly1305" => answer = POLY1305(Plain(call).text)
  /\ call # None /\ call.mode = "ghash" =>
       answer = GHASH(Pieces(Plain(call).aad) \o Pieces(Plain(call).text)
                        \o <<LengthBlock(call.aadlen, call.len)>>)

\* A text, a tag or associated data changed in transit is refused, and GCM and
\* ChaCha20-Poly1305 leave the output buffer as it was: they check the tag
\* before they write any plaintext.
TamperedRefused ==
  Aead /\ call.op = "decrypt" /\ call.tamper # None =>
    /\ ~answer.ok
    /\ call.mode # "ccm" => answer.out = Memory(Input(call)).out

RsaMode(m) == call # None /\ call.mode = m

Untouched(c) == c.change = <<None>>

\* A signature is accepted exactly when it arrives as it was made, and is
\* verified for the message, the hash and the salt it was made for.
SignatureExact(can) == answer.ok <=> can /\ answer.em # None /\ Untouched(call)

\* The powers of a tier; they undo each other for a key that works.
PublicPower(tier, pub, m) ==
  CASE tier = "2048" -> RSAEP(pub, m) [] tier = "3072" -> RSAEP3072(pub, m) [] tier = "4096" -> RSAEP4096(pub, m)

CrtPower(tier, k, c) ==
  CASE tier = "2048" -> RSADP(k, c) [] tier = "3072" -> RSADP3072(k, c) [] tier = "4096" -> RSADP4096(k, c)

KeyWorks(tier, k) ==
  /\ k.p # k.q /\ k.n = k.p * k.q /\ FullWidth(k.p, k.q)
  /\ (k.e * k.d) % ((k.p - 1) * (k.q - 1)) = 1
  /\ \A m \in {0, 1, 2, k.p, k.q, k.n \div 2, k.n - k.q, k.n - 1} :
       LET c == PublicPower(tier, [n |-> k.n, e |-> k.e], m) IN CrtPower(tier, k, c) = m /\ Power(c, k.d, k.n) = m

\* RSA: a message comes back from a type 2 block or OAEP block, whatever its
\* bytes, and a batch keeps the blocks that hold one, in order, however the threads
\* divide it; a signature of either scheme is accepted exactly when nothing of it,
\* of the message or of the parameters changed, and with the CRT numbers missing
\* where the code computes without them; the Montgomery kernels compute the power
\* through every carry and borrow (a modulus with a middle limb of ones excepted:
\* see the README), although rsa_batch_dispatch.cpp:407 and rsa_batch_avx2.cpp:143 call
\* the vector ones defective for an unbounded carry: Ripple would have no value, and the
\* run an error, if a carry left the buffer of a lane; key generation ends,
\* whatever the searches find before their deadlines, in two different primes whose numbers undo each other, or for
\* RSA-3072 in no key when each of three attempts met a deadline.
RsaHolds ==
  /\ RsaMode("rsa") =>
       /\ answer.ok <=> call.len > 0 /\ Untouched(call)
       /\ answer.ok => answer.out = RsaText(call)
  /\ RsaMode("rsa_batch") =>
       LET good == SelectSeq(call.blocks, LAMBDA x : x \in {"a", "b"})
       IN /\ answer.success = Len(good)
          /\ \A i \in DOMAIN good : answer.pts[i] = BatchBlock(good[i], ModBytes(call.tier))
  /\ RsaMode("rsa_v15") =>
       LET h == HashNamed(call.hash, call.pl)
           k == ModBytes(call.tier)
           t == Prefix(call.hash, call.pl) \o Hash(h, RsaText(call))
       IN /\ SignatureExact(call.crt \/ call.tier = "3072")
          /\ answer.em = None <=> k - Len(t) - 3 < PS_MIN
          /\ answer.em # None /\ (call.tier = "3072" \/ (call.crt /\ h = "SHA256")) => answer.em = EmsaBlock(k, t)
  /\ RsaMode("rsa_pss") =>
       /\ SignatureExact(call.crt \/ call.tier # "4096")
       /\ answer.em = None <=> ~(call.random /\ SaltFits(call.hash, PssSalt(call), ModBytes(call.tier)))
  /\ RsaMode("rsa_oaep") =>
       /\ answer.ok <=> Untouched(call) /\ call.len <= ModBytes(call.tier) - 2 * PssHashLen("SHA256") - 2
       /\ answer.ok => answer.out = RsaText(call)
  /\ RsaMode("rsa_modpow") =>
       \A i \in DOMAIN answer :
         LET r == Value(answer[i])
         IN /\ r <= call.m
            /\ IF call.alg \in {"mul avx2", "mul avx512"}
                 THEN (r * LIMB^LIMBS) % call.m = (call.bases[i] * call.bases[i]) % call.m
                 ELSE r % call.m = Power(call.bases[i], call.e, call.m)
  /\ RsaMode("rsa_keygen") =>
       IF call.tier = "3072" /\ \A i \in 1..3 : rsa3072_kgen_once(call.attempts[i]).at = "failed"
         THEN answer = None
         ELSE answer # None /\ KeyWorks(call.tier, answer)

TheMessage == FlattenSeq(PiecesOf(call.pieces))

Hashing == call # None /\ "pieces" \in DOMAIN call

\* However a message is cut into pieces, and whichever back end, lane or one-shot
\* path hashes it, the blocks compressed are those of the standard, and so are
\* HMAC and HKDF.  SHA-3 and SHAKE of a message that leaves one byte of its last
\* block are left to Sha3Standard.
HashesMatch ==
  Hashing =>
    /\ call.mode \in {"stream", "sha_ni"} => answer = MD(TheMessage)
    /\ call.mode = "batch" => answer = [k \in 1..call.n |-> MD(MessageOf(k, Len(TheMessage)))]
    /\ call.mode = "hmac" => answer = HMAC(Message("key", call.n), TheMessage)
    /\ call.mode = "hkdf" => answer = HKDF(Message("salt", call.salt), Message("ikm", 1), TheMessage, call.n)
    /\ call.mode = "sha3" /\ (Len(TheMessage) + 1) % RATE # 0 => answer = SPONGE(TheMessage, 6)
    /\ call.mode = "shake" /\ (Len(TheMessage) + 1) % RATE # 0 =>
         answer = XOF(TheMessage, Total(call.squeezes))

Coding == /\ call # None
          /\ call.mode \in {"b64", "b64text", "varint", "parameters", "tlv", "integer", "oid", "signature",
                        "sct", "precert", "leaf", "scts"}

\* What is encoded comes back: Base64 text is that of RFC 4648 and decodes to the
\* bytes at every CPU level, and the levels refuse the same texts; a varint comes
\* back whole and alone, up to the last number of each length; transport
\* parameters come back as long as each number is one a peer may send; lengths,
\* integers, object identifiers and signatures in DER come back exactly, with
\* the shortest form of each; SCTs, precertificates and leaves of a log come back,
\* and not when a byte is missing or one too many.
CodecsInvert ==
  Coding =>
    /\ call.mode = "b64" => answer.text = BASE64(call.data) /\ answer.back = [ok |-> TRUE, out |-> call.data]
    /\ call.mode = "b64text" => answer = base64_decode({}, call.data)
    /\ call.mode = "varint" =>
         answer.ok /\ answer.v = call.v /\ answer.n = quic_varint_encoded_len(call.v)
    /\ call.mode = "parameters" =>
         IF \A i \in DOMAIN NumberFields : NumberAllowed(NumberFields[i][1], call.p.n[i])
           THEN answer.ok /\ answer.p = call.p /\ answer.left = <<>>
           ELSE ~answer.ok
    /\ call.mode = "tlv" => /\ answer.strict = answer.loose
                            /\ answer.strict.ok /\ answer.strict.v = call.data
    /\ call.mode = "integer" =>
         LET v == answer.v
         IN /\ answer.ok /\ StripZeros(v) = StripZeros(call.data) /\ ~HighBit(v[1])
            /\ Len(v) > 1 /\ v[1] = 0 => HighBit(v[2])
    /\ call.mode = "oid" => answer = call.data
    /\ call.mode = "signature" => answer = [ok |-> TRUE, raw |-> call.data]
    /\ call.mode \in {"sct", "precert", "leaf"} => answer = <<call.v, Absent, Absent>>
    /\ call.mode = "scts" => answer = call.v

\* The modulus that signs: given, or that of the certificate itself.
Signable(c) ==
  c.kt \in RsaTypes =>
    /\ c.modulus \/ (c.fields.key_type = c.kt /\ c.id = c.by)
    /\ ~(c.fields.sig_is_pss /\ c.kt = "RSA_4096")

\* What the parser makes of the extensions that it only keeps.
KeptExtensions(f) ==
  (IF f.key_usage \in {Absent, 0} THEN <<>>
   ELSE <<[oid |-> "KEY_USAGE", critical |-> TRUE,
           extn_value |-> <<Tlv("BIT_STRING", KeyUsageBits(f.key_usage))>>]>>)
  \o (IF f.ext_key_usage = <<>> THEN <<>>
      ELSE <<[oid |-> "EXT_KEY_USAGE", critical |-> FALSE,
              extn_value |-> <<Tlv("SEQUENCE", [i \in DOMAIN f.ext_key_usage |-> Oid(f.ext_key_usage[i])])>>]>>)

\* p says what f said; extensions are there from version 3 on.
SaysTheSame(f, p) ==
  /\ \A n \in {"version", "issuer", "subject", "not_before", "not_after", "key_type", "public_key", "sig_is_pss"} :
       p[n] = f[n]
  /\ StripZeros(p.serial_number) = StripZeros(f.serial_number)
  /\ f.version >= 2 => /\ p.basic_constraints = f.basic_constraints
                       /\ p.raw_extensions = KeptExtensions(f)
                       /\ f.subject_alt_name # <<>> => p.subject_alt_name = f.subject_alt_name
  /\ f.version < 2 => p.basic_constraints = Absent /\ p.raw_extensions = <<>>

\* The key usage of RFC 5280: bit i is the i-th from the left, trailing zeros are dropped.
KeyUsageExact(bits) ==
  LET v == KeyUsageBits(bits)
      n == 8 * (Len(v) - 1) - v[1]
      B(i) == (v[2 + (i \div 8)] \div 2^(7 - (i % 8))) % 2
  IN v[1] \in 0..7 /\ B(n - 1) = 1 /\ \A i \in 0..15 : (bits \div 2^(15 - i)) % 2 = (IF i < n THEN B(i) ELSE 0)

\* A link of a chain: cert i is signed with the key of certificate i + 1.
LinkHolds(a, b) == Signable(a) /\ a.kt = b.fields.key_type /\ a.by = b.id

ChainHolds(cs, now) ==
  /\ cs # <<>> /\ \A i \in DOMAIN cs : cs[i].fields.not_before <= now /\ now <= cs[i].fields.not_after
  /\ \A i \in 1..Len(cs) - 1 : LinkHolds(cs[i], cs[i + 1])
  /\ LET root == Last(cs).fields
     IN root.version >= 2 /\ root.basic_constraints # Absent /\ root.basic_constraints.ca

\* A certificate read back says what was issued, can be encoded and read again,
\* and carries a signature of its issuer and of nobody else, for every key type,
\* hash and way of naming the modulus; a chain holds exactly when every date
\* holds, each certificate is signed with the key of the next, and the last is a
\* CA that signed itself or, with anchors, is one of them; a private key is the
\* same key in every form it may be stored in, and a server that loads it beside a
\* certificate or a request signs with that key (RSA-3072 beside a certificate
\* excepted: see the README); the roots of the system are all those of the first
\* file that has any; the final certificate of a
\* precertificate is signed by its issuer, carries the SCTs in place of the poison
\* and leads back to the precertificate without it.
CertificatesHold ==
  call # None =>
    /\ call.mode = "issue" =>
         LET p == answer
             again == from_der(to_der(p))
         IN /\ p # Absent /\ SaysTheSame(Draft(call), p)
            /\ verify_signature(p, IssuerOf(call)) <=> Signable(call)
            /\ ~verify_signature(p, [IssuerOf(call) EXCEPT !.public_key = PublicKey(call.kt, call.by + 1)])
            /\ [again EXCEPT !.tbs_raw = p.tbs_raw] = p
            /\ call.fields.key_usage \notin {Absent, 0} => KeyUsageExact(call.fields.key_usage)
    /\ call.mode = "chain" =>
         (answer <=> ChainHolds(call.chain, call.now) /\ LinkHolds(Last(call.chain), Last(call.chain)))
    /\ call.mode = "anchored" /\ call.anchors # <<>> =>
         (answer <=> /\ ChainHolds(call.chain, call.now)
                     /\ \E i \in DOMAIN call.anchors : call.anchors[i] = Last(call.chain))
    /\ call.mode = "anchored" /\ call.anchors = <<>> =>
         (answer <=> ChainHolds(call.chain, call.now) /\ LinkHolds(Last(call.chain), Last(call.chain)))
    /\ call.mode = "key" =>
         IF call.password \notin {Absent, "right"} THEN answer = Absent
         ELSE /\ answer # Absent /\ answer.key_type = call.kt
              /\ call.kt \in RsaTypes =>
                   /\ answer.priv = PadTo(call.d, rsa_mod_bytes(call.kt)) /\ answer.pub = PublicKey(call.kt, 1)
                   /\ \A i \in DOMAIN call.crt : answer.crt[i] = PadTo(call.crt[i], rsa_mod_bytes(call.kt) \div 2)
              /\ call.kt \in EcTypes => /\ answer.priv = call.d
                                        /\ answer.pub = IF call.point THEN PublicKey(call.kt, 1) ELSE <<>>
              /\ call.kt = "Ed25519" => answer.priv = call.d \o answer.pub
              /\ call.kt = "Ed448" => answer.priv = call.d
    /\ call.mode = "request" =>
         /\ answer # Absent /\ answer.subject = call.fields.subject
         /\ answer.key_type = call.fields.key_type /\ answer.public_key = Draft(call).public_key
    /\ call.mode = "load" =>
         LET kt == call.cert.fields.key_type
             k  == private_key_from_der(KeyDer(call.key))
         IN IF call.key.kt # kt THEN answer = Absent
            ELSE /\ answer # Absent /\ answer.pub = [as |-> kt, v |-> Draft(call.cert).public_key]
                 /\ answer.priv.as = kt /\ answer.priv.d = k.priv
                 /\ kt \in RsaTypes => /\ answer.priv.crt = k.crt /\ answer.priv.n = k.pub
                                       /\ call.csr \/ kt # "RSA_3072" => rsa_tier_of(answer) = kt
                 /\ answer.subject_name = IF CommonNames(call.cert.fields.subject) # <<>> THEN "root"
                                          ELSE IF ~call.csr THEN "" ELSE IF call.cert.fields.subject # <<>> THEN "org" ELSE "localhost"
                 /\ ~call.csr /\ Signable(call.cert) => verify_signature(from_der(answer.cert_data), IssuerOf(call.cert))
    /\ call.mode = "store" =>
         LET all    == (IF call.env = Absent THEN <<>> ELSE <<call.env>>) \o call.files
             usable == {i \in DOMAIN all : \E j \in DOMAIN all[i] : all[i][j].label = "CERTIFICATE" /\ from_der(all[i][j].der) # Absent}
         IN /\ answer[2] = answer[1]
            /\ usable = {} => answer[1].cached = <<>>
            /\ usable # {} =>
                 LET f == all[CHOOSE i \in usable : \A j \in usable : i <= j]
                 IN ToSet(answer[1].cached) =
                      {from_der(f[j].der) : j \in {k \in DOMAIN f : f[k].label = "CERTIFICATE"}} \ {Absent}
    /\ call.mode = "final" =>
         IF call.kt \notin {"Ed25519", "Ed448", "ECDSA_P256", "SM2"} THEN answer = PrecertOf(call)
         ELSE LET d == to_der(answer)
                  p == modify_tbs_extensions(extract_tbs(to_der(PrecertOf(call))), {"CT_POISON"}, <<>>)
              IN /\ verify_signature(answer, IssuerOf(call))
                 /\ find_extn(d, "CT_POISON") = Absent /\ scts_from_cert(d) = call.scts
                 /\ precert_tbs_from_final(d) = modify_tbs_extensions(p, {"SCT_LIST"}, <<>>)

\* The tree of RFC 6962 built from below: pairs, a last odd node goes up as it is.
Level(alg, s) ==
  [i \in 1..(Len(s) + 1) \div 2 |-> IF 2 * i <= Len(s) THEN node_hash(alg, s[2 * i - 1], s[2 * i]) ELSE s[2 * i - 1]]

RootFromBelow(alg, leaves) ==
  IF leaves = <<>> THEN empty_hash(alg) ELSE FoldLeft(LAMBDA s, i : Level(alg, s), leaves, [i \in 1..Len(leaves) |-> i])[1]

\* p shortened, made longer, or with one hash replaced.
Altered(p, h) ==
  {Append(p, h)} \cup (IF p = <<>> THEN {} ELSE {Front(p)}) \cup {[p EXCEPT ![i] = h] : i \in DOMAIN p}

\* The log can be audited: its proofs convince, for trees of every shape, and no
\* other place, leaf, root or altered proof does (verify_audit_path,
\* verify_consistency); the root is that of RFC 6962, built from below.
LogProofsHold ==
  /\ LogAuditable
  /\ call # None /\ call.mode = "tree" =>
       LET leaves == LeavesOf(call)
           n      == call.size
           m      == call.index
           alg    == call.alg
           other  == leaf_hash(alg, <<0>>)
           first  == merkle_root(alg, SubSeq(leaves, 1, m))
       IN /\ answer.root = RootFromBelow(alg, leaves)
          /\ m < n =>
               LET Holds(i, l, p, r) == verify_audit_path(alg, i, n, l, p, r)
                   leaf == leaves[m + 1]
               IN /\ Holds(m, leaf, answer.path, answer.root)
                  /\ \A i \in 0..n : i # m => ~Holds(i, leaf, answer.path, answer.root)
                  /\ ~Holds(m, other, answer.path, answer.root) /\ ~Holds(m, leaf, answer.path, other)
                  /\ \A p \in Altered(answer.path, other) : ~Holds(m, leaf, p, answer.root)
          /\ m \in 1..n =>
               LET Holds(a, b, p) == verify_consistency(alg, m, n, a, b, p)
               IN /\ Holds(first, answer.root, answer.proof)
                  /\ ~Holds(other, answer.root, answer.proof) /\ ~Holds(first, other, answer.proof)
                  /\ \A p \in Altered(answer.proof, other) : ~Holds(first, answer.root, p)
          /\ m \notin 1..n => answer.proof = <<>> /\ ~verify_consistency(alg, m, n, first, answer.root, <<>>)

\* SHA3-256/384/512 is the hash of FIPS 202 for every message, as sha3.hpp and
\* the README say.
Sha3Standard ==
  Hashing /\ call.mode = "sha3" => answer = SPONGE(TheMessage, 6)
=============================================================================
