------------------------------ MODULE X509Keys -------------------------------
(***************************************************************************)
(* Private keys in PKCS #8, PKCS #1, SEC 1 and RFC 8410 form, encrypted    *)
(* keys, certificate requests, PEM, and the credentials and trust stores   *)
(* that the TLS layer loads from them.  A PEM text is a sequence of blocks *)
(* [label |->, der |->]; the Base64 of a block is the business of Codecs.  *)
(***************************************************************************)
EXTENDS X509

private_key(kt, priv, pub) ==
  [key_type |-> kt, priv |-> priv, pub |-> pub, crt |-> <<<<>>, <<>>, <<>>, <<>>, <<>>>>]

\* One zero in front is dropped.
Unsigned(b) == IF b # <<>> /\ b[1] = 0 THEN Tail(b) ELSE b

\* A CRT number in half the size of the modulus; one that is too long is dropped.
CrtField(b, size) == IF b = <<>> \/ Len(b) > size THEN <<>> ELSE PadTo(b, size)

\* version, n, e, d, p, q, dP, dQ, qInv: the first nine integers are read, the
\* five CRT numbers are kept when all are there.
parse_pkcs1_rsa(d) ==
  LET count == IF Len(d.v) < 9 THEN Len(d.v) ELSE 9
      Num(i) == Unsigned(d.v[i].v)
      kt   == rsa_key_type_from_mod_len(Len(Num(2)))
      size == rsa_mod_bytes(kt)
  IN IF ~Is(d, "SEQUENCE") THEN Absent
     ELSE IF \E i \in 1..count : ~Is(d.v[i], "INTEGER") THEN Absent
     ELSE IF count < 4 THEN Absent
     ELSE IF (\E i \in 2..4 : Num(i) = <<>>) \/ Len(Num(4)) > size \/ Len(Num(2)) > size \/ Len(Num(3)) > 3 THEN Absent
     ELSE [private_key(kt, PadTo(Num(4), size), PadTo(Num(2), size) \o PadTo(Num(3), 3)) EXCEPT
             !.crt = IF count < 9 THEN @ ELSE [i \in 1..5 |-> CrtField(Num(i + 4), size \div 2)]]

\* The curve comes from the key itself, else from the hint, else it is P-256.
parse_sec1_ec(d, hint) ==
  LET rest  == SubSeq(d.v, 3, Len(d.v))
      curve == {i \in DOMAIN rest : rest[i].tag = "CONTEXT0" /\ Is(At(rest[i].v, 1), "OID")}
      point == {i \in DOMAIN rest : rest[i].tag = "CONTEXT1" /\ Is(At(rest[i].v, 1), "BIT_STRING")}
      LastOf(s) == rest[CHOOSE i \in s : \A j \in s : j <= i].v[1]
      bits  == Tail(LastOf(point).v)
      kt    == CurveOf(IF curve # {} THEN LastOf(curve) ELSE hint)
  IN IF ~Is(d, "SEQUENCE") THEN Absent
     ELSE IF ~Is(At(d.v, 1), "INTEGER") \/ ~Is(At(d.v, 2), "OCTET_STRING") THEN Absent
     ELSE private_key(kt, d.v[2].v,
                      IF point = {} THEN <<>> ELSE IF bits # <<>> /\ bits[1] = 4 THEN Tail(bits) ELSE bits)

\* Bytes that are no TLV stand in a value as one node with this tag.
PlainBytes(b) == Tlv("bytes", b)

\* The seed of an Edwards key: wrapped in an OCTET STRING, in [0], or bare.
EdwardsSeed(inner) ==
  LET t == At(inner, 1)
      o == At(t.v, 1)
  IN CASE Is(t, "CONTEXT0") -> IF Is(o, "OCTET_STRING") THEN o.v ELSE t.v[1].v
       [] Is(t, "OCTET_STRING") -> t.v
       [] OTHER -> t.v

\* The public half of a seed, made of as many bytes.
DerivePublic(seed) == [i \in DOMAIN seed |-> 255 - seed[i]]

SeedSize(kt) == IF kt = "Ed25519" THEN 32 ELSE 57

parse_pkcs8(d) ==
  LET alg  == At(d.v, 2)
      key  == At(d.v, 3)
      name == alg.v[1].v[1]
      hint == At(alg.v, 2)
      seed == EdwardsSeed(key.v)
      pub  == DerivePublic(seed)
  IN IF ~Is(d, "SEQUENCE") THEN Absent
     ELSE IF ~Is(At(d.v, 1), "INTEGER") \/ ~Is(alg, "SEQUENCE") \/ ~Is(key, "OCTET_STRING") THEN Absent
     ELSE IF ~Is(At(alg.v, 1), "OID") THEN Absent
     ELSE CASE name = "RSA_ENCRYPTION" -> parse_pkcs1_rsa(key.v[1])
            [] name = "EC_PUBLIC_KEY" -> parse_sec1_ec(key.v[1], IF Is(hint, "OID") THEN hint ELSE Absent)
            [] name \in {"Ed25519", "Ed448"} ->
                 IF Len(seed) # SeedSize(name) THEN Absent
                 ELSE private_key(name, IF name = "Ed25519" THEN seed \o pub ELSE seed, pub)
            [] OTHER -> Absent

\* The form is told by the second element.
private_key_from_der(d) ==
  LET second == At(d.v, 2)
  IN IF ~Is(d, "SEQUENCE") THEN Absent
     ELSE IF ~Is(At(d.v, 1), "INTEGER") \/ second = Absent THEN Absent
     ELSE CASE second.tag = "SEQUENCE" -> parse_pkcs8(d)
            [] second.tag = "INTEGER" -> parse_pkcs1_rsa(d)
            [] second.tag = "OCTET_STRING" -> parse_sec1_ec(d, Absent)
            [] OTHER -> Absent

-----------------------------------------------------------------------------
(* PEM.                                                                    *)

pem_encode_block(der, label) == <<[label |-> label, der |-> der]>>

\* The first block with the label.
pem_decode_block(pem, label) ==
  LET found == {i \in DOMAIN pem : pem[i].label = label}
  IN IF found = {} THEN Absent ELSE pem[CHOOSE i \in found : \A j \in found : i <= j].der

\* The labels are tried in their order, whatever comes first in the text.
pem_extract_any(pem, labels) ==
  LET found == {i \in DOMAIN labels : pem_decode_block(pem, labels[i]) # Absent}
  IN IF found = {} THEN Absent
     ELSE pem_decode_block(pem, labels[CHOOSE i \in found : \A j \in found : i <= j])

to_pem(c) == pem_encode_block(to_der(c), "CERTIFICATE")

from_pem(pem) ==
  LET d == pem_decode_block(pem, "CERTIFICATE") IN IF d = Absent THEN Absent ELSE from_der(d)

KeyLabels == <<"PRIVATE KEY", "RSA PRIVATE KEY", "EC PRIVATE KEY", "ED25519 PRIVATE KEY", "ED448 PRIVATE KEY">>

private_key_from_pem(pem) ==
  LET d == pem_extract_any(pem, KeyLabels) IN IF d = Absent THEN Absent ELSE private_key_from_der(d)

-----------------------------------------------------------------------------
(* Encrypted keys (PBES2).                                                 *)

PRF(password, text) == <<"prf", password, text>>

\* One block of PBKDF2: the sum of U1, U2 = PRF(U1), ... as the set of them.
Pbkdf2Block(password, salt, iterations, block) ==
  FoldLeft(LAMBDA a, i : LET u == PRF(password, a.u) IN [u |-> u, t |-> a.t \cup {u}],
           [u |-> PRF(password, <<salt, block>>), t |-> {PRF(password, <<salt, block>>)}],
           [i \in 1..iterations - 1 |-> i]).t

\* Blocks of 32 bytes until there are enough; zero iterations are refused.
pbkdf2_hmac_sha256(password, salt, iterations, dk_len) ==
  IF iterations = 0 THEN Absent
  ELSE [b \in 1..(dk_len + 31) \div 32 |->
          <<Pbkdf2Block(password, salt, iterations, b), IF 32 * b <= dk_len THEN 32 ELSE dk_len % 32>>]

\* A text is what was encrypted and how; any other key or vector leaves bytes
\* whose padding is wrong.
aes_cbc_decrypt(key, key_len, iv, cipher) ==
  IF key_len \in {16, 32} /\ cipher # <<>> /\ cipher[1].key = key /\ cipher[1].iv = iv THEN cipher[1].plain
  ELSE Absent

pbes2_decrypt(d, password) ==
  LET alg    == At(d.v, 1)
      data   == At(d.v, 2)
      params == At(alg.v, 2)
      kdf    == At(params.v, 1)
      scheme == At(params.v, 2)
      kdfp   == At(kdf.v, 2)
      salt   == At(kdfp.v, 1)
      iter   == At(kdfp.v, 2)
      iv     == At(scheme.v, 2)
      len    == IF scheme.v[1].v[1] = "AES128_CBC" THEN 16 ELSE 32
      key    == pbkdf2_hmac_sha256(password, salt.v, FromBigEndian(iter.v), len)
  IN IF ~Is(d, "SEQUENCE") \/ ~Is(alg, "SEQUENCE") THEN Absent
     ELSE IF alg.v[1] # Oid("PBES2") \/ ~Is(params, "SEQUENCE") THEN Absent
     ELSE IF ~Is(kdf, "SEQUENCE") \/ ~Is(scheme, "SEQUENCE") \/ ~Is(data, "OCTET_STRING") THEN Absent
     ELSE IF kdf.v[1] # Oid("PBKDF2") \/ ~Is(kdfp, "SEQUENCE") THEN Absent
     ELSE IF ~Is(salt, "OCTET_STRING") \/ ~Is(iter, "INTEGER") \/ ~Is(iv, "OCTET_STRING") THEN Absent
     ELSE IF scheme.v[1].v[1] \notin {"AES128_CBC", "AES256_CBC"} \/ Len(iv.v) # 16 THEN Absent
     ELSE IF key = Absent THEN Absent
     ELSE aes_cbc_decrypt(key, len, iv.v, data.v)

private_key_from_pem_encrypted(pem, password) ==
  LET d == pem_decode_block(pem, "ENCRYPTED PRIVATE KEY")
      plain == pbes2_decrypt(d, password)
  IN IF d = Absent THEN Absent
     ELSE IF plain = Absent THEN Absent
     ELSE private_key_from_der(plain)

-----------------------------------------------------------------------------
(* Certificate requests: of the signature only the family is kept.         *)

csr_from_der(d) ==
  LET info == At(d.v, 1)
      alg  == At(d.v, 2)
      sig  == At(d.v, 3)
      spki == parse_spki(At(info.v, 3))
  IN IF ~Is(d, "SEQUENCE") THEN Absent
     ELSE IF ~Is(info, "SEQUENCE") \/ ~Is(alg, "SEQUENCE") \/ ~Is(sig, "BIT_STRING") THEN Absent
     ELSE IF ~Is(At(info.v, 1), "INTEGER") \/ ~Is(At(info.v, 2), "SEQUENCE") \/ ~Is(At(info.v, 3), "SEQUENCE") THEN Absent
     ELSE IF ~spki.ok THEN Absent
     ELSE [subject |-> parse_dn(info.v[2].v), key_type |-> spki.kt, public_key |-> spki.key,
           sign_key_type |-> ParseSigAlgo(x509_cert, alg).sign_key_type,
           signature |-> Tail(sig.v), tbs_raw |-> info]

csr_from_pem(pem) ==
  LET d == pem_decode_block(pem, "CERTIFICATE REQUEST") IN IF d = Absent THEN Absent ELSE csr_from_der(d)

-----------------------------------------------------------------------------
(* What a server is given: a certificate or a request, and its key.  pub    *)
(* and priv are unions, `as` says which member was written.                *)

tls_key_type_to_sig_alg(kt) == IF kt \in RsaTypes THEN "RSA_PKCS1_SHA256" ELSE kt

CommonNames(subject) == SelectSeq(subject, LAMBDA a : a.oid = "CN")

common_name(c) == IF CommonNames(c.subject) = <<>> THEN "" ELSE CommonNames(c.subject)[1].value

csr_common_name(req) ==
  CASE CommonNames(req.subject) # <<>> -> CommonNames(req.subject)[1].value
    [] OTHER -> IF req.subject # <<>> THEN req.subject[1].value ELSE "localhost"

rsa_bits_of(kt) ==
  CASE kt = "RSA_2048" -> 2048 [] kt = "RSA_3072" -> 3072 [] kt = "RSA_4096" -> 4096 [] OTHER -> 0

\* A point and a secret number of a curve are two units each.
PubSize(kt) == IF kt \in RsaTypes THEN rsa_mod_bytes(kt) + 3 ELSE 2

PrivSize(kt) ==
  CASE kt \in RsaTypes -> rsa_mod_bytes(kt) [] kt = "Ed25519" -> 64 [] kt = "Ed448" -> 57 [] OTHER -> 2

tls_certificate ==
  [subject_name |-> "", cert_data |-> Absent, pub |-> Absent, priv |-> Absent, rsa4096 |-> FALSE,
   sig_alg |-> Absent, rsa_bits |-> 0]

fill_pub(out, kt, pub) ==
  IF Len(pub) < PubSize(kt) THEN Absent
  ELSE [out EXCEPT !.pub = [as |-> kt, v |-> SubSeq(pub, 1, PubSize(kt))], !.rsa4096 = @ \/ kt = "RSA_4096"]

\* The modulus comes with the key; a CRT number of another size is left out.
fill_priv(out, k) ==
  LET kt   == k.key_type
      half == rsa_mod_bytes(kt) \div 2
  IN IF Len(k.priv) < PrivSize(kt) \/ (kt \in RsaTypes /\ Len(k.pub) < PubSize(kt)) THEN Absent
     ELSE [out EXCEPT !.rsa4096 = @ \/ kt = "RSA_4096",
                      !.priv = [as |-> kt, d |-> SubSeq(k.priv, 1, PrivSize(kt)),
                                n |-> IF kt \in RsaTypes THEN k.pub ELSE <<>>,
                                crt |-> IF kt \notin RsaTypes THEN <<>>
                                        ELSE [i \in 1..5 |-> IF Len(k.crt[i]) = half THEN k.crt[i] ELSE <<>>]]]

Filled(out, kt, pub, k) ==
  LET p == fill_pub(out, kt, pub) IN IF p = Absent THEN Absent ELSE fill_priv(p, k)

\* The certificate is kept as it was read: encoding it again moves extensions.
\* rsa_bits is not set here.
tls_certificate_from_pem(cert_pem, key_pem) ==
  LET der == pem_decode_block(cert_pem, "CERTIFICATE")
      c   == from_der(der)
      k   == private_key_from_pem(key_pem)
      out == [tls_certificate EXCEPT !.subject_name = common_name(c), !.cert_data = der,
                                     !.sig_alg = tls_key_type_to_sig_alg(c.key_type)]
  IN IF der = Absent THEN Absent
     ELSE IF c = Absent \/ k = Absent THEN Absent
     ELSE IF k.key_type # c.key_type THEN Absent ELSE Filled(out, c.key_type, c.public_key, k)

\* Without a certificate, one is made of the request at the handshake.
from_csr_pem(csr_pem, key_pem) ==
  LET req == csr_from_pem(csr_pem)
      k   == private_key_from_pem(key_pem)
      out == [tls_certificate EXCEPT !.subject_name = csr_common_name(req),
                                     !.sig_alg = tls_key_type_to_sig_alg(req.key_type),
                                     !.rsa_bits = rsa_bits_of(req.key_type)]
  IN IF req = Absent \/ k = Absent THEN Absent
     ELSE IF k.key_type # req.key_type THEN Absent ELSE Filled(out, req.key_type, req.public_key, k)

\* The member of the union that signs.
rsa_tier_of(cert) ==
  CASE cert.rsa_bits = 3072 -> "RSA_3072"
    [] cert.rsa_bits = 4096 \/ (cert.rsa_bits # 3072 /\ cert.rsa4096) -> "RSA_4096"
    [] OTHER -> "RSA_2048"

-----------------------------------------------------------------------------
(* Trust stores.                                                           *)

\* Every block that can be read; the others are passed over.
parse_all_pem_certs(pem) ==
  LET blocks == SelectSeq(pem, LAMBDA b : b.label = "CERTIFICATE")
      certs  == [i \in DOMAIN blocks |-> from_der(blocks[i].der)]
  IN SelectSeq(certs, LAMBDA c : c # Absent)

trust_store_from_pem(pem) == parse_all_pem_certs(pem)

\* The first file with a certificate, the one of the environment before the
\* others; what the first call finds, nothing too, is what every call returns.
\* A file that cannot be read is empty.
from_system(st, env, files) ==
  LET all    == (IF env = Absent THEN <<>> ELSE <<env>>) \o files
      stores == [i \in DOMAIN all |-> trust_store_from_pem(all[i])]
      found  == SelectSeq(stores, LAMBDA x : x # <<>>)
  IN IF st.loaded THEN st ELSE [loaded |-> TRUE, cached |-> IF found = <<>> THEN <<>> ELSE found[1]]
=============================================================================
