--------------------------- MODULE TlsParameters ---------------------------
(***************************************************************************)
(* The parameters a TLS handshake of jpssl negotiates: cipher suites,      *)
(* key exchange groups, signature schemes and application protocols        *)
(* (src/include/tls.hpp, src/src/tls_router.cpp).  A cipher suite is the   *)
(* record of the parts of its name, a signature scheme the triple of its    *)
(* key family, padding and hash.                                           *)
(***************************************************************************)
EXTENDS Naturals, Sequences, FiniteSets, FiniteSetsExt, SequencesExt

CONSTANT None      \* no key, no certificate, no scheme, no session id

Suite(kx, auth, aead, hash) ==
    [kx |-> kx, auth |-> auth, aead |-> aead, hash |-> hash]

AES_128_GCM == Suite("TLS13", "ANY", "AES_128_GCM", "SHA256")
AES_256_GCM == Suite("TLS13", "ANY", "AES_256_GCM", "SHA384")
CHACHA20 == Suite("TLS13", "ANY", "CHACHA20", "SHA256")
AES_128_CCM == Suite("TLS13", "ANY", "AES_128_CCM", "SHA256")
AES_128_CCM_8 == Suite("TLS13", "ANY", "AES_128_CCM_8", "SHA256")
SM4_GCM == Suite("TLS13", "ANY", "SM4_GCM", "SM3")
SM4_CCM == Suite("TLS13", "ANY", "SM4_CCM", "SM3")

Tls13Suites == {AES_128_GCM, AES_256_GCM, CHACHA20, AES_128_CCM,
                AES_128_CCM_8, SM4_GCM, SM4_CCM}

Ecdhe(auth, aead, hash) == Suite("ECDHE", auth, aead, hash)
DheRsa(aead, hash) == Suite("DHE", "RSA", aead, hash)
Rsa(aead, hash) == Suite("RSA", "RSA", aead, hash)
Psk(aead, hash) == Suite("PSK", "PSK", aead, hash)
DhePsk(aead, hash) == Suite("DHE_PSK", "PSK", aead, hash)

\* The certificate suites of TLS 1.2, in the order both sides prefer them.
tls12_client_suites == <<
    Ecdhe("ECDSA", "AES_256_GCM", "SHA384"), Ecdhe("ECDSA", "CHACHA20", "SHA256"),
    Ecdhe("RSA", "AES_256_GCM", "SHA384"), Ecdhe("RSA", "CHACHA20", "SHA256"),
    Ecdhe("ECDSA", "AES_128_GCM", "SHA256"), Ecdhe("RSA", "AES_128_GCM", "SHA256"),
    DheRsa("AES_256_GCM", "SHA384"), DheRsa("AES_128_GCM", "SHA256"),
    DheRsa("CHACHA20", "SHA256"),
    DheRsa("AES_256_CBC", "SHA256"), DheRsa("AES_128_CBC", "SHA256"),
    Rsa("AES_256_GCM", "SHA384"), Rsa("AES_128_GCM", "SHA256"),
    Rsa("AES_256_CBC", "SHA256"), Rsa("AES_128_CBC", "SHA256") >>

\* The pre-shared key suites, offered only by a client that has a key.
tls12_psk_suites == <<
    DhePsk("AES_256_GCM", "SHA384"), DhePsk("AES_128_GCM", "SHA256"),
    DhePsk("CHACHA20", "SHA256"),
    DhePsk("AES_256_CBC", "SHA384"), DhePsk("AES_128_CBC", "SHA256"),
    Psk("AES_256_GCM", "SHA384"), Psk("AES_128_GCM", "SHA256"),
    Psk("CHACHA20", "SHA256"),
    Psk("AES_256_CBC", "SHA384"), Psk("AES_128_CBC", "SHA256") >>

\* The server's order: certificate suites first, then the PSK suites.
tls12_server_suites == tls12_client_suites \o tls12_psk_suites

KnownSuites == Tls13Suites \cup ToSet(tls12_server_suites)

\* A code that select_cipher_suite does not know is CipherSuite::UNKNOWN, here None.
select_cipher_suite(id) == IF id \in KnownSuites THEN id ELSE None

tls_use_sm3(cs) == cs.hash = "SM3"
tls12_is_psk(cs) == cs.kx \in {"PSK", "DHE_PSK"}
tls12_is_dhe(cs) == cs.kx \in {"DHE", "DHE_PSK"}
tls12_is_ecdhe(cs) == cs.kx = "ECDHE"
tls12_is_cbc(cs) == cs.aead \in {"AES_128_CBC", "AES_256_CBC"}

\* The transcript hash and the PRF of a suite.
tls_hash_len(cs) == IF cs.hash = "SHA384" THEN 48 ELSE 32
aes_key_len(cs) ==
    IF cs.aead \in {"AES_256_GCM", "AES_256_CBC", "CHACHA20"} THEN 32 ELSE 16

---------------------------------------------------------------------------
\* Signature schemes: the key family, the padding or encoding and the hash.
Scheme(fam, pad, hash) == [fam |-> fam, pad |-> pad, hash |-> hash]

ED25519 == Scheme("ED25519", "pure", "SHA512")
ED448 == Scheme("ED448", "pure", "SHAKE256")
ECDSA_P256 == Scheme("P256", "der", "SHA256")
ECDSA_P384 == Scheme("P384", "der", "SHA384")
ECDSA_P521 == Scheme("P521", "der", "SHA512")
RSA_PSS(h) == Scheme("RSA", "pss", h)
RSA_PKCS1(h) == Scheme("RSA", "pkcs1", h)
SM2_SM3 == Scheme("SM2", "der", "SM3")

tls_default_signature_algorithms == <<
    ED25519, ED448, ECDSA_P256, ECDSA_P384, ECDSA_P521,
    RSA_PSS("SHA256"), RSA_PSS("SHA384"), RSA_PSS("SHA512"),
    RSA_PKCS1("SHA256"), RSA_PKCS1("SHA384"), RSA_PKCS1("SHA512"), SM2_SM3 >>

\* An empty configured list stands for the default one.
OrDefault(algs) ==
    IF algs = <<>> THEN tls_default_signature_algorithms ELSE algs

\* CertificateVerify of TLS 1.3 excludes the rsa_pkcs1 schemes.
tls_scheme_allowed_for_cert_verify(scheme) ==
    scheme \in ToSet(tls_default_signature_algorithms)
               \ {RSA_PKCS1(h) : h \in {"SHA256", "SHA384", "SHA512"}}

\* Key types of a certificate: the RSA sizes share one family and one scheme.
RsaKeys == {"RSA_2048", "RSA_3072", "RSA_4096"}
tls_key_type_to_sig_alg(kt) ==
    CASE kt \in RsaKeys -> RSA_PKCS1("SHA256")
      [] kt = "ED25519" -> ED25519
      [] kt = "ED448" -> ED448
      [] kt = "P256" -> ECDSA_P256
      [] kt = "P384" -> ECDSA_P384
      [] kt = "P521" -> ECDSA_P521
      [] kt = "SM2" -> SM2_SM3

\* The scheme that signed a certificate, judged by the key that signed it.
x509_key_type_chain_scheme(kt) == tls_key_type_to_sig_alg(kt)

\* First element of a sequence that lies in a set, or None.
FirstIn(seq, S) ==
    LET hits == {i \in DOMAIN seq : seq[i] \in S}
    IN IF hits = {} THEN None ELSE seq[Min(hits)]

\* The server takes the first scheme of the client's list that it supports and
\* that fits its certificate's key.
select_signature_scheme(peer, kt, local, tls13) ==
    FirstIn(peer, {s \in ToSet(OrDefault(local)) :
                     /\ s.fam = tls_key_type_to_sig_alg(kt).fam
                     /\ tls13 => tls_scheme_allowed_for_cert_verify(s)})

\* ALPN: the client's preference decides.
tls_select_alpn(client, server) ==
    LET p == FirstIn(client, ToSet(server)) IN IF p = None THEN "" ELSE p

\* The bytes of the two integers of an ECDSA signature (r or s below the group
\* order, top bit clear or not); the DER writer has one length byte.
EcdsaField(fam) == CASE fam \in {"P256", "SM2"} -> 32
                     [] fam = "P384" -> 48
                     [] fam = "P521" -> 66

ecdsa_sign_to_der(fam) == 2 + EcdsaField(fam) + 2 + EcdsaField(fam) =< 127

\* sign_scheme: EdDSA and RSA always sign, the others need a DER encoding.
sign_scheme(scheme) ==
    scheme.fam \in {"P256", "P384", "P521", "SM2"} => ecdsa_sign_to_der(scheme.fam)
=============================================================================
