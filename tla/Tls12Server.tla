---------------------------- MODULE Tls12Server ----------------------------
(***************************************************************************)
(* The server's half of the TLS 1.2 handshake                              *)
(* (src/src/tls12_server.cpp).                                             *)
(***************************************************************************)
EXTENDS Tls12Client

\* EdDSA and SM2 certificates count as ECDSA ones.
tls12_cert_is_ecdsa(cert) == cert # None /\ cert.key_type \notin RsaKeys

\* A suite the server can serve with its certificate, its PSKs and the finite
\* field groups the client lists.
Fits12(cs, cert, psks, ch) ==
    LET ffdhe == {"ffdhe2048", "ffdhe3072", "ffdhe4096"} \cap ToSet(ch.groups)
    IN /\ tls12_is_dhe(cs) /\ ffdhe # {} => "ffdhe2048" \in ffdhe
       /\ IF tls12_is_psk(cs) THEN psks # <<>>
          ELSE /\ cert # None
               /\ IF tls12_is_ecdhe(cs)
                  THEN (cs.auth = "ECDSA") = tls12_cert_is_ecdsa(cert)
                  ELSE ~tls12_cert_is_ecdsa(cert)

\* The first suite of the server's list that is offered and fits.  A server of
\* another make may have fewer suites enabled.
tls12_select_server_suite(ch, cert, psks, enabled) ==
    FirstIn(tls12_server_suites,
            {cs \in ToSet(ch.suites) : cs \in enabled /\ Fits12(cs, cert, psks, ch)})

select_group12(suite, ch) ==
    CASE tls12_is_dhe(suite) -> "ffdhe2048"
      [] tls12_is_ecdhe(suite) ->
           LET g == FirstIn(<<"P256", "P384", "X448">>, ToSet(ch.groups))
           IN IF g = None THEN "X25519" ELSE g
      [] OTHER -> None

\* The scheme of the key exchange; without the client's list, the certificate's
\* own.  None when the lists leave none.
select_sig_alg12(s, ch, cert) ==
    IF /\ ch.sig_algs_cert # <<>>
       /\ x509_key_type_chain_scheme(cert.sign_key_type) \notin ToSet(ch.sig_algs_cert)
    THEN None
    ELSE IF ch.sig_algs = <<>> THEN tls_key_type_to_sig_alg(cert.key_type)
         ELSE select_signature_scheme(ch.sig_algs, cert.key_type, s.sig_algs, FALSE)

Signed(suite) == suite.kx \in {"ECDHE", "DHE"}

\* ServerKeyExchange: signed parameters, or unsigned ones for DHE_PSK.  ECDHE
\* leaves the message out when signing fails.
MakeServerKeyExchange(suite, group, alg, cert) ==
    LET share == KeyPair("server", group)
        skx(sig) == <<[type |-> "server_key_exchange", share |-> share, sig |-> sig]>>
    IN CASE Signed(suite) -> IF sign_scheme(alg)
                             THEN skx(Signature(cert, alg, SkxContent(share))) ELSE <<>>
         [] suite.kx = "DHE_PSK" -> skx(None)
         [] OTHER -> <<>>

tls12_make_server_hello_flight(s0, ch, manager, psks, enabled) ==
    LET cert == get_certificate(manager, ch.sni)
        suite == tls12_select_server_suite(ch, cert, psks, enabled)
        group == select_group12(suite, ch)
        alg == IF Signed(suite) THEN select_sig_alg12(s0, ch, cert) ELSE s0.sig_alg
        skx == MakeServerKeyExchange(suite, group, alg, cert)
        sh == [type |-> "server_hello", suite |-> suite, ems |-> ch.ems,
               session_id |-> "fresh id"]
        msgs == <<sh>>
                \o (IF tls12_is_psk(suite) THEN <<>> ELSE <<tls13_make_certificate(cert)>>)
                \o skx \o <<[type |-> "server_hello_done"]>>
        s1 == [s0 EXCEPT !.suite = suite, !.ems = ch.ems, !.sni = ch.sni,
                         !.transcript = <<>>, !.session_id = "fresh id", !.sig_alg = alg,
                         !.ks_group = IF group = None THEN @ ELSE group,
                         !.ks_priv = IF group = None THEN @ ELSE KeyPair("server", group)]
    IN IF \/ suite = None
          \/ ~(ToSet(ch.sig_algs_cert) \subseteq ToSet(ch.sig_algs))
          \/ Signed(suite) /\ alg = None
          \/ suite.kx = "DHE" /\ skx = <<>>
       THEN [ok |-> FALSE, s |-> s0, msgs |-> <<>>]
       ELSE [ok |-> TRUE, s |-> transcript_updates(s1, <<ch>> \o msgs), msgs |-> msgs]

\* The premaster from the ClientKeyExchange; an unknown PSK identity and a
\* premaster for another key are refused.
tls12_process_client_key_exchange(s, m, cert, psks) ==
    LET known == SelectSeq(psks, LAMBDA e : e.id = m.identity)
        keys(premaster) == [ok |-> TRUE, s |-> tls12_derive_keys(s, premaster)]
        no == [ok |-> FALSE, s |-> s]
        secret == Ecdh(s.ks_priv, m.share)
    IN CASE s.suite.kx \in {"ECDHE", "DHE"} -> keys(secret)
         [] tls12_is_psk(s.suite) /\ known = <<>> -> no
         [] s.suite.kx = "DHE_PSK" /\ known # <<>>
              -> keys(tls12_psk_premaster(Head(known).value, secret))
         [] s.suite.kx = "PSK" /\ known # <<>>
              -> keys(tls12_psk_premaster(Head(known).value, <<>>))
         [] s.suite.kx = "RSA" ->
              IF m.enc.to = cert.key THEN keys(<<"rsa", m.enc.pms>>) ELSE no
=============================================================================
