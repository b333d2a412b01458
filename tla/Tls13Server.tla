---------------------------- MODULE Tls13Server ----------------------------
(***************************************************************************)
(* The server's half of the TLS 1.3 handshake                              *)
(* (src/src/tls13_server.cpp): what it selects from a ClientHello, the     *)
(* flight it answers with, and the client's Finished.                      *)
(***************************************************************************)
EXTENDS Tls13Client

\* A pinned suite is kept if it is usable; else the national suites for an SM2
\* certificate, then the server's own order.  None: no common suite.
select_suite13(s, ch, cert) ==
    LET usable(cs) == /\ cs \in ToSet(ch.suites)
                      /\ tls_use_sm3(cs) => cert.key_type = "SM2" /\ ~s.quic
        order == (IF s.pinned THEN <<s.suite>> ELSE <<>>)
                 \o <<SM4_GCM, SM4_CCM, CHACHA20, AES_128_GCM, AES_256_GCM,
                      AES_128_CCM, AES_128_CCM_8>>
    IN FirstIn(order, {cs \in Tls13Suites : usable(cs)})

\* Mutant: the group of any share, curveSM2 with any suite.
select_group13_First(suite, ch) ==
    IF ch.shares = <<>> THEN None ELSE Head(ch.shares).group

\* curveSM2 goes with the national suites and with no other; then P-256, P-384,
\* X448 with a share and an announced group, and X25519 with a share.
select_group13(suite, ch) ==
    LET shared == {ch.shares[i].group : i \in DOMAIN ch.shares}
        usable == {g \in shared : g # "X25519" => g \in ToSet(ch.groups)}
    IN IF tls_use_sm3(suite)
       THEN FirstIn(<<"SM2">>, usable)
       ELSE FirstIn(<<"P256", "P384", "X448", "X25519">>, usable)

\* The scheme of CertificateVerify, or None when the lists leave none or the
\* certificate itself is signed with a scheme the client did not list.
select_sig_alg13(s, ch, cert) ==
    IF \/ ch.sig_algs = <<>>
       \/ ~(ToSet(ch.sig_algs_cert) \subseteq ToSet(ch.sig_algs))
       \/ /\ ch.sig_algs_cert # <<>>
          /\ x509_key_type_chain_scheme(cert.sign_key_type) \notin ToSet(ch.sig_algs_cert)
    THEN None
    ELSE select_signature_scheme(ch.sig_algs, cert.key_type, s.sig_algs, TRUE)

tls13_make_encrypted_extensions(s) ==
    [type |-> "encrypted_extensions", alpn |-> s.alpn, tp |-> s.quic]

tls13_make_certificate(cert) == [type |-> "certificate", chain |-> <<cert>>]

\* No message at all when signing fails.
tls13_make_cert_verify(cert, s) ==
    IF sign_scheme(s.sig_alg)
    THEN <<[type |-> "cert_verify", alg |-> s.sig_alg,
            sig |-> Signature(cert, s.sig_alg, tls13_cert_verify_content(s))]>>
    ELSE <<>>

\* The flight: ServerHello in the clear, then the protected messages.
tls13_make_server_flight(s0, ch, manager) ==
    LET cert == get_certificate(manager, ch.sni)
        suite == select_suite13(s0, ch, cert)
        group == select_group13(suite, ch)
        alg == select_sig_alg13(s0, ch, cert)
        share == CHOOSE k \in ToSet(ch.shares) : k.group = group
        s1 == [s0 EXCEPT !.suite = suite, !.transcript = <<>>, !.sni = ch.sni,
                         !.alpn = IF s0.alpn_protos = <<>> THEN ""
                                  ELSE tls_select_alpn(ch.alpn, s0.alpn_protos),
                         !.sig_alg = alg, !.ks_group = group]
        sh == [type |-> "server_hello", suite |-> suite,
               share |-> KeyPair("server", group)]
        s2 == tls13_derive_handshake_keys(transcript_updates(s1, <<ch, sh>>),
                                          Ecdh(KeyPair("server", group), share))
        ee == tls13_make_encrypted_extensions(s2)
        s3 == transcript_updates(s2, <<ee, tls13_make_certificate(cert)>>)
        cv == tls13_make_cert_verify(cert, s3)
        s4 == transcript_updates(s3, cv)
        sf == Finished(s4, "server")
        s5 == transcript_update(s4, sf)
        msgs == <<ee, tls13_make_certificate(cert)>> \o cv \o <<sf>>
    IN IF cert = None \/ suite = None \/ group = None \/ alg = None \/ (s0.quic /\ ~ch.tp)
       THEN [ok |-> FALSE, s |-> s0, recs |-> <<>>]
       ELSE [ok |-> TRUE,
             s |-> IF s0.quic THEN s5 ELSE Advance(s5, "server"),
             recs |-> IF s0.quic THEN <<Record("handshake", <<sh>> \o msgs)>>
                      ELSE <<Record("handshake", <<sh>>),
                             Protected(s5, "application_data", msgs)>>]

\* Mutant: the application keys also cover the client's Finished.
tls13_process_client_finished_Late(s, r) ==
    LET m == Head(r.msgs)
        s1 == IF s.quic THEN s ELSE Advance(s, "client")
    IN IF (s.quic \/ CanOpen(s, r)) /\ verify_finished(s, m, "client")
       THEN [ok |-> TRUE,
             s |-> [tls13_derive_application_keys(transcript_update(s1, m))
                    EXCEPT !.finished = TRUE]]
       ELSE [ok |-> FALSE, s |-> s]

\* The client's Finished; the application keys only after it verified.
tls13_process_client_finished(s, r) ==
    LET m == Head(r.msgs)
        s1 == IF s.quic THEN s ELSE Advance(s, "client")
    IN IF (s.quic \/ CanOpen(s, r)) /\ verify_finished(s, m, "client")
       THEN [ok |-> TRUE,
             s |-> [transcript_update(tls13_derive_application_keys(s1), m)
                    EXCEPT !.finished = TRUE]]
       ELSE [ok |-> FALSE, s |-> s]
=============================================================================
