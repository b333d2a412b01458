---------------------------- MODULE Tls13Client ----------------------------
(***************************************************************************)
(* The client's half of the TLS 1.3 handshake                              *)
(* (src/src/tls13_client.cpp): the ClientHello it offers and what it makes *)
(* of the server's flight.  Every operator returns the session it leaves,  *)
(* whether it succeeded, and the message it produced.                      *)
(***************************************************************************)
EXTENDS TlsSession

NonSmGroups == {"X448", "P256", "P384"}

\* The national suites are offered unless QUIC, another group or another
\* pinned suite excludes them.
OfferSm(s) == /\ ~s.quic
              /\ s.ks_group \notin NonSmGroups
              /\ s.pinned => tls_use_sm3(s.suite)

\* cs_push: a suite that is already in the list is not added again.
CsPush(list, cs) == IF cs \in ToSet(list) THEN list ELSE Append(list, cs)

OfferedSuites(s) ==
    FoldLeft(CsPush, <<>>,
        (IF s.pinned /\ ~(s.quic /\ tls_use_sm3(s.suite)) THEN <<s.suite>> ELSE <<>>)
        \o (IF OfferSm(s) THEN <<SM4_GCM, SM4_CCM>> ELSE <<>>)
        \o <<CHACHA20, AES_128_GCM, AES_256_GCM, AES_128_CCM, AES_128_CCM_8>>)

OfferedGroups(s) == CASE OfferSm(s) -> <<"SM2", "X25519">>
                      [] s.ks_group \in NonSmGroups -> <<s.ks_group, "X25519">>
                      [] OTHER -> <<"X25519">>

\* One key share, or both curveSM2 and X25519 with a private key for each.  The
\* transcript waits for the suite: the hello is kept aside.
tls13_make_client_hello(s) ==
    LET shares == IF OfferSm(s) THEN <<"SM2", "X25519">>
                  ELSE IF s.ks_group \in NonSmGroups THEN <<s.ks_group>> ELSE <<"X25519">>
        hello == [type |-> "client_hello", versions |-> {"1.3"},
                  suites |-> OfferedSuites(s), groups |-> OfferedGroups(s),
                  shares |-> [i \in DOMAIN shares |-> KeyPair("client", shares[i])],
                  sig_algs |-> OrDefault(s.sig_algs),
                  sig_algs_cert |-> OfferedCertAlgs(s),
                  alpn |-> s.alpn_protos, sni |-> s.sni, tp |-> s.quic,
                  ems |-> FALSE, session_id |-> None]
    IN [s |-> [s EXCEPT !.transcript = <<>>, !.ch_cache = <<hello>>,
                        !.ks_group = Head(shares),
                        !.ks_priv = KeyPair("client", Head(shares)),
                        !.ks_priv_x25519 = IF OfferSm(s) THEN KeyPair("client", "X25519")
                                           ELSE @],
        msg |-> hello]

---------------------------------------------------------------------------
\* Mutant: the fallback to X25519 computes with the key of the group asked for.
ClientPriv_NoFallback(s, share) == s.ks_priv

\* The private key that meets the server's share: the one of the group that was
\* asked for, or for a server that fell back to X25519 the one kept for that.
\* A client that asked for X448 has none and computes with other bytes.
ClientPriv(s, share) ==
    CASE share.group = s.ks_group -> s.ks_priv
      [] s.ks_group = "SM2" -> s.ks_priv_x25519
      [] s.ks_group = "X448" -> None
      [] OTHER -> s.ks_priv

tls13_derive_handshake_keys(s, secret) ==
    LET hs == <<"handshake", secret, s.transcript>>
    IN NewKey([s EXCEPT !.base = hs], hs)

tls13_derive_application_keys(s) ==
    NewKey(s, <<"application", s.base, s.transcript>>)

tls13_cert_verify_content(s) == <<"server CertificateVerify", s.transcript>>

tls13_verify_cert_verify(cert, s, m) ==
    /\ m.alg \in ToSet(OrDefault(s.sig_algs))
    /\ tls_scheme_allowed_for_cert_verify(m.alg)
    /\ verify_scheme(cert, m.sig, tls13_cert_verify_content(s))

\* State of the parse: the session, the certificate the signature is checked
\* against, and whether a message was refused.
Parse(s) == [s |-> s, cert |-> None, ok |-> TRUE]
Refused(p) == [p EXCEPT !.ok = FALSE]

OnEncryptedExtensions(p, m) ==
    LET s == [transcript_update(p.s, m) EXCEPT !.alpn = m.alpn]
    IN IF \/ p.s.quic /\ ~m.tp
          \/ p.s.alpn_protos # <<>> /\ m.alpn # "" /\ m.alpn \notin ToSet(p.s.alpn_protos)
       THEN Refused(p) ELSE [p EXCEPT !.s = s]

\* With a trust store the chain is validated and its leaf is used; otherwise
\* the certificate manager supplies the certificate that is expected.
OnCertificate(p, m, trust) ==
    LET s == transcript_update(p.s, m)
        stored == ~s.skip /\ trust.kind = "store"
    IN IF \/ ~ChainAlgorithmsOk(s, m.chain)
          \/ stored /\ ~tls13_verify_server_chain(m.chain, trust.roots, s.sni)
       THEN Refused(p)
       ELSE [p EXCEPT !.s = s,
                      !.cert = CASE stored -> Head(m.chain)
                                 [] ~s.skip /\ trust.kind = "manager"
                                      -> get_certificate(trust.manager, s.sni)
                                 [] OTHER -> None]

OnCertVerify(p, m) ==
    IF ~p.s.skip /\ p.cert # None
    THEN IF tls13_verify_cert_verify(p.cert, p.s, m)
         THEN [p EXCEPT !.s = [transcript_update(p.s, m) EXCEPT !.verified = TRUE,
                                                               !.sig_alg = m.alg]]
         ELSE Refused(p)
    ELSE [p EXCEPT !.s = transcript_update(p.s, m)]

OnFinished(p, m) ==
    IF verify_finished(p.s, m, "server")
    THEN [p EXCEPT !.s = [transcript_update(p.s, m) EXCEPT !.finished = TRUE]]
    ELSE Refused(p)

OnMessage(p, m, trust) ==
    CASE ~p.ok -> p
      [] p.ok /\ m.type = "encrypted_extensions" -> OnEncryptedExtensions(p, m)
      [] p.ok /\ m.type = "certificate" -> OnCertificate(p, m, trust)
      [] p.ok /\ m.type = "cert_verify" -> OnCertVerify(p, m)
      [] p.ok /\ m.type = "finished" -> OnFinished(p, m)
      [] OTHER -> p

\* Records are opened in order; messages outside a protected record are taken
\* as they are.
OpenRecord(o, r) ==
    CASE ~o.ok -> o
      [] o.ok /\ r.type # "application_data" -> [o EXCEPT !.msgs = @ \o r.msgs]
      [] o.ok /\ r.type = "application_data" /\ CanOpen(o.s, r)
           -> [o EXCEPT !.msgs = @ \o r.msgs, !.s = Advance(o.s, "server")]
      [] OTHER -> [o EXCEPT !.ok = FALSE]

\* The whole flight: ServerHello, the key exchange, the protected messages, and
\* the client's own Finished under the handshake key, then the application keys.
tls13_process_server_flight(s0, flight, trust) ==
    LET sh == Head(Head(flight).msgs)
        s1 == transcript_updates([s0 EXCEPT !.suite = sh.suite, !.transcript = <<>>,
                                            !.ch_cache = <<>>],
                                 s0.ch_cache \o <<sh>>)
        s2 == tls13_derive_handshake_keys(s1, Ecdh(ClientPriv(s1, sh.share), sh.share))
        s3 == [s2 EXCEPT !.ks_group = sh.share.group]
        o == FoldLeft(OpenRecord, [s |-> s3, ok |-> TRUE, msgs |-> Tail(Head(flight).msgs)],
                      Tail(flight))
        p == FoldLeft(LAMBDA a, m : OnMessage(a, m, trust), Parse(o.s), o.msgs)
        cf == Finished(p.s, "client")
        rec == Protected(p.s, "application_data", <<cf>>)
        out == IF s0.quic THEN Record("handshake", <<cf>>) ELSE rec
    IN IF sh.type # "server_hello" \/ select_cipher_suite(sh.suite) = None \/ ~o.ok \/ ~p.ok
       THEN [ok |-> FALSE, s |-> s0, rec |-> None]
       ELSE [ok |-> TRUE,
             s |-> transcript_update(tls13_derive_application_keys(Advance(p.s, "client")), out),
             rec |-> out]
=============================================================================
