---------------------------- MODULE Tls12Client ----------------------------
(***************************************************************************)
(* The client's half of the TLS 1.2 handshake                              *)
(* (src/src/tls12_client.cpp).                                             *)
(***************************************************************************)
EXTENDS Tls13Server

tls12_client_suite_list(s) ==
    tls12_client_suites \o (IF s.psk = None THEN <<>> ELSE tls12_psk_suites)

tls12_make_client_hello(s) ==
    LET hello == [type |-> "client_hello", versions |-> {"1.2"},
                  suites |-> tls12_client_suite_list(s),
                  groups |-> <<"X25519", "P256", "P384", "P521", "ffdhe2048">>,
                  shares |-> <<>>,
                  sig_algs |-> OrDefault(s.sig_algs),
                  sig_algs_cert |-> OfferedCertAlgs(s),
                  alpn |-> <<>>, sni |-> s.sni, tp |-> FALSE,
                  ems |-> TRUE, session_id |-> None]
    IN [s |-> [s EXCEPT !.transcript = <<>>, !.ch_cache = <<hello>>], msg |-> hello]

\* The master secret covers the transcript when both sides announced the
\* extension; the key block follows from it and restarts the counters.
tls12_derive_keys(s, premaster) ==
    LET master == <<"master", premaster, IF s.ems THEN s.transcript ELSE <<>>>>
    IN NewKey([s EXCEPT !.base = master], <<"tls12", master>>)

tls12_psk_premaster(psk, other) == <<"psk", psk, other>>

\* What the ServerKeyExchange signs.
SkxContent(share) == <<"randoms", share>>

tls12_verify_skx_signature(cert, skx) ==
    verify_scheme(cert, skx.sig, SkxContent(skx.share))

\* The messages of the flight in order; Finished ends it, anything else enters
\* the transcript.
FlightStep(p, m, trust) ==
    LET s == transcript_update(p.s, m)
        stored == ~s.skip /\ trust.kind = "store"
    IN CASE ~p.ok \/ m.type = "finished" -> p
         [] p.ok /\ m.type = "certificate" ->
              IF /\ m.chain # <<>> /\ ChainAlgorithmsOk(s, m.chain)
                 /\ stored => tls13_verify_server_chain(m.chain, trust.roots, s.sni)
              THEN [p EXCEPT !.s = s, !.leaf = Head(m.chain),
                             !.cert = IF stored THEN Head(m.chain) ELSE @]
              ELSE Refused(p)
         [] p.ok /\ m.type = "server_key_exchange" ->
              IF m.share.group \in {"X25519", "P256", "P384", "P521", "ffdhe2048"}
              THEN [p EXCEPT !.s = s, !.skx = m] ELSE Refused(p)
         [] OTHER -> [p EXCEPT !.s = s]

\* The certificate the server is held to: the validated leaf, else the one the
\* certificate manager expects, else, when there is no manager or it holds nothing
\* at all, the one that was sent; none with verification switched off.
ServerCert(p, trust) ==
    LET expected == IF trust.kind = "manager" THEN get_certificate(trust.manager, p.s.sni)
                    ELSE None
    IN CASE p.s.skip -> None
         [] ~p.s.skip /\ p.cert # None -> p.cert
         [] ~p.s.skip /\ p.cert = None /\ expected # None -> expected
         [] OTHER -> p.leaf

\* A signed key exchange is required and checked unless verification is off.
SkxAccepted(s, skx, cert) ==
    \/ s.skip
    \/ /\ skx # None /\ skx.sig # None /\ cert # None
       /\ skx.sig.alg \in ToSet(OrDefault(s.sig_algs))
       /\ tls12_verify_skx_signature(cert, skx)

\* ClientKeyExchange: a share, a PSK identity, an encrypted premaster.  The
\* header written for an RSA key of 3072 bits has two length bytes instead of
\* three.
Cke(share, identity, enc, framed) ==
    [type |-> "client_key_exchange", share |-> share, identity |-> identity,
     enc |-> enc, framed |-> framed]

Exchanged(premaster, cke) == [ok |-> TRUE, premaster |-> premaster, cke |-> <<cke>>]
NoExchange == [ok |-> FALSE, premaster |-> None, cke |-> <<>>]

MakeClientKeyExchange(s, skx, cert) ==
    LET own == KeyPair("client", skx.share.group)
        secret == Ecdh(own, skx.share)
        enc == [to |-> cert.key, pms |-> "client pms"]
    IN CASE s.suite.kx \in {"ECDHE", "DHE"} ->
              IF SkxAccepted(s, skx, cert) /\ skx # None
              THEN Exchanged(secret, Cke(own, None, None, TRUE)) ELSE NoExchange
         [] s.suite.kx = "DHE_PSK" ->
              IF skx # None /\ s.psk # None
              THEN Exchanged(tls12_psk_premaster(s.psk.value, secret),
                             Cke(own, s.psk.id, None, TRUE))
              ELSE NoExchange
         [] s.suite.kx = "PSK" ->
              IF s.psk # None
              THEN Exchanged(tls12_psk_premaster(s.psk.value, <<>>),
                             Cke(None, s.psk.id, None, TRUE))
              ELSE NoExchange
         [] s.suite.kx = "RSA" ->
              IF cert # None
              THEN Exchanged(<<"rsa", "client pms">>,
                             Cke(None, None, enc, cert.key_type # "RSA_3072"))
              ELSE [ok |-> TRUE, premaster |-> <<"rsa", "client pms">>, cke |-> <<>>]

\* The server's flight up to ServerHelloDone; the result carries the two
\* messages the driver sends.
tls12_process_server_flight(s0, msgs, trust) ==
    LET sh == Head(msgs)
        s1 == transcript_updates([s0 EXCEPT !.suite = sh.suite, !.ems = sh.ems,
                                            !.session_id = sh.session_id],
                                 s0.ch_cache \o <<sh>>)
        p == FoldLeft(LAMBDA a, m : FlightStep(a, m, trust),
                      [s |-> s1, ok |-> TRUE, cert |-> None, leaf |-> None, skx |-> None],
                      Tail(msgs))
        cert == ServerCert(p, trust)
        x == MakeClientKeyExchange(p.s, p.skx, cert)
        s2 == tls12_derive_keys(transcript_updates(p.s, x.cke), x.premaster)
        cf == Finished(s2, "client")
        s3 == [transcript_update(s2, cf)
               EXCEPT !.verified = cert # None /\ s2.suite.kx \in {"ECDHE", "DHE"},
                      !.sig_alg = IF p.skx = None \/ p.skx.sig = None THEN None
                                  ELSE p.skx.sig.alg]
    IN IF \/ sh.type # "server_hello"
          \/ sh.suite \notin ToSet(tls12_client_suite_list(s0))
          \/ ~p.ok \/ ~x.ok
       THEN [ok |-> FALSE, s |-> s0, cke |-> <<>>, cf |-> None]
       ELSE [ok |-> TRUE, s |-> s3, cke |-> x.cke, cf |-> cf]
=============================================================================
