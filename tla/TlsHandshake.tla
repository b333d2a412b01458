---------------------------- MODULE TlsHandshake ----------------------------
(***************************************************************************)
(* Two tls_connections shake hands over TCP                                *)
(* (do_client_handshake, do_client_handshake_tls12 and do_server_handshake *)
(* of src/src/tls_socket.cpp), or two sessions over QUIC CRYPTO frames.    *)
(* The client does not know how many records the server's flight has: when *)
(* nothing more is readable it tries to process a copy of what it has, and *)
(* it gives up when nothing arrives for 250 ms.  conf is what the two      *)
(* applications configured; the server may be one of another make that     *)
(* splits its flight into several records and sends alerts.                *)
(***************************************************************************)
EXTENDS Tls12Server

CONSTANT Configurations

Lists(side) ==
    /\ side.sig_algs \in Seq([fam : STRING, pad : STRING, hash : STRING])
    /\ side.sig_algs_cert \in Seq([fam : STRING, pad : STRING, hash : STRING])
    /\ side.alpn \in Seq(STRING)

\* The client offers one version; QUIC is TLS 1.3, and both sides speak it or neither.
ASSUME ConfigurationsAssumption ==
    \A k \in Configurations :
        /\ Lists(k.client) /\ Lists(k.server)
        /\ k.client.ver \in {"1.2", "1.3"}
        /\ k.client.quic \in BOOLEAN
        /\ k.client.quic => k.client.ver = "1.3" /\ k.server.quic = TRUE

VARIABLES conf,   \* [client, server, slow]: configuration of the two sides
          c,      \* client: [s, pc, flight, tried, fin]
          v,      \* server: [s, pc, out, cert]
          c2s,    \* records on their way to the server
          s2c     \* records on their way to the client

vars == <<conf, c, v, c2s, s2c>>

Init == /\ conf \in Configurations
        /\ c = [s |-> NewSession("client", conf.client), pc |-> "start",
                flight |-> <<>>, tried |-> FALSE]
        /\ v = [s |-> LET s == NewSession("server", conf.server)
                      IN IF conf.client.quic THEN s ELSE reset_session_preserving_config(s),
                pc |-> "hello", out |-> <<>>]
        /\ c2s = <<>>
        /\ s2c = <<>>

Trust == conf.client.trust
Ended(p) == p.pc \in {"done", "failed"}

\* tls_make_change_cipher_spec, and an alert of a server of another make.
Ccs == Record("change_cipher_spec", <<>>)
Alert == Record("alert", <<>>)

CFail == c' = [c EXCEPT !.pc = "failed"]
VFail == /\ v' = [v EXCEPT !.pc = "failed",
                           !.out = IF conf.server.foreign THEN <<Alert>> ELSE <<>>]

---------------------------------------------------------------------------
(* The client.                                                             *)

tls_router_client_use_tls12 == conf.client.ver = "1.2"

SendHello ==
    /\ c.pc = "start"
    /\ LET h == IF tls_router_client_use_tls12 THEN tls12_make_client_hello(c.s)
                ELSE tls13_make_client_hello(c.s)
       IN /\ c' = [c EXCEPT !.s = h.s,
                            !.pc = IF tls_router_client_use_tls12 THEN "flight12"
                                   ELSE "flight13"]
          /\ c2s' = Append(c2s, Record("handshake", <<h.msg>>))
    /\ UNCHANGED <<conf, v, s2c>>

GotServerHello == \E i \in DOMAIN c.flight : c.flight[i].type = "handshake"

\* read_record in do_client_handshake.
ReadFlight13 ==
    /\ c.pc = "flight13"
    /\ s2c # <<>>
    /\ s2c' = Tail(s2c)
    /\ CASE Head(s2c).type = "alert" -> CFail
         [] Head(s2c).type = "change_cipher_spec" -> c' = [c EXCEPT !.tried = FALSE]
         [] OTHER -> c' = [c EXCEPT !.flight = Append(@, Head(s2c)), !.tried = FALSE]
    /\ UNCHANGED <<conf, v, c2s>>

\* A copy of the session processes what has arrived; only a flight that ends in
\* the server's Finished counts.
Trial == tls13_process_server_flight(c.s, c.flight, Trust)

TryFlight13 ==
    /\ c.pc = "flight13" /\ GotServerHello /\ s2c = <<>> /\ ~c.tried
    /\ IF Trial.ok /\ Trial.s.finished
       THEN /\ c' = [c EXCEPT !.s = Trial.s, !.pc = "done"]
            /\ c2s' = Append(c2s, Trial.rec)
       ELSE /\ c' = [c EXCEPT !.tried = TRUE]
            /\ UNCHANGED c2s
    /\ UNCHANGED <<conf, v, s2c>>

\* The server has written all it is going to write before it hears from us.
ServerIsDone == v.out = <<>> /\ (Ended(v) \/ c2s = <<>>)

\* Mutant: another 250 ms, and another.
GiveUp13_WaitsAgain ==
    /\ c.pc = "flight13" /\ c.tried /\ s2c = <<>>
    /\ conf.slow \/ ServerIsDone
    /\ c' = [c EXCEPT !.tried = FALSE]
    /\ UNCHANGED <<conf, v, c2s, s2c>>

\* 250 ms without a record: on a slow network even while the server is writing.
GiveUp13 ==
    /\ c.pc = "flight13" /\ c.tried /\ s2c = <<>>
    /\ conf.slow \/ ServerIsDone
    /\ CFail
    /\ UNCHANGED <<conf, v, c2s, s2c>>

\* do_client_handshake_tls12: records are read until ServerHelloDone is in.
Messages(recs) == FlattenSeq([i \in DOMAIN recs |-> recs[i].msgs])

ReadFlight12 ==
    /\ c.pc = "flight12"
    /\ s2c # <<>>
    /\ s2c' = Tail(s2c)
    /\ LET r == Head(s2c)
           flight == IF r.type = "handshake" THEN Append(c.flight, r) ELSE c.flight
           complete == [type |-> "server_hello_done"] \in ToSet(Messages(flight))
           p == tls12_process_server_flight(c.s, Messages(flight), Trust)
           fin == Protected(p.s, "handshake", <<p.cf>>)
       IN CASE r.type = "alert" -> CFail /\ UNCHANGED c2s
            [] r.type # "alert" /\ ~complete
                 -> c' = [c EXCEPT !.flight = flight] /\ UNCHANGED c2s
            [] r.type # "alert" /\ complete ->
                 IF p.ok /\ p.cke # <<>>
                 THEN /\ c' = [c EXCEPT !.s = Advance(p.s, "client"), !.pc = "ccs12"]
                      /\ c2s' = c2s \o <<Record("handshake", p.cke), Ccs, fin>>
                 ELSE CFail /\ UNCHANGED c2s
    /\ UNCHANGED <<conf, v>>

ReadServerFinished12 ==
    /\ c.pc \in {"ccs12", "finished12"}
    /\ s2c # <<>>
    /\ s2c' = Tail(s2c)
    /\ LET r == Head(s2c)
       IN CASE r.type = "alert" -> CFail
            [] r.type = "change_cipher_spec" -> c' = [c EXCEPT !.pc = "finished12"]
            [] r.type = "handshake" /\ c.pc = "finished12" ->
                 IF CanOpen(c.s, r) /\ verify_finished(c.s, Head(r.msgs), "server")
                 THEN c' = [c EXCEPT !.s = [Advance(@, "server") EXCEPT !.finished = TRUE],
                                     !.pc = "done"]
                 ELSE CFail
            [] OTHER -> UNCHANGED c
    /\ UNCHANGED <<conf, v, c2s>>

---------------------------------------------------------------------------
(* The server.                                                             *)

tls_router_server_supports_tls13(ch) == "1.3" \in ch.versions

\* A server of another make sends one message per record and, in TLS 1.3, the
\* ChangeCipherSpec of the compatibility mode.
OneRecordEach(r) ==
    [i \in DOMAIN r.msgs |-> [r EXCEPT !.msgs = <<r.msgs[i]>>, !.seq = r.seq + i - 1]]

Framed(recs) ==
    IF ~conf.server.foreign \/ conf.client.quic THEN recs
    ELSE FlattenSeq([i \in DOMAIN recs |->
             OneRecordEach(recs[i])
             \o (IF i = 1 /\ Len(recs) > 1 THEN <<Ccs>> ELSE <<>>)])

ReadHello ==
    /\ v.pc = "hello"
    /\ c2s # <<>>
    /\ c2s' = Tail(c2s)
    /\ LET ch == Head(Head(c2s).msgs)
           f13 == tls13_make_server_flight(v.s, ch, conf.server.manager)
           f12 == tls12_make_server_hello_flight(v.s, ch, conf.server.manager,
                      conf.server.psks, conf.server.enabled)
       IN CASE tls_router_server_supports_tls13(ch) /\ f13.ok ->
                 v' = [v EXCEPT !.s = f13.s, !.pc = "finished13", !.out = Framed(f13.recs)]
            [] ~tls_router_server_supports_tls13(ch) /\ f12.ok ->
                 v' = [v EXCEPT !.s = f12.s, !.pc = "cke12",
                                !.out = Framed(<<Record("handshake", f12.msgs)>>)]
            [] OTHER -> VFail
    /\ UNCHANGED <<conf, c, s2c>>

\* write_all, one record at a time.
ServerWrite ==
    /\ v.out # <<>>
    /\ v' = [v EXCEPT !.out = Tail(@)]
    /\ s2c' = Append(s2c, Head(v.out))
    /\ UNCHANGED <<conf, c, c2s>>

ReadClientFinished13 ==
    /\ v.pc = "finished13" /\ v.out = <<>>
    /\ c2s # <<>>
    /\ c2s' = Tail(c2s)
    /\ LET f == tls13_process_client_finished(v.s, Head(c2s))
       IN IF f.ok THEN v' = [v EXCEPT !.s = f.s, !.pc = "done"] ELSE VFail
    /\ UNCHANGED <<conf, c, s2c>>

\* Handshake records are collected until they hold a whole ClientKeyExchange: a
\* header that promises too much swallows every record that follows.
ReadClientKeyExchange ==
    /\ v.pc = "cke12" /\ v.out = <<>>
    /\ c2s # <<>>
    /\ c2s' = Tail(c2s)
    /\ LET r == Head(c2s)
           m == Head(r.msgs)
           cert == get_certificate(conf.server.manager, v.s.sni)
           x == tls12_process_client_key_exchange(transcript_update(v.s, m), m, cert,
                    conf.server.psks)
       IN CASE r.type # "handshake" -> UNCHANGED v
            [] r.type = "handshake" /\ (m.type # "client_key_exchange" \/ ~m.framed)
                 -> v' = [v EXCEPT !.pc = "swallow12"]
            [] OTHER -> IF x.ok THEN v' = [v EXCEPT !.s = x.s, !.pc = "ccs12"] ELSE VFail
    /\ UNCHANGED <<conf, c, s2c>>

Swallow12 ==
    /\ v.pc = "swallow12"
    /\ c2s # <<>>
    /\ c2s' = Tail(c2s)
    /\ UNCHANGED <<conf, c, v, s2c>>

\* ChangeCipherSpec and Finished of the client; then the server's own.
ReadClientFinished12 ==
    /\ v.pc \in {"ccs12", "finished12"}
    /\ c2s # <<>>
    /\ c2s' = Tail(c2s)
    /\ LET r == Head(c2s)
           m == Head(r.msgs)
           s1 == transcript_update(Advance(v.s, "client"), m)
           fin == Protected(s1, "handshake", <<Finished(s1, "server")>>)
       IN CASE r.type = "change_cipher_spec" -> v' = [v EXCEPT !.pc = "finished12"]
            [] r.type = "handshake" /\ v.pc = "finished12" ->
                 IF CanOpen(v.s, r) /\ verify_finished(v.s, m, "client")
                 THEN v' = [v EXCEPT !.s = [Advance(s1, "server") EXCEPT !.finished = TRUE],
                                     !.pc = "done", !.out = <<Ccs, fin>>]
                 ELSE VFail
            [] OTHER -> UNCHANGED v
    /\ UNCHANGED <<conf, c, s2c>>

---------------------------------------------------------------------------
(* The other side closed, or nothing comes within handshake_timeout_ms_.    *)

ClientTimeout ==
    /\ c.pc \in {"flight13", "flight12", "ccs12", "finished12"}
    /\ c.pc = "flight13" => ~GotServerHello \/ v.pc = "failed"
    /\ s2c = <<>> /\ ServerIsDone
    /\ CFail
    /\ UNCHANGED <<conf, v, c2s, s2c>>

ServerTimeout ==
    /\ ~Ended(v) /\ v.out = <<>>
    /\ c2s = <<>>
    /\ \/ c.pc = "failed"
       \/ v.pc = "swallow12" /\ s2c = <<>>
    /\ VFail
    /\ UNCHANGED <<conf, c, c2s, s2c>>

\* Both calls have returned and nothing is left to write.
Over == Ended(c) /\ Ended(v) /\ v.out = <<>>
Rest == Over /\ UNCHANGED vars

Next == \/ SendHello \/ ReadFlight13 \/ TryFlight13 \/ GiveUp13
        \/ ReadFlight12 \/ ReadServerFinished12
        \/ ReadHello \/ ServerWrite \/ ReadClientFinished13
        \/ ReadClientKeyExchange \/ Swallow12 \/ ReadClientFinished12
        \/ ClientTimeout \/ ServerTimeout \/ Rest

\* Both programs keep running: weak fairness of Next.  A step is possible until
\* the handshake is over (there is no deadlock), so that is what stands for
\* ENABLED here.
Fairness == []<>Over \/ []<><<Next>>_vars

Spec == Init /\ [][Next]_vars /\ Fairness

---------------------------------------------------------------------------
(* What the handshake promises.                                            *)

\* Two sides that finished hold the same keys at the same record numbers, for the
\* same suite, protocol and master secret derivation, and the server finishes
\* only once the client has the keys.
KeysAgree ==
    v.pc = "done" =>
        /\ c.pc \in {"done", "ccs12", "finished12"}
        /\ c.s.key = v.s.key /\ c.s.base = v.s.base
        /\ c.s.suite = v.s.suite /\ c.s.ems = v.s.ems
        /\ c.pc = "done" => /\ c.s.alpn = v.s.alpn
                            /\ c.s.client_seq = v.s.client_seq
                            /\ c.s.server_seq = v.s.server_seq

Cert == get_certificate(conf.server.manager, conf.client.sni)
Offer == NewSession("client", conf.client)

\* What a client that finished settled on was offered by both sides: the suite,
\* a group that goes with it, a signature scheme that fits the certificate's
\* key, and the application protocol.
NegotiatedByBoth ==
    c.pc = "done" =>
        /\ c.s.suite \in IF conf.client.ver = "1.3" THEN ToSet(OfferedSuites(Offer))
                         ELSE ToSet(tls12_client_suite_list(Offer)) \cap conf.server.enabled
        /\ conf.client.ver = "1.3" =>
              /\ c.s.ks_group \in ToSet(OfferedGroups(Offer))
              /\ tls_use_sm3(c.s.suite) <=> c.s.ks_group = "SM2"
              /\ tls_use_sm3(c.s.suite) => Cert.key_type = "SM2" /\ ~c.s.quic
        /\ c.s.verified =>
              /\ c.s.sig_alg \in ToSet(OrDefault(conf.client.sig_algs))
                               \cap ToSet(OrDefault(conf.server.sig_algs))
              /\ c.s.sig_alg.fam = tls_key_type_to_sig_alg(Cert.key_type).fam
              /\ conf.client.ver = "1.3" => tls_scheme_allowed_for_cert_verify(c.s.sig_alg)
        /\ c.s.alpn # "" => c.s.alpn \in ToSet(conf.client.alpn) \cap ToSet(conf.server.alpn)

\* The certificate the client's certificate manager expects.
Expected == get_certificate(Trust.manager, conf.client.sni)

\* The certificate a client may accept, said without the code's own checks: the one
\* it expects, one a root has signed, or one with the name and the key of a root.
Trusted(cert) ==
    \/ conf.client.skip
    \/ Trust.kind = "manager" /\ Expected # None /\ Expected.key = cert.key
    \/ /\ Trust.kind = "store" /\ cert.valid /\ HostMatches(cert, conf.client.sni)
       /\ \E r \in Trust.roots :
            /\ r.ca /\ r.valid
            /\ \/ r.key = cert.signer
               \/ r.subject = cert.subject /\ r.key = cert.key

\* What it takes to authenticate a server: the client has something to compare it with,
\* the server can sign with its key, and its certificate is no authority that issued itself.
Checked(k) ==
    LET cert == get_certificate(k.server.manager, k.client.sni)
        trust == k.client.trust
    IN /\ \/ trust.kind = "store"
          \/ trust.kind = "manager" /\ get_certificate(trust.manager, k.client.sni) # None
       /\ cert # None =>
            /\ sign_scheme(tls_key_type_to_sig_alg(cert.key_type))
            /\ ~(cert.ca /\ cert.subject = cert.issuer /\ verify_signature(cert, cert))

\* A client that checks its peer finishes only with a server whose certificate
\* it trusts and whose key signed this very handshake, received the premaster,
\* or shares the PSK.
ServerAuthenticated ==
    Checked(conf) /\ c.pc = "done" /\ ~conf.client.skip =>
        \/ tls12_is_psk(c.s.suite)
        \/ Trusted(Cert) /\ (c.s.verified \/ c.s.suite.kx = "RSA")

\* A client whose certificate manager holds nothing has nothing to refuse a server for.
NothingExpected == Trust.kind = "manager" /\ Expected = None

\* The schemes both sides allow for the server's key, and whether the
\* certificate itself is signed with one the client accepts.
CommonSchemes ==
    {a \in ToSet(OrDefault(conf.client.sig_algs)) \cap ToSet(OrDefault(conf.server.sig_algs)) :
        /\ a.fam = tls_key_type_to_sig_alg(Cert.key_type).fam
        /\ conf.client.ver = "1.3" => tls_scheme_allowed_for_cert_verify(a)}
ChainAccepted ==
    LET a == x509_key_type_chain_scheme(Cert.sign_key_type)
    IN /\ a \in ToSet(OrDefault(conf.client.sig_algs_cert))
       /\ OfferedCertAlgs(Offer) # <<>> => a \in ToSet(OfferedCertAlgs(Offer))

\* Two configurations that have everything in common a handshake needs.
Compatible13 ==
    /\ Cert # None /\ (Trusted(Cert) \/ NothingExpected)
    /\ ChainAccepted /\ CommonSchemes # {}
    /\ ~(conf.client.pinned /\ tls_use_sm3(conf.client.suite)
         /\ conf.client.ks_group \in NonSmGroups)
SharesPsk == /\ conf.client.psk # None
             /\ conf.server.enabled \cap ToSet(tls12_psk_suites) # {}
             /\ \E i \in DOMAIN conf.server.psks : conf.server.psks[i] = conf.client.psk
CertSuites == {cs \in conf.server.enabled \cap ToSet(tls12_client_suites) :
                 Cert # None /\ (cs.auth = "ECDSA") = (Cert.key_type \notin RsaKeys)}
Compatible12 ==
    IF CertSuites = {} THEN SharesPsk
    ELSE (Trusted(Cert) \/ NothingExpected) /\ ChainAccepted /\ CommonSchemes # {}
Compatible == IF conf.client.ver = "1.3" THEN Compatible13 ELSE Compatible12

\* The two cases the client's RSA key exchange does not handle.
RsaExchangeServed ==
    {cs \in CertSuites : cs.kx # "RSA"} = {} /\ CertSuites # {} =>
        ~conf.client.skip /\ Cert.key_type # "RSA_3072"

BothDone == c.pc = "done" /\ v.pc = "done"

\* Compatible peers complete the handshake, however the server's flight is cut
\* into records, unless the network stalls for longer than 250 ms.
CompatibleCompletes == Compatible /\ RsaExchangeServed /\ ~conf.slow => <>BothDone

\* Every handshake ends on both sides, with success or with failure.
HandshakeEnds == <>(Ended(c) /\ Ended(v))
=============================================================================
