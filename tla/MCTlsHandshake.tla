--------------------------- MODULE MCTlsHandshake ---------------------------
(***************************************************************************)
(* The handshake for the configurations that reach every branch of the     *)
(* negotiation: each key type and group, pinned suites, restricted lists,  *)
(* trust stores and certificate managers, PSKs, and servers of another     *)
(* make.                                                                   *)
(***************************************************************************)
EXTENDS TlsHandshake

Host == <<"example", "com">>
WWW == <<"www", "example", "com">>

Leaf(kt, names) ==
    [key |-> kt, key_type |-> kt, subject |-> Host, issuer |-> <<"CA">>,
     signer |-> "ca", ca |-> FALSE, valid |-> TRUE, names |-> names, sign_key_type |-> "P256"]
Good(kt) == Leaf(kt, {Host})
Root == [key |-> "ca", key_type |-> "P256", subject |-> <<"CA">>, issuer |-> <<"CA">>,
         signer |-> "ca", ca |-> TRUE, valid |-> TRUE, names |-> {}, sign_key_type |-> "P256"]

\* A root of the store that another authority has signed.
CrossSigned == [Root EXCEPT !.signer = "other", !.issuer = <<"Other">>, !.names = {Host}]

Store == [kind |-> "store", roots |-> {Root}, manager |-> <<>>]
NoRoots == [kind |-> "store", roots |-> {}, manager |-> <<>>]
Manager(cert) == [kind |-> "manager", roots |-> {}, manager |-> <<[domain |-> Host, cert |-> cert]>>]

Client(ver) ==
    [ver |-> ver, quic |-> FALSE, suite |-> AES_128_GCM, pinned |-> FALSE, skip |-> FALSE,
     ks_group |-> "X25519", sig_algs |-> <<>>, sig_algs_cert |-> <<>>, alpn |-> <<>>,
     sni |-> Host, psk |-> None, trust |-> Store]
Server(cert) ==
    [quic |-> FALSE, suite |-> AES_128_GCM, pinned |-> FALSE, skip |-> FALSE,
     ks_group |-> "X25519", sig_algs |-> <<>>, sig_algs_cert |-> <<>>, alpn |-> <<>>,
     sni |-> <<>>, psk |-> None, psks |-> <<>>, enabled |-> KnownSuites, foreign |-> FALSE,
     manager |-> IF cert = None THEN <<>> ELSE <<[domain |-> Host, cert |-> cert]>>]
Conf(client, server) == [client |-> client, server |-> server, slow |-> FALSE]

KeyTypes == {"RSA_2048", "RSA_3072", "RSA_4096", "ED25519", "ED448", "P256", "P384", "SM2"}

\* Every key type with every group, and with certificate checks of each kind.
ByKey == {Conf([Client(ver) EXCEPT !.ks_group = g], Server(Good(kt))) :
             ver \in {"1.2", "1.3"}, g \in {"X25519", "P256", "P384", "X448"}, kt \in KeyTypes}
ByTrust ==
    {Conf([Client(ver) EXCEPT !.trust = trust, !.skip = skip], [Server(cert) EXCEPT !.foreign = f]) :
        ver \in {"1.2", "1.3"}, skip \in BOOLEAN, f \in BOOLEAN,
        trust \in {Store, NoRoots, Manager(Good("P256")), Manager(Good("ED25519"))},
        cert \in {Good("P256"), [Good("P256") EXCEPT !.valid = FALSE],
                  [Good("P256") EXCEPT !.signer = "other"], CrossSigned, Leaf("P256", {WWW}),
                  Leaf("RSA_2048", {<<"*", "com">>})}}
\* Pinned suites, QUIC and application protocols.
BySuite ==
    {Conf([Client("1.3") EXCEPT !.suite = cs, !.pinned = TRUE, !.quic = q, !.alpn = <<"h2", "http">>],
          [Server(Good(kt)) EXCEPT !.quic = q, !.suite = CHACHA20, !.pinned = q,
                                   !.alpn = alpn, !.foreign = ~q]) :
        cs \in {AES_256_GCM, SM4_CCM, AES_128_CCM_8}, q \in BOOLEAN,
        kt \in {"SM2", "P256"}, alpn \in {<<>>, <<"http">>, <<"ftp">>}}
\* Restricted signature lists on either side.
ByScheme ==
    {Conf([Client(ver) EXCEPT !.sig_algs = ca, !.sig_algs_cert = cc], [Server(Good(kt)) EXCEPT !.sig_algs = sa]) :
        ver \in {"1.2", "1.3"}, kt \in {"RSA_2048", "P256"},
        ca \in {<<>>, <<RSA_PKCS1("SHA256"), ECDSA_P256>>, <<RSA_PSS("SHA512"), ECDSA_P384>>},
        cc \in {<<>>, <<ECDSA_P384>>}, sa \in {<<>>, <<RSA_PSS("SHA512")>>}}
\* TLS 1.2 with fewer suites enabled and with pre-shared keys.
Only(kx) == {cs \in KnownSuites : cs.kx \in kx}
Key(id, value) == [id |-> id, value |-> value]
ByExchange ==
    {Conf([Client("1.2") EXCEPT !.psk = psk, !.skip = skip],
          [Server(cert) EXCEPT !.enabled = Only(kx), !.psks = psks, !.foreign = ~skip]) :
        skip \in BOOLEAN, cert \in {None, Good("RSA_2048"), Good("RSA_3072")},
        kx \in {{"DHE", "RSA"}, {"RSA"}, {"DHE_PSK", "PSK"}, {"PSK"}},
        psk \in {None, Key("id", "key")},
        psks \in {<<>>, <<Key("id", "key")>>, <<Key("id", "other key")>>, <<Key("other", "key")>>}}
\* Clients with a certificate manager that holds no certificate.
ByNothing ==
    {Conf([Client(ver) EXCEPT !.trust.kind = "manager", !.trust.roots = {}],
          [Server(cert) EXCEPT !.enabled = Only(kx), !.foreign = f]) :
        ver \in {"1.2", "1.3"}, f \in BOOLEAN, kx \in {{"ECDHE", "DHE"}, {"RSA"}},
        cert \in {Good("P256"), Good("RSA_2048"), [Good("P256") EXCEPT !.signer = "other"]}}
Slow == {[Conf(Client("1.3"), [Server(Good("P256")) EXCEPT !.foreign = f]) EXCEPT !.slow = TRUE] :
            f \in BOOLEAN}

MCConfigurations ==
    ByKey \cup ByTrust \cup BySuite \cup ByScheme \cup ByExchange \cup ByNothing \cup Slow

\* The promise that a server is authenticated is made for all but the clients that have
\* nothing to compare it with.
ASSUME ConfigurationsChecked == \A k \in MCConfigurations : Checked(k) <=> k \notin ByNothing
=============================================================================
