----------------------------- MODULE TlsSession -----------------------------
(***************************************************************************)
(* What the TLS 1.2 and TLS 1.3 handshakes of jpssl share: the session     *)
(* record, the transcript, the certificate manager, the chain validation   *)
(* of the client and the protection of handshake records (tls_session in   *)
(* src/include/tls.hpp, src/src/tls_router.cpp).  A key is the tuple of    *)
(* the inputs it is derived from, so two keys are equal exactly when both  *)
(* sides derived them from the same inputs.                                *)
(***************************************************************************)
EXTENDS TlsParameters

\* tls_session{} with the configuration a caller may set before a handshake.
NewSession(role, conf) ==
    [role |-> role, quic |-> conf.quic, suite |-> conf.suite,
     pinned |-> conf.pinned, skip |-> conf.skip, ks_group |-> conf.ks_group,
     sig_algs |-> conf.sig_algs, sig_algs_cert |-> conf.sig_algs_cert,
     alpn_protos |-> conf.alpn, alpn |-> "", sni |-> conf.sni, psk |-> conf.psk,
     transcript |-> <<>>, ch_cache |-> <<>>,
     ks_priv |-> None, ks_priv_x25519 |-> None,
     base |-> None, key |-> None, client_seq |-> 0, server_seq |-> 0,
     ems |-> FALSE, session_id |-> None, sig_alg |-> None,
     finished |-> FALSE, verified |-> FALSE]

\* server_handshake() and attach() start from a fresh session and carry over
\* the lists, the group, the suite and the key, but not the pin.
reset_session_preserving_config(s) ==
    [s EXCEPT !.pinned = FALSE, !.skip = FALSE, !.quic = FALSE]

\* Each message enters the transcript under the hash of the suite that is
\* current when it is added.
transcript_update(s, m) ==
    [s EXCEPT !.transcript = Append(@, <<s.suite.hash, m>>)]

transcript_updates(s, ms) == FoldLeft(transcript_update, s, ms)

Restart(s) == [s EXCEPT !.transcript = <<>>]

\* An ephemeral key pair of a group; a private key used in another group
\* gives a secret the peer does not have.
KeyPair(owner, group) == [owner |-> owner, group |-> group]
Ecdh(own, peer) ==
    IF own # None /\ own.group = peer.group
    THEN <<"ecdh", own.group, {own.owner, peer.owner}>>
    ELSE <<"garbage", own, peer>>

---------------------------------------------------------------------------
\* tls_certificate_manager: domains in the order they were added; the first
\* one is the default.
get_certificate(manager, domain) ==
    LET hits == SelectSeq(manager, LAMBDA e : e.domain = domain)
    IN CASE hits # <<>> -> Head(hits).cert
         [] hits = <<>> /\ manager # <<>> -> Head(manager).cert
         [] OTHER -> None

\* x509_cert::verify_signature: the signature verifies under the issuer's key.
verify_signature(cert, issuer) == cert.signer = issuer.key

\* Host names are paths of labels; "*" stands for any labels in front.
\* An empty server name matches every certificate.
HostMatches(leaf, host) ==
    \/ host = <<>>
    \/ host \in leaf.names
    \/ \E n \in leaf.names : /\ Len(n) > 1 /\ Head(n) = "*"
                             /\ IsSuffix(Tail(n), host)
                             /\ Len(host) > Len(Tail(n))
    \/ leaf.subject = host

\* Mutant: the links of the chain are not checked.
chain_links_ok_Skipped(chain) == chain # <<>>

chain_links_ok(chain) ==
    /\ chain # <<>>
    /\ \A i \in DOMAIN chain :
         /\ chain[i].valid
         /\ i < Len(chain) => verify_signature(chain[i], chain[i + 1])

\* The last certificate presented is a self-issued CA that verifies, or a root
\* of the store issued it, or it carries the name and the key of such a root.
Anchored(last, roots) ==
    \/ last.subject = last.issuer /\ last.ca /\ verify_signature(last, last)
    \/ \E r \in roots : /\ r.ca /\ r.valid
                        /\ \/ r.subject = last.issuer /\ verify_signature(last, r)
                           \/ r.subject = last.subject /\ r.key = last.key

tls13_verify_server_chain(chain, roots, host) ==
    /\ chain_links_ok(chain)
    /\ Anchored(chain[Len(chain)], roots)
    /\ HostMatches(Head(chain), host)

\* The client refuses a chain signed with an algorithm it did not allow.
ChainAlgorithmsOk(s, chain) ==
    \A i \in DOMAIN chain :
        x509_key_type_chain_scheme(chain[i].sign_key_type)
            \in ToSet(OrDefault(s.sig_algs_cert))

\* signature_algorithms_cert as sent: restricted to signature_algorithms.
OfferedCertAlgs(s) ==
    SelectSeq(OrDefault(s.sig_algs_cert), LAMBDA a : a \in ToSet(OrDefault(s.sig_algs)))

\* A signature: who made it, with which scheme, over what.
Signature(cert, scheme, content) ==
    [by |-> cert.key, alg |-> scheme, content |-> content]

verify_scheme(cert, sig, content) ==
    /\ sig.alg.fam = tls_key_type_to_sig_alg(cert.key_type).fam
    /\ sig.by = cert.key
    /\ sig.content = content

---------------------------------------------------------------------------
\* Records.  A protected one carries its key and its sequence number.
Record(type, msgs) == [type |-> type, msgs |-> msgs, key |-> None, seq |-> 0]

Opposite(role) == IF role = "client" THEN "server" ELSE "client"
RecordSeq(s, role) == IF role = "client" THEN s.client_seq ELSE s.server_seq

Advance(s, role) == IF role = "client"
                    THEN [s EXCEPT !.client_seq = @ + 1]
                    ELSE [s EXCEPT !.server_seq = @ + 1]

\* tls_encrypt_handshake and tls_encrypt: the record under the writer's own key.
Protected(s, type, msgs) ==
    [type |-> type, msgs |-> msgs, key |-> <<s.role, s.key>>, seq |-> RecordSeq(s, s.role)]

\* tls13_decrypt_handshake and tls_decrypt: the reader's key and counter.
CanOpen(s, r) == /\ r.key = <<Opposite(s.role), s.key>>
                 /\ r.seq = RecordSeq(s, Opposite(s.role))

\* Every derivation of keys restarts both sequence numbers.
NewKey(s, key) == [s EXCEPT !.key = key, !.client_seq = 0, !.server_seq = 0]

Finished(s, role) ==
    [type |-> "finished", mac |-> <<role, s.base, s.transcript>>]

verify_finished(s, m, role) ==
    m.type = "finished" /\ m = Finished(s, role)
=============================================================================
