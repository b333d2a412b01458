----------------------------- MODULE DtlsClient -----------------------------
(***************************************************************************)
(* client_step of dtls.cpp: the first ClientHello, the messages process()  *)
(* handles, and the flights the client answers with.                       *)
(***************************************************************************)
EXTENDS DtlsSession

\* The suites a 1.2 client offers when it has no preference of its own.
DefaultSuites12 == <<"ECDSA_AES_128", "RSA_AES_128", "ECDSA_CHACHA20", "RSA_CHACHA20">>

\* The suites of the first ClientHello, by the configured one.
client_suites(ver, suite) ==
  IF ver = 13
  THEN CASE suite = "AES_256_GCM_SHA384" ->
              <<"AES_256_GCM_SHA384", "AES_128_GCM_SHA256", "CHACHA20_POLY1305">>
         [] suite = "CHACHA20_POLY1305" ->
              <<"CHACHA20_POLY1305", "AES_128_GCM_SHA256", "AES_256_GCM_SHA384">>
         [] OTHER ->
              <<"AES_128_GCM_SHA256", "AES_256_GCM_SHA384", "CHACHA20_POLY1305">>
  ELSE CASE suite = "RSA_AES_128" ->
              <<"RSA_AES_128", "ECDSA_AES_128", "RSA_CHACHA20", "ECDSA_CHACHA20">>
         [] suite = "ECDSA_CHACHA20" ->
              <<"ECDSA_CHACHA20", "RSA_CHACHA20", "ECDSA_AES_128">>
         [] suite = "RSA_CHACHA20" ->
              <<"RSA_CHACHA20", "ECDSA_CHACHA20", "RSA_AES_128">>
         [] OTHER -> DefaultSuites12

\* build_ch12_body / build_ch13_body.
ClientHello(s, suites) ==
  [random |-> s.client_random, suites |-> suites, cookie |-> s.cookie, share |-> KeyShare(s)]

send_client_hello(st, suites) ==
  LET ch == ClientHello(st.s, suites)
      m  == Message(st.s, "CLIENT_HELLO", ch)
  IN  send_plain([st EXCEPT !.s = transcript_add(@, m)], "CLIENT_HELLO", ch)

\* The step taken in phase Idle, without a datagram.
client_first_step(s) ==
  LET ready == generate_ecdh_keypair([s EXCEPT !.client_random = "client_random",
                                               !.phase = "ChSent"])
      start == [s |-> ready, events |-> <<>>, pending |-> <<>>, response |-> <<>>,
                build |-> TRUE, got_shd |-> FALSE, done |-> FALSE, ok |-> TRUE]
  IN  finish_step(send_client_hello(start, client_suites(s.ver, s.cipher_suite)))

-----------------------------------------------------------------------------
(* process() *)

\* The cookie is kept, the transcript starts again and a second ClientHello goes
\* out, with the default suites.
on_hello_verify_request(st, m) ==
  IF st.s.ver = 13 THEN Fail(st)
  ELSE send_client_hello(
         start_response([st EXCEPT !.s.cookie = m.data.cookie,
                                   !.s.phase = "HvrReceived",
                                   !.s.transcript = <<>>]),
         DefaultSuites12)

on_server_hello(st, m) ==
  LET s1 == transcript_add([st.s EXCEPT !.server_random = m.data.random,
                                        !.cipher_suite = m.data.suite], m)
  IN  IF st.s.ver = 12 THEN [st EXCEPT !.s = s1]
      ELSE new_epoch([st EXCEPT !.s = ecdh_derive(s1, m.data.share)], 2)

\* Mutant: the chain is parsed but not verified.
on_certificate_unverified(st, m, trusted) ==
  [st EXCEPT !.s = transcript_add([@ EXCEPT !.have_server_cert = TRUE], m)]

\* trusted: verify_server_chain accepts the chain, or there is no trust store.
on_certificate(st, m, trusted) ==
  LET s1 == transcript_add([st.s EXCEPT !.have_server_cert = TRUE], m)
  IN  IF trusted THEN [st EXCEPT !.s = s1] ELSE Fail([st EXCEPT !.s = s1])

\* The signature covers both randoms and the server's share; the key pair is made
\* again, on the server's curve.
on_server_key_exchange(st, m) ==
  LET fresh == generate_ecdh_keypair(st.s)
  IN  IF \/ st.s.ver = 13
         \/ ~st.s.have_server_cert
         \/ m.data.sig # <<st.s.client_random, st.s.server_random, m.data.share>>
      THEN Fail(st)
      ELSE [st EXCEPT !.s = transcript_add(ecdh_derive(fresh, m.data.share), m)]

on_server_hello_done(st, m) ==
  IF st.s.ver = 13 THEN Fail(st)
  ELSE [st EXCEPT !.s = transcript_add(@, m), !.got_shd = TRUE]

on_encrypted_extensions(st, m) ==
  IF st.s.ver = 12 THEN Fail(st) ELSE [st EXCEPT !.s = transcript_add(@, m)]

on_certificate_verify(st, m) ==
  IF st.s.ver = 12 \/ ~st.s.have_server_cert \/ m.data.sig # st.s.transcript
  THEN Fail(st)
  ELSE [st EXCEPT !.s = transcript_add(@, m)]

ClientKeyExchange(s) == [share |-> s.ks_pub]

\* CKE and ChangeCipherSpec in epoch 0, Finished in epoch 1.
client_flight12(st) ==
  LET cke    == ClientKeyExchange(st.s)
      st1    == send_plain([st EXCEPT !.s = transcript_add(@, Message(@, "CLIENT_KEY_EXCHANGE", cke))],
                           "CLIENT_KEY_EXCHANGE", cke)
      st2    == new_epoch(plaintext_record(st1, "ccs", Empty), 1)
      fin    == [mac |-> Mac(st2.s, "client_finished")]
  IN  send_protected([st2 EXCEPT !.s = transcript_add(@, Message(@, "FINISHED", fin))],
                     "FINISHED", fin)

\* Finished and an ACK of everything received, both in epoch 2.
client_flight13(st) ==
  LET fin == [mac |-> Mac(st.s, "client_finished")]
      st1 == send_protected(
               [st EXCEPT !.s = transcript_add(@, Message(@, "FINISHED", fin))],
               "FINISHED", fin)
  IN  protect(st1, "ack", Ack(st1.s))

client_done(st) ==
  [st EXCEPT !.s.handshake_done = TRUE, !.s.phase = "Done", !.done = TRUE]

\* Mutant: the server's Finished is checked but not added to the transcript.
on_server_finished_unrecorded(st, m) ==
  IF m.data.mac # Mac(st.s, "server_finished") THEN Fail(st) ELSE client_done(st)

on_server_finished(st, m) ==
  LET st1 == [st EXCEPT !.s = transcript_add(@, m)]
      st2 == start_response([st1 EXCEPT !.s = dtls13_derive_application(@)])
  IN  IF m.data.mac # Mac(st.s, "server_finished") THEN Fail(st)
      ELSE IF st.s.ver = 12 THEN client_done(st1)
      ELSE new_epoch(client_done(client_flight13(st2)), 3)

client_process(st, m, trusted) ==
  CASE m.type = "HELLO_VERIFY_REQUEST" -> on_hello_verify_request(st, m)
    [] m.type = "SERVER_HELLO"         -> on_server_hello(st, m)
    [] m.type = "CERTIFICATE"          -> on_certificate(st, m, trusted)
    [] m.type = "SERVER_KEY_EXCHANGE"  -> on_server_key_exchange(st, m)
    [] m.type = "SERVER_HELLO_DONE"    -> on_server_hello_done(st, m)
    [] m.type = "ENCRYPTED_EXTENSIONS" -> on_encrypted_extensions(st, m)
    [] m.type = "CERTIFICATE_VERIFY"   -> on_certificate_verify(st, m)
    [] m.type = "FINISHED"             -> on_server_finished(st, m)
    [] OTHER                           -> st
=============================================================================
