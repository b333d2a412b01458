----------------------------- MODULE DtlsServer -----------------------------
(***************************************************************************)
(* server_step of dtls.cpp: the messages process() handles and the flights *)
(* the server answers with.                                                *)
(***************************************************************************)
EXTENDS DtlsSession

\* HMAC of the client random under the server's cookie secret.
make_cookie(client_random) == <<"cookie", client_random>>

\* The configured suite when the client offers it, else the client's first.
select_suite(s, suites) ==
  IF s.cipher_suite \in Range(suites) THEN s.cipher_suite ELSE suites[1]

HelloVerifyRequest(ch) == [cookie |-> make_cookie(ch.random)]

hello_verify_request(st, ch) ==
  send_plain(start_response(st), "HELLO_VERIFY_REQUEST", HelloVerifyRequest(ch))

\* Append the message to the transcript and to the flight.
add_plain(st, type, data) ==
  send_plain([st EXCEPT !.s = transcript_add(@, Message(@, type, data))], type, data)

add_protected(st, type, data) ==
  send_protected([st EXCEPT !.s = transcript_add(@, Message(@, type, data))], type, data)

ServerHello(s) ==
  [random |-> s.server_random, suite |-> s.cipher_suite, share |-> KeyShare(s)]

\* The chain itself is the environment's: see on_certificate of the client.
Certificate == Empty

\* The server's share, signed together with both randoms.
ServerKeyExchange(s) ==
  [share |-> s.ks_pub, sig |-> <<s.client_random, s.server_random, s.ks_pub>>]

EncryptedExtensions == Empty

\* A signature of the transcript so far.
CertificateVerify(s) == [sig |-> s.transcript]

server_flight12(st) ==
  LET st1 == add_plain(st, "SERVER_HELLO", ServerHello(st.s))
      st2 == add_plain(st1, "CERTIFICATE", Certificate)
      st3 == add_plain(st2, "SERVER_KEY_EXCHANGE", ServerKeyExchange(st2.s))
  IN  add_plain(st3, "SERVER_HELLO_DONE", Empty)

\* Mutant: the application secrets are derived before Finished is in the transcript.
server_flight13_early_secrets(st, client_share) ==
  LET sh  == ServerHello(st.s)
      s1  == transcript_add(st.s, Message(st.s, "SERVER_HELLO", sh))
      st1 == new_epoch([st EXCEPT !.s = ecdh_derive(s1, client_share)], 2)
      st2 == send_plain(st1, "SERVER_HELLO", sh)
      st3 == add_protected(st2, "ENCRYPTED_EXTENSIONS", EncryptedExtensions)
      st4 == add_protected(st3, "CERTIFICATE", Certificate)
      st5 == add_protected(st4, "CERTIFICATE_VERIFY", CertificateVerify(st4.s))
      st6 == [st5 EXCEPT !.s = dtls13_derive_application(@)]
  IN  add_protected(st6, "FINISHED", [mac |-> Mac(st6.s, "server_finished")])

\* Epoch 2 starts before the ServerHello record is numbered, so that record takes
\* number 0 of the new count although its header says epoch 0.
server_flight13(st, client_share) ==
  LET sh  == ServerHello(st.s)
      s1  == transcript_add(st.s, Message(st.s, "SERVER_HELLO", sh))
      st1 == new_epoch([st EXCEPT !.s = ecdh_derive(s1, client_share)], 2)
      st2 == send_plain(st1, "SERVER_HELLO", sh)
      st3 == add_protected(st2, "ENCRYPTED_EXTENSIONS", EncryptedExtensions)
      st4 == add_protected(st3, "CERTIFICATE", Certificate)
      st5 == add_protected(st4, "CERTIFICATE_VERIFY", CertificateVerify(st4.s))
      st6 == add_protected(st5, "FINISHED", [mac |-> Mac(st5.s, "server_finished")])
  IN  [st6 EXCEPT !.s = dtls13_derive_application(@)]

\* A 1.2 client has to prove its address first.
cookie_ok(s, ch) ==
  s.ver = 12 /\ s.require_cookie => ch.cookie = make_cookie(ch.random)

\* usable: the certificate manager has a certificate for the name and a signature
\* scheme the client offered fits it.
on_client_hello(st, m, usable) ==
  LET ch  == m.data
      s1  == [transcript_add(st.s, m) EXCEPT !.phase = "HelloOk",
                                             !.client_random = ch.random,
                                             !.cipher_suite = select_suite(st.s, ch.suites)]
      st1 == start_response([st EXCEPT !.s = generate_ecdh_keypair(
                                               [s1 EXCEPT !.server_random = "server_random"])])
  IN  CASE ~cookie_ok(st.s, ch) ->
             hello_verify_request(st, ch)
        [] cookie_ok(st.s, ch) ->
             IF ~usable THEN Fail([st EXCEPT !.s = s1])
             ELSE IF st.s.ver = 13 THEN server_flight13(st1, ch.share)
             ELSE server_flight12(st1)

on_client_key_exchange(st, m) ==
  IF st.s.ver = 13 THEN Fail(st)
  ELSE [st EXCEPT !.s = transcript_add(ecdh_derive(@, m.data.share), m)]

server_done(st) ==
  [st EXCEPT !.s.handshake_done = TRUE, !.s.phase = "Done", !.done = TRUE]

\* 1.2 answers with ChangeCipherSpec and Finished, 1.3 with an ACK.
server_last_flight(st) ==
  IF st.s.ver = 13
  THEN new_epoch(protect(st, "ack", Ack(st.s)), 3)
  ELSE LET st1 == new_epoch(plaintext_record(st, "ccs", Empty), 1)
           fin == [mac |-> Mac(st1.s, "server_finished")]
       IN  add_protected(st1, "FINISHED", fin)

on_client_finished(st, m) ==
  IF m.data.mac # Mac(st.s, "client_finished") THEN Fail(st)
  ELSE server_done(server_last_flight(start_response(
                     [st EXCEPT !.s = transcript_add(@, m)])))

server_process(st, m, usable) ==
  CASE m.type = "CLIENT_HELLO"        -> on_client_hello(st, m, usable)
    [] m.type = "CLIENT_KEY_EXCHANGE" -> on_client_key_exchange(st, m)
    [] m.type = "FINISHED"            -> on_client_finished(st, m)
    [] OTHER                          -> st
=============================================================================
