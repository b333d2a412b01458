----------------------------- MODULE DtlsSession -----------------------------
(***************************************************************************)
(* What client_step and server_step of dtls.cpp share: the fields of       *)
(* dtls_session, the records a session emits, the datagram parsers and the *)
(* end of a step.                                                          *)
(*                                                                         *)
(* A datagram is a sequence of records; the payload of a handshake record  *)
(* is one whole message (DtlsReassembly is about fragments).  Keys, MACs   *)
(* and signatures are the tuples of the values they are computed from, so  *)
(* two of them are equal exactly when their inputs are.                    *)
(*                                                                         *)
(* A step is a function: its working state st is a record                  *)
(*   s         the session,                                                *)
(*   events    the records opened so far, pending those not opened yet,    *)
(*   response  the flight being built, build whether there is one,         *)
(*   got_shd, done  the locals of the same name,  ok  no error so far.     *)
(***************************************************************************)
EXTENDS Naturals, Sequences, FiniteSets, SequencesExt

CONSTANT PendingRounds  \* bound of the pending retry loop (10 in the code)

ASSUME PendingRoundsAssumption == PendingRounds \in Nat \ {0}

Endpoint == {"client", "server"}
Peer(e) == IF e = "client" THEN "server" ELSE "client"

NoKey == <<>>
NoCookie == <<>>
Empty == [empty |-> TRUE]

\* dtls_session{} as connect() and server_handshake() set it up; ver is 12 or 13.
NewSession(e, ver, suite, require_cookie) ==
  [role |-> e, ver |-> ver, require_cookie |-> require_cookie, phase |-> "Idle", cipher_suite |-> suite,
   client_random |-> "none", server_random |-> "none",
   ks_pub |-> <<e, 0>>, keys |-> NoKey, app_keys |-> NoKey,
   send_epoch |-> 0, recv_epoch |-> 0, send_seq |-> 0,
   send_msg_seq |-> 0, recv_msg_seq |-> 0,
   cookie |-> NoCookie, received_records |-> {}, last_sent |-> <<>>,
   transcript |-> <<>>, have_server_cert |-> FALSE,
   retransmit_requested |-> FALSE, handshake_done |-> FALSE]

\* A fresh ephemeral key pair; ks_pub names it.
generate_ecdh_keypair(s) == [s EXCEPT !.ks_pub = <<@[1], @[2] + 1>>]

\* The key_share extension of the hello messages, which 1.2 does not have.
KeyShare(s) == IF s.ver = 13 THEN s.ks_pub ELSE <<"none", 0>>

\* 1.2: the key block depends on the shared secret, both randoms and the suite.
\* 1.3: the handshake secrets depend on the shared secret and the transcript.
ecdh_derive(s, peer_pub) ==
  [s EXCEPT !.keys = <<{s.ks_pub, peer_pub},
                       IF s.ver = 12
                       THEN <<s.client_random, s.server_random, s.cipher_suite>>
                       ELSE s.transcript>>]

dtls13_derive_application(s) ==
  [s EXCEPT !.app_keys = <<s.keys[1], s.transcript>>]

\* The framing that enters the transcript: with message_seq in 1.2 only.
Inner(s, m) == IF s.ver = 12 THEN m ELSE [type |-> m.type, data |-> m.data]

transcript_add(s, m) == [s EXCEPT !.transcript = Append(@, Inner(s, m))]

Mac(s, label) == <<label, s.keys, s.transcript>>

-----------------------------------------------------------------------------
(* Records *)

Record(ct, epoch, seq, key, payload) ==
  [ct |-> ct, epoch |-> epoch, seq |-> seq, key |-> key, payload |-> payload]

\* What the nonce of a protected record is made from, beside the key.
Nonce(r) == <<r.epoch, r.seq>>

\* The key that protects what endpoint e sends in an epoch, seen by a session
\* that holds the secrets of s: <<>> in place of a secret not derived yet.
TrafficKey(e, s, epoch) ==
  <<e, IF s.ver = 13 /\ epoch = 3 THEN s.app_keys ELSE s.keys>>

plaintext_record(st, ct, payload) ==
  [st EXCEPT !.s.send_seq = @ + 1,
             !.response = Append(@, Record(ct, 0, st.s.send_seq, NoKey, payload))]

\* Mutant: the record number is not advanced.
protect_same_number(st, ct, payload) ==
  [st EXCEPT
     !.response = Append(@, Record(ct, st.s.send_epoch, st.s.send_seq,
                                   TrafficKey(st.s.role, st.s, st.s.send_epoch), payload))]

\* dtls12_protect and dtls13_protect.
protect(st, ct, payload) ==
  [st EXCEPT
     !.s.send_seq = @ + 1,
     !.response = Append(@, Record(ct, st.s.send_epoch, st.s.send_seq,
                                   TrafficKey(st.s.role, st.s, st.s.send_epoch), payload))]

Message(s, type, data) == [type |-> type, mseq |-> s.send_msg_seq, data |-> data]

\* frame_handshake / frame_inner with the record around it: the message takes the
\* next message_seq.  send_plain and send_protected do not touch the transcript.
send_plain(st, type, data) ==
  plaintext_record([st EXCEPT !.s.send_msg_seq = @ + 1], "handshake",
                   Message(st.s, type, data))

send_protected(st, type, data) ==
  protect([st EXCEPT !.s.send_msg_seq = @ + 1], "handshake", Message(st.s, type, data))

new_epoch(st, epoch) == [st EXCEPT !.s.send_epoch = epoch, !.s.send_seq = 0]

\* A new response replaces the one built before in the same step.
start_response(st) == [st EXCEPT !.response = <<>>, !.build = TRUE]

\* build_ack_body lists every handshake record received so far.
Ack(s) == [type |-> "ack", records |-> s.received_records]

-----------------------------------------------------------------------------
(* Datagram parsing *)

Opens(s, r) == r.key = TrafficKey(Peer(s.role), s, r.epoch)

Opened(st, r) == [st EXCEPT !.events = Append(@, r)]

Unopened(st, r) == [st EXCEPT !.pending = Append(@, r)]

\* A record of another epoch is dropped; ChangeCipherSpec moves to the next one.
parse_dtls12_record(st, r) ==
  CASE r.epoch # st.s.recv_epoch -> st
    [] r.epoch = st.s.recv_epoch /\ r.ct = "ccs" ->
         Opened([st EXCEPT !.s.recv_epoch = r.epoch + 1], r)
    [] r.epoch = st.s.recv_epoch /\ r.ct # "ccs" ->
         IF r.epoch = 0 \/ Opens(st.s, r) THEN Opened(st, r) ELSE Unopened(st, r)

\* The plaintext header is read in epoch 0 only; a record with the unified header
\* is tried with the key its epoch bits select, whatever came before it.
parse_dtls13_record(st, r) ==
  IF r.key = NoKey \/ Opens(st.s, r) THEN Opened(st, r) ELSE Unopened(st, r)

parse_record(st, r) ==
  IF st.s.ver = 13 THEN parse_dtls13_record(st, r) ELSE parse_dtls12_record(st, r)

parse_datagram(st, dg) ==
  FoldLeft(parse_record, [st EXCEPT !.events = <<>>, !.pending = <<>>], dg)

-----------------------------------------------------------------------------
(* Handshake messages *)

Fail(st) == [st EXCEPT !.ok = FALSE]

\* A message already processed means that the peer is retransmitting.
Seen(s, m) == m.mseq < s.recv_msg_seq

\* Mutant: a message that has overtaken others is processed at once.
never_early(s, m) == FALSE

\* A message that has overtaken others waits for the peer to send it again.
Early(s, m) == m.mseq > s.recv_msg_seq

\* Mutant: the flight is sent but not kept for retransmission.
finish_step_forgets(st) ==
  [s    |-> [st.s EXCEPT !.retransmit_requested = FALSE],
   out  |-> IF st.build THEN st.response ELSE <<>>,
   done |-> st.done,
   ok   |-> st.ok]

\* The end of both step functions: the new flight, or last_sent again when the
\* peer repeated itself, or nothing.
finish_step(st) ==
  [s    |-> [st.s EXCEPT
               !.last_sent = IF st.build THEN st.response ELSE @,
               !.retransmit_requested = FALSE],
   out  |-> IF st.build THEN st.response
            ELSE IF st.s.retransmit_requested THEN st.s.last_sent ELSE <<>>,
   done |-> st.done,
   ok   |-> st.ok]
=============================================================================
