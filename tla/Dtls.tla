-------------------------------- MODULE Dtls --------------------------------
(***************************************************************************)
(* A client in dtls_connection::connect and a server in server_handshake,  *)
(* then both in send / recv, over a UDP network that delays, reorders,     *)
(* loses and duplicates datagrams.  Each loop handles one datagram, one    *)
(* expired wait or one socket error per iteration, which is one action.    *)
(***************************************************************************)
EXTENDS DtlsClient, DtlsServer

CONSTANTS
  Environments,  \* how the connections are configured and what the world may do
  MaxApp         \* bound on the application datagrams each side sends

(***************************************************************************)
(* An environment is                                                       *)
(*   ver, suite, require_cookie  what the two connections are set up with  *)
(*                      (ver_, cipher_suite_, require_cookie_),            *)
(*   usable, trusted    the outcome of certificate selection on the server *)
(*                      and of verification on the client,                 *)
(*   split              endpoints whose flights leave one record per       *)
(*                      datagram,                                          *)
(*   prompt             waits expire only when nothing else can happen,    *)
(*   deadline           handshake_timeout_ms_ may run out,                 *)
(*   max_retries        waits that may expire in a row (8 in the code),    *)
(*   max_loss, max_dup  datagrams the network may lose, may repeat,        *)
(*   max_app            application datagrams each side sends.             *)
(***************************************************************************)
Environment ==
  [ver : {12, 13}, suite : [Endpoint -> STRING], require_cookie : BOOLEAN,
   usable : BOOLEAN, trusted : BOOLEAN, split : SUBSET Endpoint,
   prompt : BOOLEAN, deadline : BOOLEAN,
   max_retries : Nat, max_loss : Nat, max_dup : Nat, max_app : 0 .. MaxApp]

ASSUME BoundsAssumption == MaxApp \in Nat

ASSUME EnvironmentsAssumption == Environments \subseteq Environment

-----------------------------------------------------------------------------

(***************************************************************************)
(* dtls_handshake_step: a datagram goes through the parser, its handshake  *)
(* messages through process() in order, records whose keys were not known  *)
(* yet are tried again, and the step answers with a flight.  `in` is what  *)
(* the step is given beside the datagram: does the certificate manager     *)
(* have a usable certificate, does the trust store accept the chain.       *)
(***************************************************************************)
process(st, m, in) ==
  IF st.s.role = "client" THEN client_process(st, m, in.trusted)
  ELSE server_process(st, m, in.usable)

\* One iteration of collect_handshake on a whole message.
collect_message(st, m, in) ==
  CASE ~st.ok -> st
    [] st.ok /\ Seen(st.s, m) -> [st EXCEPT !.s.retransmit_requested = TRUE]
    [] st.ok /\ Early(st.s, m) -> st
    [] st.ok /\ ~Seen(st.s, m) /\ ~Early(st.s, m) ->
         LET after == process(st, m, in)
         IN  IF after.ok THEN [after EXCEPT !.s.recv_msg_seq = @ + 1] ELSE after

\* feed: note every handshake record, then collect their messages in order.
collect_handshake(st, r, in) ==
  IF r.ct = "handshake" THEN collect_message(st, r.payload, in) ELSE st

note_records(st) ==
  [st EXCEPT !.s.received_records =
     @ \cup {<<r.epoch, r.seq>> : r \in {x \in Range(st.events) : x.ct = "handshake"}}]

feed(st, in) ==
  FoldLeft(LAMBDA acc, r : collect_handshake(acc, r, in),
           IF st.s.ver = 13 THEN note_records(st) ELSE st, st.events)

\* Records that could not be opened are tried again once messages before them in
\* the datagram may have derived their keys.
retry_pending(st, in) ==
  IF st.ok /\ st.pending # <<>>
  THEN feed(parse_datagram(st, st.pending), in)
  ELSE st

\* One datagram through parse, feed and the retry loop.
consume(s, dg, in) ==
  LET start == [s |-> s, events |-> <<>>, pending |-> <<>>, response |-> <<>>,
                build |-> FALSE, got_shd |-> FALSE, done |-> FALSE, ok |-> TRUE]
  IN  FoldLeft(LAMBDA st, round : retry_pending(st, in),
               feed(parse_datagram(start, dg), in),
               [i \in 1 .. PendingRounds |-> i])

\* client_step on a datagram.
client_step(s, dg, in) ==
  LET st == consume(s, dg, in)
  IN  finish_step(IF st.ok /\ ~st.build /\ st.got_shd /\ st.s.ver = 12
                  THEN client_flight12(start_response(st)) ELSE st)

\* server_step on a datagram.
server_step(s, dg, in) ==
  finish_step(consume(s, dg, in))

dtls_handshake_step(s, dg, in) ==
  IF s.role = "server" THEN server_step(s, dg, in) ELSE client_step(s, dg, in)

-----------------------------------------------------------------------------

VARIABLES
  env,       \* the environment, chosen once
  sess,      \* s_ of both connections
  status,    \* idle, handshake, open or closed
  reason,    \* why a connection closed (last_error_)
  retries,   \* expired waits since the last datagram
  toClient, toServer,  \* datagrams on their way to each endpoint
  lost, dup, \* what the network has used of its budgets
  sent,      \* records each endpoint has ever sent (history)
  appSent,   \* application payloads each endpoint has sent, in order
  delivered  \* payloads recv() has returned, in order

connVars == <<sess, status, reason, retries>>
netVars  == <<toClient, toServer, lost, dup>>
appVars  == <<appSent, delivered>>
vars     == <<env, connVars, netVars, sent, appVars>>

net == [client |-> toClient, server |-> toServer]

SetNet(n) == toClient' = n["client"] /\ toServer' = n["server"]

-----------------------------------------------------------------------------

Init ==
  /\ env \in Environments
  /\ sess = [e \in Endpoint |-> NewSession(e, env.ver, env.suite[e], env.require_cookie)]
  /\ status = [client |-> "idle", server |-> "handshake"]
  /\ reason = [e \in Endpoint |-> "none"]
  /\ retries = [e \in Endpoint |-> 0]
  /\ toClient = {} /\ toServer = {}
  /\ lost = 0 /\ dup = 0
  /\ sent = [e \in Endpoint |-> {}]
  /\ appSent = [e \in Endpoint |-> <<>>]
  /\ delivered = [e \in Endpoint |-> <<>>]

\* The datagrams a flight leaves in.
Datagrams(e, flight) ==
  IF flight = <<>> THEN {}
  ELSE IF e \in env.split THEN {<<r>> : r \in Range(flight)} ELSE {flight}

\* sock_send of a flight, after the datagrams of `taken` have left the network.
Transmit(e, flight, taken) ==
  /\ SetNet([net EXCEPT ![Peer(e)] = @ \cup Datagrams(e, flight), ![e] = @ \ taken])
  /\ sent' = [sent EXCEPT ![e] = @ \cup Range(flight)]

\* The network hands over a datagram once, or keeps a copy for later.
Arrives(e, dg, taken) ==
  /\ dg \in net[e]
  /\ \/ taken = {dg} /\ UNCHANGED dup
     \/ taken = {} /\ dup < env.max_dup /\ dup' = dup + 1
  /\ UNCHANGED lost

Close(e, why) ==
  /\ status' = [status EXCEPT ![e] = "closed"]
  /\ reason' = [reason EXCEPT ![e] = why]

StartConnect ==
  /\ status["client"] = "idle"
  /\ status' = [status EXCEPT !["client"] = "handshake"]

Connect ==
  /\ StartConnect
  /\ LET r == client_first_step(sess["client"])
     IN  /\ sess' = [sess EXCEPT !["client"] = r.s]
         /\ Transmit("client", r.out, {})
  /\ UNCHANGED <<env, reason, retries, lost, dup, appVars>>

\* The server has a certificate for the name and a signature scheme that fits it.
select_sig_scheme == env.usable

\* The chain the server sends is good for the host name and a trusted root.
verify_server_chain == env.trusted

input == [usable |-> select_sig_scheme, trusted |-> verify_server_chain]

\* A datagram reaches an endpoint in its handshake loop: one step, its output sent,
\* the retry counter reset; the loop ends when the step is done or fails.
HandshakeDatagram(e, dg) ==
  \E taken \in SUBSET {dg} :
    LET r == dtls_handshake_step(sess[e], dg, input)
    IN  /\ status[e] = "handshake"
        /\ Arrives(e, dg, taken)
        /\ sess' = [sess EXCEPT ![e] = r.s]
        /\ \/ ~r.ok /\ Close(e, "step") /\ Transmit(e, <<>>, taken) /\ UNCHANGED retries
           \/ /\ r.ok
              /\ Transmit(e, r.out, taken)
              /\ retries' = [retries EXCEPT ![e] = 0]
              /\ status' = [status EXCEPT ![e] = IF r.done THEN "open" ELSE @]
              /\ UNCHANGED reason
        /\ UNCHANGED <<env, appVars>>

\* A network and peers that are quick against the waits: nothing is on its way to
\* an open socket, the client has started, and of two waits of 500 * 2^retries ms
\* the shorter one ends first.
Slack(e) ==
  /\ \A f \in Endpoint : status[f] # "closed" => net[f] = {}
  /\ status["client"] # "idle"
  /\ status[Peer(e)] = "handshake" => retries[e] <= retries[Peer(e)]

\* Mutant: the retry counter is not advanced.
WaitExpiresUncounted(e) ==
  /\ status[e] = "handshake"
  /\ env.prompt => Slack(e)
  /\ UNCHANGED retries

\* recv times out: ++retries.
WaitExpires(e) ==
  /\ status[e] = "handshake"
  /\ env.prompt => Slack(e)
  /\ retries' = [retries EXCEPT ![e] = @ + 1]

\* No datagram within the wait: resend last_sent, or give up.
Timeout(e) ==
  /\ WaitExpires(e)
  /\ \/ /\ retries[e] >= env.max_retries
        /\ Close(e, "retries_exhausted")
        /\ UNCHANGED <<toClient, toServer, sent>>
     \/ /\ retries[e] < env.max_retries
        /\ Transmit(e, sess[e].last_sent, {})
        /\ UNCHANGED <<status, reason>>
  /\ UNCHANGED <<env, sess, lost, dup, appVars>>

\* hs_remaining() <= 0.
HandshakeDeadline(e) ==
  /\ env.deadline
  /\ status[e] = "handshake"
  /\ Close(e, "deadline")
  /\ UNCHANGED <<env, sess, retries, netVars, sent, appVars>>

\* A datagram of this side reaches the closed socket of its peer, and the error
\* that comes back fails the next send or recv.
SocketError(e) ==
  /\ status[e] = "handshake" /\ status[Peer(e)] = "closed"
  /\ net[Peer(e)] # {}
  /\ Close(e, "socket")
  /\ UNCHANGED <<env, sess, retries, netVars, sent, appVars>>

Lose(e, dg) ==
  /\ dg \in net[e]
  /\ lost < env.max_loss
  /\ lost' = lost + 1
  /\ SetNet([net EXCEPT ![e] = @ \ {dg}])
  /\ UNCHANGED <<env, connVars, dup, sent, appVars>>

-----------------------------------------------------------------------------
(* Application data *)

\* send(): one record, numbered in the current epoch.
Send(e) ==
  /\ status[e] = "open"
  /\ Len(appSent[e]) < env.max_app
  /\ LET data == <<e, Len(appSent[e]) + 1>>
         st   == protect([s |-> sess[e], response |-> <<>>], "data", data)
     IN  /\ sess' = [sess EXCEPT ![e] = st.s]
         /\ Transmit(e, st.response, {})
         /\ appSent' = [appSent EXCEPT ![e] = Append(@, data)]
  /\ UNCHANGED <<env, status, reason, retries, lost, dup, delivered>>

keep_application(payloads, r) ==
  IF r.ct = "data" THEN Append(payloads, r.payload) ELSE payloads

\* recv(): dtls_unprotect_application keeps the application records of a datagram.
Recv(e, dg) ==
  \E taken \in SUBSET {dg} :
    LET st == parse_datagram([s |-> sess[e], events |-> <<>>, pending |-> <<>>], dg)
    IN  /\ status[e] = "open"
        /\ Arrives(e, dg, taken)
        /\ SetNet([net EXCEPT ![e] = @ \ taken])
        /\ sess' = [sess EXCEPT ![e] = st.s]
        /\ delivered' = [delivered EXCEPT ![e] = FoldLeft(keep_application, @, st.events)]
        /\ UNCHANGED <<env, status, reason, retries, sent, appSent>>

\* close(), or the destructor, of an open connection.
CloseOpen(e) ==
  /\ status[e] = "open"
  /\ Close(e, "closed_by_user")
  /\ UNCHANGED <<env, sess, retries, netVars, sent, appVars>>

-----------------------------------------------------------------------------

Next ==
  \/ Connect
  \/ \E e \in Endpoint :
       \/ Timeout(e)
       \/ HandshakeDeadline(e)
       \/ SocketError(e)
       \/ Send(e)
       \/ CloseOpen(e)
       \/ \E dg \in net[e] : HandshakeDatagram(e, dg) \/ Recv(e, dg) \/ Lose(e, dg)

Spec == Init /\ [][Next]_vars

\* An endpoint that is neither idle nor closed takes a datagram off the network.
Reads(e) == status[e] \in {"handshake", "open"} /\ UNCHANGED lost

ClientReads == Reads("client") /\ \E dg \in toClient : toClient' = toClient \ {dg}

ServerReads == Reads("server") /\ \E dg \in toServer : toServer' = toServer \ {dg}

\* A thread blocked in its loop wakes up when the wait expires, and a datagram that
\* is not lost reaches it.  Each formula names, by the one variable it changes, the
\* steps of an action of Next: of Connect, of Timeout(e), and of HandshakeDatagram
\* or Recv with a datagram that does not stay in the network.
Fairness ==
  /\ WF_status(StartConnect)
  /\ \A e \in Endpoint : WF_retries(WaitExpires(e))
  /\ WF_toClient(ClientReads)
  /\ WF_toServer(ServerReads)

FairSpec == Spec /\ Fairness

-----------------------------------------------------------------------------
(* Properties *)

Done(e) == sess[e].handshake_done

\* When an endpoint is done its peer already holds the same record keys and the
\* same suite, and when both are done they agree on the application keys and on the
\* whole transcript, whatever was lost, repeated or reordered and whether or not
\* there was a cookie exchange.
KeysAgree ==
  \A e \in Endpoint : Done(e) =>
    LET a == sess[e]
        b == sess[Peer(e)]
    IN  /\ a.keys # NoKey /\ a.keys = b.keys
        /\ a.cipher_suite = b.cipher_suite
        /\ Done(Peer(e)) => a.app_keys = b.app_keys /\ a.transcript = b.transcript

\* Two honest endpoints with a good certificate never reject each other's
\* messages: no loss, repetition or reordering makes process() return false.
NoHonestFailure ==
  env.usable /\ env.trusted => \A e \in Endpoint : reason[e] # "step"

\* Without a usable certificate, or with a chain the client does not trust,
\* neither endpoint ever completes.
UnauthenticatedNeverCompletes ==
  ~(env.usable /\ env.trusted) => \A e \in Endpoint : ~Done(e)

\* A record number is used for one record only under one key: retransmissions
\* repeat the record, they never protect another one under the same number
\* (ChaCha20-Poly1305 and DTLS 1.3 derive the nonce from it).
NonceUnique ==
  \A e \in Endpoint : \A r1, r2 \in sent[e] :
    r1.key # NoKey /\ r1.key = r2.key /\ Nonce(r1) = Nonce(r2)
    => r1 = r2

\* dtls_connection keeps the promise of a secure channel: the endpoints that
\* complete share their keys, and recv() returns only what the peer sent.
Channel == INSTANCE SecureChannel WITH
  Data      <- Endpoint \X (1 .. MaxApp),
  state     <- [e \in Endpoint |-> IF status[e] = "idle" THEN "handshake" ELSE status[e]],
  key       <- [e \in Endpoint |-> IF Done(e) THEN <<sess[e].keys, sess[e].app_keys>> ELSE <<>>],
  sent      <- appSent
ImplementsSecureChannel == Channel!Spec

\* The endpoint that receives the last handshake message which is answered.
Finisher == IF env.ver = 12 THEN "server" ELSE "client"

\* With good certificates and a prompt network a handshake survives the loss and
\* repetition of any datagram up to the last flight: the side that sends the last
\* flight completes.
FinisherCompletes == env.prompt /\ env.usable /\ env.trusted => <>Done(Finisher)

\* connect() and server_handshake() return, also without their deadline, although any
\* datagram resets the retry counter; for flights in one datagram each, as this code
\* sends them.
Terminates ==
  env.split = {} =>
    \A e \in Endpoint : (status[e] = "handshake") ~> (status[e] # "handshake")

\* "connect: complete the handshake (blocking, with retransmission)"; the peer's
\* retransmission is recognised and last_sent is sent again (dtls.hpp).  Both sides
\* complete, unless a caller closes a connection that is already open.
BothComplete ==
  <>(\/ Done("client") /\ Done("server")
     \/ \E e \in Endpoint : reason[e] = "closed_by_user")
=============================================================================
