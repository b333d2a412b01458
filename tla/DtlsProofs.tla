----------------------------- MODULE DtlsProofs -----------------------------
(***************************************************************************)
(* Proofs about Dtls, for any environments.                                *)
(*                                                                         *)
(* The messages of one side are handled in the order of their message_seq, *)
(* and what a side answers is a function of the environment k and of how   *)
(* many messages of the peer it has handled.  So every message and every   *)
(* transcript of a connection has a name (CH(k), SH(k), Heard5(k), ...),   *)
(* and a session is at one of a few stages p.  The inductive invariant     *)
(* says at which stage each side is, that no side is ahead of what the     *)
(* other has sent, and what is on the wire in these terms.  Loss,          *)
(* repetition and reordering only decide which messages arrive.            *)
(***************************************************************************)
EXTENDS Dtls, SequenceTheorems, WellFoundedInduction, TLAPS

(***************************************************************************)
(* The messages of a connection.                                           *)
(***************************************************************************)
\* How many HelloVerifyRequests come before the ServerHello.
Cookies(k) == IF k.ver = 12 /\ k.require_cookie THEN 1 ELSE 0

HandshakeMessage(type, mseq, data) == [type |-> type, mseq |-> mseq, data |-> data]

ShareOf(k, e) == IF k.ver = 13 THEN <<e, 1>> ELSE <<"none", 0>>

HelloData(k, suites, cookie) ==
  [random |-> "client_random", suites |-> suites, cookie |-> cookie, share |-> ShareOf(k, "client")]

FirstHello(k) == HelloData(k, client_suites(k.ver, k.suite["client"]), NoCookie)
SecondHello(k) == HelloData(k, DefaultSuites12, make_cookie("client_random"))
LastHello(k) == IF Cookies(k) = 1 THEN SecondHello(k) ELSE FirstHello(k)

Suite(k) ==
  IF k.suite["server"] \in Range(LastHello(k).suites) THEN k.suite["server"]
  ELSE LastHello(k).suites[1]

Entry(k, m) == IF k.ver = 12 THEN m ELSE [type |-> m.type, data |-> m.data]

CH(k) == HandshakeMessage("CLIENT_HELLO", Cookies(k), LastHello(k))
HVR(k) == HandshakeMessage("HELLO_VERIFY_REQUEST", 0, [cookie |-> make_cookie("client_random")])
SH(k) == HandshakeMessage("SERVER_HELLO", Cookies(k),
           [random |-> "server_random", suite |-> Suite(k), share |-> ShareOf(k, "server")])

Heard1(k) == Append(<<>>, Entry(k, CH(k)))
Heard2(k) == Append(Heard1(k), Entry(k, SH(k)))

(***************************************************************************)
(* 1.2                                                                     *)
(***************************************************************************)
Keys12(k) == <<{<<"client", 2>>, <<"server", 1>>},
               <<"client_random", "server_random", Suite(k)>>>>

Crt12(k) == HandshakeMessage("CERTIFICATE", Cookies(k) + 1, Empty)
SKE(k) == HandshakeMessage("SERVER_KEY_EXCHANGE", Cookies(k) + 2,
            [share |-> <<"server", 1>>,
             sig |-> <<"client_random", "server_random", <<"server", 1>>>>])
SHD(k) == HandshakeMessage("SERVER_HELLO_DONE", Cookies(k) + 3, Empty)
CKE(k) == HandshakeMessage("CLIENT_KEY_EXCHANGE", Cookies(k) + 1, [share |-> <<"client", 2>>])

Heard3(k) == Append(Heard2(k), Entry(k, Crt12(k)))
Heard4(k) == Append(Heard3(k), Entry(k, SKE(k)))
Heard5(k) == Append(Heard4(k), Entry(k, SHD(k)))
Heard6(k) == Append(Heard5(k), Entry(k, CKE(k)))

ClientFinished12(k) ==
  HandshakeMessage("FINISHED", Cookies(k) + 2,
                   [mac |-> <<"client_finished", Keys12(k), Heard6(k)>>])
Heard7(k) == Append(Heard6(k), Entry(k, ClientFinished12(k)))

ServerFinished12(k) ==
  HandshakeMessage("FINISHED", Cookies(k) + 4,
                   [mac |-> <<"server_finished", Keys12(k), Heard7(k)>>])
Heard8(k) == Append(Heard7(k), Entry(k, ServerFinished12(k)))

(***************************************************************************)
(* 1.3                                                                     *)
(***************************************************************************)
Keys13(k) == <<{<<"client", 1>>, <<"server", 1>>}, Heard2(k)>>

EE(k) == HandshakeMessage("ENCRYPTED_EXTENSIONS", 1, Empty)
Crt13(k) == HandshakeMessage("CERTIFICATE", 2, Empty)
Read3(k) == Append(Heard2(k), Entry(k, EE(k)))
Read4(k) == Append(Read3(k), Entry(k, Crt13(k)))

CV(k) == HandshakeMessage("CERTIFICATE_VERIFY", 3, [sig |-> Read4(k)])
Read5(k) == Append(Read4(k), Entry(k, CV(k)))

ServerFinished13(k) ==
  HandshakeMessage("FINISHED", 4, [mac |-> <<"server_finished", Keys13(k), Read5(k)>>])
Read6(k) == Append(Read5(k), Entry(k, ServerFinished13(k)))

AppKeys(k) == <<Keys13(k)[1], Read6(k)>>

ClientFinished13(k) ==
  HandshakeMessage("FINISHED", 1, [mac |-> <<"client_finished", Keys13(k), Read6(k)>>])
Read7(k) == Append(Read6(k), Entry(k, ClientFinished13(k)))

\* Message number i of each side.
ClientMessage(k, i) ==
  IF k.ver = 12
  THEN CASE i < Cookies(k) -> HandshakeMessage("CLIENT_HELLO", 0, FirstHello(k))
         [] i = Cookies(k) -> CH(k)
         [] i = Cookies(k) + 1 -> CKE(k)
         [] OTHER -> ClientFinished12(k)
  ELSE IF i = 0 THEN CH(k) ELSE ClientFinished13(k)

ServerMessage(k, i) ==
  IF k.ver = 12
  THEN CASE i < Cookies(k) -> HVR(k)
         [] i = Cookies(k) -> SH(k)
         [] i = Cookies(k) + 1 -> Crt12(k)
         [] i = Cookies(k) + 2 -> SKE(k)
         [] i = Cookies(k) + 3 -> SHD(k)
         [] OTHER -> ServerFinished12(k)
  ELSE CASE i = 0 -> SH(k)
         [] i = 1 -> EE(k)
         [] i = 2 -> Crt13(k)
         [] i = 3 -> CV(k)
         [] OTHER -> ServerFinished13(k)

MessageOf(k, e, i) == IF e = "client" THEN ClientMessage(k, i) ELSE ServerMessage(k, i)

-----------------------------------------------------------------------------
(***************************************************************************)
(* The stages of a session.  d counts the application records it has sent. *)
(***************************************************************************)
ClientAt12(k, s, p, d) ==
  LET c == Cookies(k)
  IN  /\ p \in -c .. 6
      /\ p <= 4 => s.recv_msg_seq = c + p
      /\ p >= 5 => s.recv_msg_seq = c + p - 1 /\ s.send_msg_seq = c + 3
      /\ p = -1 => s.send_msg_seq = 1
      /\ p \in 0 .. 4 => s.send_msg_seq = c + 1
      /\ s.client_random = "client_random"
      /\ s.app_keys = NoKey
      /\ p <= 2 => s.ks_pub = <<"client", 1>>
      /\ p >= 3 => s.ks_pub = <<"client", 2>>
      /\ p = 0 => s.transcript = Heard1(k)
      /\ p = 1 => s.transcript = Heard2(k)
      /\ p = 2 => s.transcript = Heard3(k)
      /\ p = 3 => s.transcript = Heard4(k)
      /\ p = 4 => s.transcript = Heard5(k)
      /\ p = 5 => s.transcript = Heard7(k)
      /\ p = 6 => s.transcript = Heard8(k)
      /\ p >= 1 => s.server_random = "server_random" /\ s.cipher_suite = Suite(k)
      /\ p >= 2 => s.have_server_cert = TRUE /\ k.trusted
      /\ p >= 3 => s.keys = Keys12(k)
      /\ p >= 5 => s.send_epoch = 1 /\ s.send_seq = 1 + d
      /\ p = 6 => s.handshake_done = TRUE
      /\ p # 6 => s.handshake_done = FALSE
      /\ p # 6 => d = 0

ServerAt12(k, s, p, d) ==
  LET c == Cookies(k)
  IN  /\ p \in -c .. 3
      /\ s.recv_msg_seq = c + p
      /\ p = -1 => s.send_msg_seq = 0
      /\ p = 0 => s.send_msg_seq = c
      /\ p \in {1, 2} => s.send_msg_seq = c + 4
      /\ p = 3 => s.send_msg_seq = c + 5
      /\ s.app_keys = NoKey
      /\ p <= 0 => /\ s.transcript = <<>> /\ s.cipher_suite = k.suite["server"]
                   /\ s.ks_pub = <<"server", 0>>
      /\ p = 1 => s.transcript = Heard5(k)
      /\ p = 2 => s.transcript = Heard6(k)
      /\ p = 3 => s.transcript = Heard8(k)
      /\ p >= 1 => /\ k.usable
                   /\ s.client_random = "client_random" /\ s.server_random = "server_random"
                   /\ s.cipher_suite = Suite(k) /\ s.ks_pub = <<"server", 1>>
      /\ p >= 2 => s.keys = Keys12(k)
      /\ p = 3 => s.send_epoch = 1 /\ s.send_seq = 1 + d
      /\ p = 3 => s.handshake_done = TRUE
      /\ p # 3 => s.handshake_done = FALSE
      /\ p # 3 => d = 0

ClientAt13(k, s, p, d) ==
  /\ p \in 0 .. 5
  /\ s.recv_msg_seq = p
  /\ p <= 4 => s.send_msg_seq = 1
  /\ p = 5 => s.send_msg_seq = 2
  /\ s.ks_pub = <<"client", 1>>
  /\ p = 0 => s.transcript = Heard1(k)
  /\ p = 1 => s.transcript = Heard2(k)
  /\ p = 2 => s.transcript = Read3(k)
  /\ p = 3 => s.transcript = Read4(k)
  /\ p = 4 => s.transcript = Read5(k)
  /\ p = 5 => s.transcript = Read7(k)
  /\ p >= 1 => s.keys = Keys13(k) /\ s.cipher_suite = Suite(k)
  /\ p \in 1 .. 4 => s.send_epoch = 2 /\ s.send_seq = 0
  /\ p >= 3 => s.have_server_cert = TRUE /\ k.trusted
  /\ p = 5 => s.app_keys = AppKeys(k) /\ s.send_epoch = 3 /\ s.send_seq = d
  /\ p = 5 => s.handshake_done = TRUE
  /\ p # 5 => s.handshake_done = FALSE
  /\ p # 5 => d = 0

ServerAt13(k, s, p, d) ==
  /\ p \in 0 .. 2
  /\ s.recv_msg_seq = p
  /\ p = 0 => s.send_msg_seq = 0
  /\ p >= 1 => s.send_msg_seq = 5
  /\ p = 0 => /\ s.transcript = <<>> /\ s.cipher_suite = k.suite["server"]
              /\ s.ks_pub = <<"server", 0>>
  /\ p = 1 => s.transcript = Read6(k) /\ s.send_epoch = 2 /\ s.send_seq = 5
  /\ p = 2 => s.transcript = Read7(k) /\ s.send_epoch = 3 /\ s.send_seq = d
  /\ p >= 1 => /\ k.usable
               /\ s.keys = Keys13(k) /\ s.app_keys = AppKeys(k) /\ s.cipher_suite = Suite(k)
  /\ p = 2 => s.handshake_done = TRUE
  /\ p # 2 => s.handshake_done = FALSE
  /\ p # 2 => d = 0

SessionFields ==
  {"role", "ver", "require_cookie", "phase", "cipher_suite", "client_random", "server_random",
   "ks_pub", "keys", "app_keys", "send_epoch", "recv_epoch", "send_seq", "send_msg_seq",
   "recv_msg_seq", "cookie", "received_records", "last_sent", "transcript", "have_server_cert",
   "retransmit_requested", "handshake_done"}

IsSession(s) == DOMAIN s = SessionFields

\* s is a session of endpoint e.
Own(k, e, s) ==
  IsSession(s) /\ s.role = e /\ s.ver = k.ver /\ s.require_cookie = k.require_cookie

At(k, e, s, p, d) ==
  /\ Own(k, e, s)
  /\ IF k.ver = 12
     THEN IF e = "client" THEN ClientAt12(k, s, p, d) ELSE ServerAt12(k, s, p, d)
     ELSE IF e = "client" THEN ClientAt13(k, s, p, d) ELSE ServerAt13(k, s, p, d)

\* A client that refused the chain, a server that found no certificate.
Failed(k, e, s) ==
  /\ IsSession(s) /\ s.handshake_done = FALSE
  /\ s.recv_msg_seq \in Nat /\ s.send_msg_seq \in Nat
  /\ IF e = "client"
     THEN /\ ~k.trusted /\ s.send_msg_seq <= Cookies(k) + 1
          /\ s.recv_msg_seq >= Cookies(k) + 1
     ELSE ~k.usable /\ s.send_msg_seq <= Cookies(k)

-----------------------------------------------------------------------------
(***************************************************************************)
(* The records of a connection.                                            *)
(***************************************************************************)
\* The messages that are sent protected, and the record numbers they take.
Secret(k, e) ==
  IF k.ver = 12 THEN {IF e = "client" THEN Cookies(k) + 2 ELSE Cookies(k) + 4}
  ELSE IF e = "client" THEN {1} ELSE 1 .. 4

SecretNumber(k, e, i) ==
  IF k.ver = 12 THEN <<1, 0>> ELSE IF e = "client" THEN <<2, 0>> ELSE <<2, i>>

AckNumber(e) == IF e = "client" THEN <<2, 1>> ELSE <<2, 5>>

DataNumber(k, i) == IF k.ver = 12 THEN <<1, i>> ELSE <<3, i - 1>>

IsRecord(r) == r = Record(r.ct, r.epoch, r.seq, r.key, r.payload)

\* A record of the handshake from a session that has sent n messages.
HandshakeRecord(k, e, n, r) ==
  /\ IsRecord(r)
  /\ \/ /\ r.ct = "handshake"
        /\ r.payload.mseq \in 0 .. n - 1
        /\ r.payload = MessageOf(k, e, r.payload.mseq)
        /\ r.key # NoKey => /\ r.payload.mseq \in Secret(k, e)
                            /\ Nonce(r) = SecretNumber(k, e, r.payload.mseq)
     \/ r.ct = "ccs" /\ r.key = NoKey
     \/ r.ct = "ack" /\ k.ver = 13 /\ Nonce(r) = AckNumber(e)

\* One of the first d records of application data.
DataRecord(k, e, d, r) ==
  /\ IsRecord(r) /\ r.ct = "data"
  /\ \E i \in 1 .. d : r.payload = <<e, i>> /\ Nonce(r) = DataNumber(k, i)

AckOnce(R) == \A r1, r2 \in R : r1.ct = "ack" /\ r2.ct = "ack" => r1 = r2

NoData(R) == \A r \in R : r.ct # "data"

IsSeq(s) == \E S : s \in Seq(S)

-----------------------------------------------------------------------------
(***************************************************************************)
(* The inductive invariant, for environment k.                             *)
(***************************************************************************)
Started(k, e) == NewSession(e, k.ver, k.suite[e], k.require_cookie)

\* A session between two steps.
Resting(k, e) ==
  IF reason[e] = "step"
  THEN status[e] = "closed" /\ Failed(k, e, sess[e]) /\ appSent[e] = <<>>
  ELSE IF status[e] = "idle" THEN e = "client" /\ sess[e] = Started(k, e) /\ appSent[e] = <<>>
  ELSE /\ \E p \in -1 .. 6 :
            At(k, e, sess[e], p, Len(appSent[e])) /\ (k.ver = 12 /\ e = "client" => p # 4)
       /\ status[e] = "open" => Done(e)
       /\ status[e] = "handshake" => ~Done(e)

LastFlightSent(e) ==
  reason[e] # "step" =>
    /\ IsSeq(sess[e].last_sent)
    /\ Range(sess[e].last_sent) \subseteq sent[e] /\ NoData(Range(sess[e].last_sent))

SentRecords(k, e) ==
  /\ \A r \in sent[e] : \/ HandshakeRecord(k, e, sess[e].send_msg_seq, r)
                        \/ DataRecord(k, e, Len(appSent[e]), r)
  /\ AckOnce(sent[e])
  /\ ~Done(e) => \A r \in sent[e] : r.ct # "ack"

Underway(e) ==
  \A dg \in net[e] :
    /\ IsSeq(dg) /\ Range(dg) \subseteq sent[Peer(e)]
    /\ NoData(Range(dg)) \/ Len(dg) = 1

\* No side has handled more messages than the other has sent.
Follows(e) == sess[e].recv_msg_seq <= sess[Peer(e)].send_msg_seq

AppData(e) ==
  /\ appSent[e] \in Seq(Endpoint \X Nat) /\ Len(appSent[e]) <= env.max_app
  /\ \A i \in 1 .. Len(appSent[e]) : appSent[e][i] = <<e, i>>
  /\ IsSeq(delivered[e])

\* f is a function of the endpoints.
PerEndpoint(f) == f = [e \in Endpoint |-> f[e]]

Shapes ==
  /\ status \in [Endpoint -> {"idle", "handshake", "open", "closed"}]
  /\ PerEndpoint(reason) /\ PerEndpoint(sess) /\ PerEndpoint(sent)
  /\ PerEndpoint(appSent) /\ PerEndpoint(delivered)

Inv(k) ==
  /\ env = k
  /\ Shapes
  /\ \A e \in Endpoint : Resting(k, e)
  /\ \A e \in Endpoint : LastFlightSent(e)
  /\ \A e \in Endpoint : SentRecords(k, e)
  /\ \A e \in Endpoint : Underway(e)
  /\ \A e \in Endpoint : Follows(e)
  /\ \A e \in Endpoint : AppData(e)

IInv == \E k \in Environments : Inv(k)

-----------------------------------------------------------------------------
(***************************************************************************)
(* What the operators of a step change.                                    *)
(***************************************************************************)
StepFields == {"s", "events", "pending", "response", "build", "got_shd", "done", "ok"}

IsStep(st) == DOMAIN st = StepFields /\ IsSession(st.s)

\* t is s but for the fields X.
Same(s, t, X) == \A f \in SessionFields \ X : t[f] = s[f]
SameStep(st, t, X) == \A f \in StepFields \ X : t[f] = st[f]

\* t is st after it has emitted r; the session changed in the fields X.
Emits(st, t, X, r) ==
  /\ IsStep(t) /\ SameStep(st, t, {"s", "response"}) /\ Same(st.s, t.s, X)
  /\ t.response = Append(st.response, r)

LEMMA PlaintextRecordFields ==
  ASSUME NEW st, IsStep(st), NEW ct, NEW payload
  PROVE  Emits(st, plaintext_record(st, ct, payload), {"send_seq"},
               Record(ct, 0, st.s.send_seq, NoKey, payload))
BY DEF plaintext_record, Emits, IsStep, IsSession, Same, SameStep, StepFields, SessionFields

LEMMA ProtectFields ==
  ASSUME NEW st, IsStep(st), NEW ct, NEW payload
  PROVE  LET t == protect(st, ct, payload)
         IN  /\ Emits(st, t, {"send_seq"},
                      Record(ct, st.s.send_epoch, st.s.send_seq,
                             TrafficKey(st.s.role, st.s, st.s.send_epoch), payload))
             /\ t.s.send_seq = st.s.send_seq + 1
BY DEF protect, Emits, IsStep, IsSession, Same, SameStep, StepFields, SessionFields

LEMMA SendPlainFields ==
  ASSUME NEW st, IsStep(st), NEW type, NEW data
  PROVE  LET t == send_plain(st, type, data)
         IN  /\ Emits(st, t, {"send_seq", "send_msg_seq"},
                      Record("handshake", 0, st.s.send_seq, NoKey,
                             HandshakeMessage(type, st.s.send_msg_seq, data)))
             /\ t.s.send_msg_seq = st.s.send_msg_seq + 1
BY DEF send_plain, plaintext_record, Message, HandshakeMessage,
       Emits, IsStep, IsSession, Same, SameStep, StepFields, SessionFields

LEMMA SendProtectedFields ==
  ASSUME NEW st, IsStep(st), NEW type, NEW data
  PROVE  LET t == send_protected(st, type, data)
         IN  /\ \E key : Emits(st, t, {"send_seq", "send_msg_seq"},
                      Record("handshake", st.s.send_epoch, st.s.send_seq, key,
                             HandshakeMessage(type, st.s.send_msg_seq, data)))
             /\ t.s.send_msg_seq = st.s.send_msg_seq + 1
             /\ t.s.send_seq = st.s.send_seq + 1
<1> DEFINE u == [st EXCEPT !.s.send_msg_seq = @ + 1]
<1>1. /\ IsStep(u) /\ SameStep(st, u, {"s"}) /\ Same(st.s, u.s, {"send_msg_seq"})
      /\ u.s.send_msg_seq = st.s.send_msg_seq + 1
  BY DEF IsStep, IsSession, Same, SameStep, StepFields, SessionFields
<1> DEFINE m == Message(st.s, type, data)
           t == protect(u, "handshake", m)
           key == TrafficKey(u.s.role, u.s, u.s.send_epoch)
           r == Record("handshake", u.s.send_epoch, u.s.send_seq, key, m)
<1> HIDE DEF u
<1>2. Emits(u, t, {"send_seq"}, r) /\ t.s.send_seq = u.s.send_seq + 1
  BY <1>1, ProtectFields
<1>3. u.s.send_epoch = st.s.send_epoch /\ u.s.send_seq = st.s.send_seq /\ u.response = st.response
  BY <1>1 DEF Same, SameStep, StepFields, SessionFields
<1>4. t = send_protected(st, type, data)
  BY DEF send_protected, u
<1> HIDE DEF t, key
<1>5. Emits(st, t, {"send_seq", "send_msg_seq"},
            Record("handshake", st.s.send_epoch, st.s.send_seq, key,
                   HandshakeMessage(type, st.s.send_msg_seq, data)))
  BY <1>1, <1>2, <1>3 DEF Emits, Same, SameStep, Message, HandshakeMessage
<1>6. t.s.send_msg_seq = st.s.send_msg_seq + 1 /\ t.s.send_seq = st.s.send_seq + 1
  BY <1>1, <1>2, <1>3 DEF Emits, Same, SessionFields
<1> QED
  BY <1>4, <1>5, <1>6

LEMMA TranscriptAddFields ==
  ASSUME NEW k, NEW s, IsSession(s), s.ver = k.ver, NEW m
  PROVE  LET t == transcript_add(s, m)
         IN  /\ IsSession(t) /\ Same(s, t, {"transcript"})
             /\ t.transcript = Append(s.transcript, Entry(k, m))
BY DEF transcript_add, Inner, Entry, IsSession, Same, SessionFields

\* The session of a step replaced.
LEMMA NewSessionOfStep ==
  ASSUME NEW st, IsStep(st), NEW s, IsSession(s)
  PROVE  LET t == [st EXCEPT !.s = s]
         IN  IsStep(t) /\ t.s = s /\ SameStep(st, t, {"s"})
BY DEF IsStep, SameStep, StepFields

LEMMA AddPlainFields ==
  ASSUME NEW k, NEW st, IsStep(st), st.s.ver = k.ver, NEW type, NEW data
  PROVE  LET t == add_plain(st, type, data)
             m == HandshakeMessage(type, st.s.send_msg_seq, data)
         IN  /\ Emits(st, t, {"send_seq", "send_msg_seq", "transcript"},
                      Record("handshake", 0, st.s.send_seq, NoKey, m))
             /\ t.s.send_msg_seq = st.s.send_msg_seq + 1
             /\ t.s.transcript = Append(st.s.transcript, Entry(k, m))
<1> DEFINE m == Message(st.s, type, data)
           s1 == transcript_add(st.s, m)
           u == [st EXCEPT !.s = s1]
           t == send_plain(u, type, data)
<1>1. t = add_plain(st, type, data)
  BY Zenon DEF add_plain
<1>2. /\ IsSession(s1) /\ Same(st.s, s1, {"transcript"})
      /\ s1.transcript = Append(st.s.transcript, Entry(k, m))
  BY TranscriptAddFields DEF IsStep
<1> HIDE DEF s1
<1>3. IsStep(u) /\ u.s = s1 /\ SameStep(st, u, {"s"})
  BY <1>2, NewSessionOfStep
<1> HIDE DEF u
<1>4. /\ Emits(u, t, {"send_seq", "send_msg_seq"},
               Record("handshake", 0, u.s.send_seq, NoKey,
                      HandshakeMessage(type, u.s.send_msg_seq, data)))
      /\ t.s.send_msg_seq = u.s.send_msg_seq + 1
  BY <1>3, SendPlainFields
<1>5. u.s.send_seq = st.s.send_seq /\ u.s.send_msg_seq = st.s.send_msg_seq /\ u.response = st.response
  BY <1>2, <1>3 DEF Same, SameStep, StepFields, SessionFields
<1>6. m = HandshakeMessage(type, st.s.send_msg_seq, data)
  BY DEF Message, HandshakeMessage
<1> HIDE DEF t, m
<1>7. t.s.transcript = s1.transcript
  BY <1>3, <1>4 DEF Emits, Same, SessionFields
<1>8. Emits(st, t, {"send_seq", "send_msg_seq", "transcript"},
            Record("handshake", 0, st.s.send_seq, NoKey, m))
  BY <1>2, <1>3, <1>4, <1>5, <1>6 DEF Emits, Same, SameStep
<1> QED
  BY <1>1, <1>2, <1>4, <1>5, <1>6, <1>7, <1>8

LEMMA AddProtectedFields ==
  ASSUME NEW k, NEW st, IsStep(st), st.s.ver = k.ver, NEW type, NEW data
  PROVE  LET t == add_protected(st, type, data)
             m == HandshakeMessage(type, st.s.send_msg_seq, data)
         IN  /\ \E key : Emits(st, t, {"send_seq", "send_msg_seq", "transcript"},
                               Record("handshake", st.s.send_epoch, st.s.send_seq, key, m))
             /\ t.s.send_msg_seq = st.s.send_msg_seq + 1
             /\ t.s.send_seq = st.s.send_seq + 1
             /\ t.s.transcript = Append(st.s.transcript, Entry(k, m))
<1> DEFINE m == Message(st.s, type, data)
           s1 == transcript_add(st.s, m)
           u == [st EXCEPT !.s = s1]
           t == send_protected(u, type, data)
<1>1. t = add_protected(st, type, data)
  BY Zenon DEF add_protected
<1>2. /\ IsSession(s1) /\ Same(st.s, s1, {"transcript"})
      /\ s1.transcript = Append(st.s.transcript, Entry(k, m))
  BY TranscriptAddFields DEF IsStep
<1> HIDE DEF s1
<1>3. IsStep(u) /\ u.s = s1 /\ SameStep(st, u, {"s"})
  BY <1>2, NewSessionOfStep
<1> HIDE DEF u
<1>4. PICK key : Emits(u, t, {"send_seq", "send_msg_seq"},
               Record("handshake", u.s.send_epoch, u.s.send_seq, key,
                      HandshakeMessage(type, u.s.send_msg_seq, data)))
  BY <1>3, SendProtectedFields, Zenon
<1>4a. t.s.send_msg_seq = u.s.send_msg_seq + 1 /\ t.s.send_seq = u.s.send_seq + 1
  BY <1>3, SendProtectedFields, Zenon
<1>5. /\ u.s.send_seq = st.s.send_seq /\ u.s.send_msg_seq = st.s.send_msg_seq
      /\ u.response = st.response /\ u.s.send_epoch = st.s.send_epoch
  BY <1>2, <1>3 DEF Same, SameStep, StepFields, SessionFields
<1>6. m = HandshakeMessage(type, st.s.send_msg_seq, data)
  BY DEF Message, HandshakeMessage
<1> HIDE DEF t, m
<1>7. t.s.transcript = s1.transcript
  BY <1>3, <1>4 DEF Emits, Same, SessionFields
<1>8. Emits(st, t, {"send_seq", "send_msg_seq", "transcript"},
            Record("handshake", st.s.send_epoch, st.s.send_seq, key, m))
  BY <1>2, <1>3, <1>4, <1>5, <1>6 DEF Emits, Same, SameStep
<1> QED
  BY <1>1, <1>2, <1>4a, <1>5, <1>6, <1>7, <1>8

LEMMA NewEpochFields ==
  ASSUME NEW st, IsStep(st), NEW epoch
  PROVE  LET t == new_epoch(st, epoch)
         IN  /\ IsStep(t) /\ SameStep(st, t, {"s"}) /\ Same(st.s, t.s, {"send_epoch", "send_seq"})
             /\ t.s.send_epoch = epoch /\ t.s.send_seq = 0
BY DEF new_epoch, IsStep, IsSession, Same, SameStep, StepFields, SessionFields

LEMMA StartResponseFields ==
  ASSUME NEW st, IsStep(st)
  PROVE  LET t == start_response(st)
         IN  /\ IsStep(t) /\ SameStep(st, t, {"response", "build"}) /\ t.s = st.s
             /\ t.response = <<>> /\ t.build = TRUE
BY DEF start_response, IsStep, SameStep, StepFields

LEMMA DeriveFields ==
  ASSUME NEW s, IsSession(s), NEW peer_pub
  PROVE  LET t == ecdh_derive(s, peer_pub)
         IN  /\ IsSession(t) /\ Same(s, t, {"keys"})
             /\ t.keys = <<{s.ks_pub, peer_pub},
                           IF s.ver = 12
                           THEN <<s.client_random, s.server_random, s.cipher_suite>>
                           ELSE s.transcript>>
BY DEF ecdh_derive, IsSession, Same, SessionFields

LEMMA DeriveApplicationFields ==
  ASSUME NEW s, IsSession(s)
  PROVE  LET t == dtls13_derive_application(s)
         IN  IsSession(t) /\ Same(s, t, {"app_keys"}) /\ t.app_keys = <<s.keys[1], s.transcript>>
BY DEF dtls13_derive_application, IsSession, Same, SessionFields

LEMMA GenerateFields ==
  ASSUME NEW s, IsSession(s)
  PROVE  LET t == generate_ecdh_keypair(s)
         IN  /\ IsSession(t) /\ Same(s, t, {"ks_pub"})
             /\ \A e, i : s.ks_pub = <<e, i>> => t.ks_pub = <<e, i + 1>>
BY DEF generate_ecdh_keypair, IsSession, Same, SessionFields

LEMMA FinishStepFields ==
  ASSUME NEW st, IsStep(st)
  PROVE  LET t == finish_step(st)
         IN  /\ IsSession(t.s) /\ Same(st.s, t.s, {"last_sent", "retransmit_requested"})
             /\ t.s.last_sent = IF st.build THEN st.response ELSE st.s.last_sent
             /\ t.out = t.s.last_sent \/ t.out = <<>>
             /\ st.build => t.out = st.response
             /\ t.done = st.done /\ t.ok = st.ok
BY DEF finish_step, IsStep, IsSession, Same, StepFields, SessionFields

-----------------------------------------------------------------------------
(***************************************************************************)
(* Sequences and flights.                                                  *)
(***************************************************************************)
LEMMA NothingInEmpty == IsSeq(<<>>) /\ Range(<<>>) = {}
<1> DEFINE q == <<>>
           S == {}
<1>1. q \in Seq(S) /\ DOMAIN q = {}
  OBVIOUS
<1> HIDE DEF q, S
<1>2. IsSeq(q) /\ Range(q) = {}
  BY <1>1 DEF IsSeq, Range
<1> QED
  BY <1>2 DEF q

LEMMA AppendRange ==
  ASSUME NEW q, IsSeq(q), NEW x
  PROVE  /\ IsSeq(Append(q, x)) /\ Range(Append(q, x)) = Range(q) \cup {x}
         /\ Len(Append(q, x)) = Len(q) + 1
<1>1. PICK S : q \in Seq(S)
  BY DEF IsSeq
<1> DEFINE T == S \cup {x}
           a == Append(q, x)
<1>2. q \in Seq(T) /\ x \in T
  BY <1>1
<1> HIDE DEF T
<1>3. /\ a \in Seq(T) /\ Len(a) = Len(q) + 1 /\ Len(q) \in Nat
      /\ DOMAIN q = 1 .. Len(q) /\ DOMAIN a = 1 .. Len(a)
      /\ \A i \in 1 .. Len(q) : a[i] = q[i]
      /\ a[Len(q) + 1] = x
  BY <1>2
<1> HIDE DEF a
<1>4. Range(a) = Range(q) \cup {x}
  <2>1. ASSUME NEW y \in Range(a) PROVE y \in Range(q) \cup {x}
    <3>1. PICK i \in 1 .. Len(q) + 1 : y = a[i]
      BY <1>3 DEF Range
    <3>2. CASE i = Len(q) + 1
      BY <1>3, <3>1, <3>2
    <3>3. CASE i # Len(q) + 1
      <4>1. i \in 1 .. Len(q)
        BY <1>3, <3>1, <3>3
      <4> QED
        BY <1>3, <3>1, <4>1 DEF Range
    <3> QED
      BY <3>2, <3>3
  <2>2. ASSUME NEW y \in Range(q) PROVE y \in Range(a)
    <3>1. PICK i \in 1 .. Len(q) : y = q[i]
      BY <1>3 DEF Range
    <3>2. i \in 1 .. Len(a)
      BY <1>3, <3>1
    <3> QED
      BY <1>3, <3>1, <3>2 DEF Range
  <2>3. x \in Range(a)
    <3>1. Len(q) + 1 \in 1 .. Len(a)
      BY <1>3
    <3> QED
      BY <1>3, <3>1 DEF Range
  <2> QED
    BY <2>1, <2>2, <2>3
<1> QED
  BY <1>3, <1>4 DEF IsSeq, a

NoAck(R) == \A r \in R : r.ct # "ack"

\* q is part of what a session that has sent n messages has to say.
Flight(k, e, n, q) == IsSeq(q) /\ \A r \in Range(q) : HandshakeRecord(k, e, n, r)

LEMMA EmptyFlight ==
  ASSUME NEW k, NEW e, NEW n
  PROVE  Flight(k, e, n, <<>>) /\ NoAck(Range(<<>>)) /\ NoData(Range(<<>>))
<1> DEFINE q == <<>>
<1>1. IsSeq(q) /\ Range(q) = {}
  BY NothingInEmpty
<1> HIDE DEF q
<1>2. Flight(k, e, n, q) /\ NoAck(Range(q)) /\ NoData(Range(q))
  BY <1>1 DEF Flight, NoAck, NoData
<1> QED
  BY <1>2 DEF q

LEMMA RecordStays ==
  ASSUME NEW k, NEW e, NEW n \in Nat, NEW n2 \in Nat, n <= n2, NEW r,
         HandshakeRecord(k, e, n, r)
  PROVE  HandshakeRecord(k, e, n2, r)
BY DEF HandshakeRecord

LEMMA FlightGrows ==
  ASSUME NEW k, NEW e, NEW n \in Nat, NEW n2 \in Nat, n <= n2, NEW q, Flight(k, e, n, q), NEW r,
         HandshakeRecord(k, e, n2, r)
  PROVE  /\ Flight(k, e, n2, Append(q, r))
         /\ NoAck(Range(q)) /\ r.ct # "ack" => NoAck(Range(Append(q, r)))
         /\ NoAck(Range(q)) => AckOnce(Range(Append(q, r)))
<1>1. IsSeq(Append(q, r)) /\ Range(Append(q, r)) = Range(q) \cup {r}
  BY AppendRange DEF Flight
<1>2. \A x \in Range(q) : HandshakeRecord(k, e, n2, x)
  BY RecordStays DEF Flight
<1> QED
  BY <1>1, <1>2 DEF Flight, NoAck, AckOnce

LEMMA FlightNoData ==
  ASSUME NEW k, NEW e, NEW n, NEW q, Flight(k, e, n, q)
  PROVE  NoData(Range(q))
BY DEF Flight, NoData, HandshakeRecord

\* A plaintext record of a message, a protected one, and the others.
LEMMA PlainMessageRecord ==
  ASSUME NEW k, NEW e, NEW n \in Nat, NEW i \in 0 .. n - 1, NEW seq, NEW m,
         m = MessageOf(k, e, i), m.mseq = i
  PROVE  LET r == Record("handshake", 0, seq, NoKey, m)
         IN  HandshakeRecord(k, e, n, r) /\ r.ct # "ack"
BY DEF HandshakeRecord, IsRecord, Record

LEMMA SecretMessageRecord ==
  ASSUME NEW k, NEW e, NEW n \in Nat, NEW i \in 0 .. n - 1, NEW epoch, NEW seq, NEW key, NEW m,
         m = MessageOf(k, e, i), m.mseq = i, i \in Secret(k, e), <<epoch, seq>> = SecretNumber(k, e, i)
  PROVE  LET r == Record("handshake", epoch, seq, key, m)
         IN  HandshakeRecord(k, e, n, r) /\ r.ct # "ack"
BY DEF HandshakeRecord, IsRecord, Record, Nonce

LEMMA OtherRecords ==
  ASSUME NEW k, NEW e, NEW n, NEW seq, NEW payload
  PROVE  /\ LET r == Record("ccs", 0, seq, NoKey, payload)
            IN  HandshakeRecord(k, e, n, r) /\ r.ct # "ack"
         /\ \A epoch, key : k.ver = 13 /\ <<epoch, seq>> = AckNumber(e)
              => HandshakeRecord(k, e, n, Record("ack", epoch, seq, key, payload))
BY DEF HandshakeRecord, IsRecord, Record, Nonce

-----------------------------------------------------------------------------
(* Environments and messages *)

LEMMA EnvironmentFacts ==
  ASSUME NEW k \in Environments
  PROVE  /\ k.ver \in {12, 13} /\ Cookies(k) \in {0, 1} /\ (k.ver = 13 => Cookies(k) = 0)
         /\ Cookies(k) = 1 <=> k.ver = 12 /\ k.require_cookie
         /\ k.usable \in BOOLEAN /\ k.trusted \in BOOLEAN /\ k.max_app \in 0 .. MaxApp
         /\ MaxApp \in Nat
<1>1. k \in Environment
  BY EnvironmentsAssumption
<1>2. k.ver \in {12, 13} /\ k.usable \in BOOLEAN /\ k.trusted \in BOOLEAN /\ k.max_app \in 0 .. MaxApp
      /\ k.require_cookie \in BOOLEAN
  BY <1>1 DEF Environment
<1> QED
  BY <1>2, BoundsAssumption DEF Cookies

LEMMA MessageTypes ==
  ASSUME NEW k
  PROVE  /\ CH(k).type = "CLIENT_HELLO" /\ CH(k).mseq = Cookies(k) /\ CH(k).data = LastHello(k)
         /\ HVR(k).type = "HELLO_VERIFY_REQUEST" /\ HVR(k).mseq = 0
         /\ HVR(k).data = [cookie |-> make_cookie("client_random")]
         /\ SH(k).type = "SERVER_HELLO" /\ SH(k).mseq = Cookies(k)
         /\ SH(k).data = [random |-> "server_random", suite |-> Suite(k),
                          share |-> ShareOf(k, "server")]
         /\ Crt12(k).type = "CERTIFICATE" /\ Crt12(k).mseq = Cookies(k) + 1
         /\ Crt13(k).type = "CERTIFICATE" /\ Crt13(k).mseq = 2
         /\ SKE(k).type = "SERVER_KEY_EXCHANGE" /\ SKE(k).mseq = Cookies(k) + 2
         /\ SKE(k).data = [share |-> <<"server", 1>>,
                           sig |-> <<"client_random", "server_random", <<"server", 1>>>>]
         /\ SHD(k).type = "SERVER_HELLO_DONE" /\ SHD(k).mseq = Cookies(k) + 3
         /\ CKE(k).type = "CLIENT_KEY_EXCHANGE" /\ CKE(k).mseq = Cookies(k) + 1
         /\ CKE(k).data = [share |-> <<"client", 2>>]
         /\ EE(k).type = "ENCRYPTED_EXTENSIONS" /\ EE(k).mseq = 1
         /\ CV(k).type = "CERTIFICATE_VERIFY" /\ CV(k).mseq = 3 /\ CV(k).data = [sig |-> Read4(k)]
BY DEF HandshakeMessage, CH, HVR, SH, Crt12, Crt13, SKE, SHD, CKE, EE, CV

LEMMA Messages12 ==
  ASSUME NEW k \in Environments, k.ver = 12
  PROVE  LET c == Cookies(k)
         IN  /\ MessageOf(k, "client", c) = CH(k)
             /\ c = 1 => /\ MessageOf(k, "client", 0)
                            = HandshakeMessage("CLIENT_HELLO", 0, FirstHello(k))
                         /\ MessageOf(k, "server", 0) = HVR(k)
             /\ MessageOf(k, "client", c + 1) = CKE(k)
             /\ MessageOf(k, "client", c + 2) = ClientFinished12(k)
             /\ MessageOf(k, "server", c) = SH(k)
             /\ MessageOf(k, "server", c + 1) = Crt12(k)
             /\ MessageOf(k, "server", c + 2) = SKE(k)
             /\ MessageOf(k, "server", c + 3) = SHD(k)
             /\ MessageOf(k, "server", c + 4) = ServerFinished12(k)
BY EnvironmentFacts DEF MessageOf, ClientMessage, ServerMessage

LEMMA Messages13 ==
  ASSUME NEW k \in Environments, k.ver = 13
  PROVE  /\ MessageOf(k, "client", 0) = CH(k)
         /\ MessageOf(k, "client", 1) = ClientFinished13(k)
         /\ MessageOf(k, "server", 0) = SH(k)
         /\ MessageOf(k, "server", 1) = EE(k)
         /\ MessageOf(k, "server", 2) = Crt13(k)
         /\ MessageOf(k, "server", 3) = CV(k)
         /\ MessageOf(k, "server", 4) = ServerFinished13(k)
BY DEF MessageOf, ClientMessage, ServerMessage

-----------------------------------------------------------------------------
(***************************************************************************)
(* The messages, one by one.  t is the state of the step after the next    *)
(* message in order was collected.                                         *)
(***************************************************************************)
\* in is what the environment gives the step.
InputOf(k) == [usable |-> k.usable, trusted |-> k.trusted]

\* The step is at stage p.
Reaches(k, e, st, t, p) ==
  /\ IsStep(t) /\ t.ok = TRUE /\ At(k, e, t.s, p, 0) /\ t.s.last_sent = st.s.last_sent
  /\ t.pending = st.pending
  /\ t.got_shd = st.got_shd \/ (k.ver = 12 /\ e = "client" /\ p = 4 /\ t.got_shd = TRUE)
  /\ t.s.handshake_done = TRUE => t.done = TRUE
  /\ t.s.handshake_done = FALSE => t.done = st.done

\* It had nothing to answer.
Silent(st, t) == t.response = st.response /\ t.build = st.build

\* It has built a flight.
Answers(k, e, t) ==
  /\ t.build = TRUE /\ Flight(k, e, t.s.send_msg_seq, t.response)
  /\ AckOnce(Range(t.response)) /\ (t.s.handshake_done = FALSE => NoAck(Range(t.response)))

Refuses(k, e, st, t) ==
  /\ IsStep(t) /\ t.ok = FALSE /\ Failed(k, e, t.s) /\ t.pending = st.pending
  /\ t.s.send_msg_seq = st.s.send_msg_seq /\ t.s.recv_msg_seq = st.s.recv_msg_seq

\* What collect_message makes of what process() returns.
Collected(a, t) ==
  /\ IsStep(t) /\ SameStep(a, t, {"s"}) /\ Same(a.s, t.s, {"recv_msg_seq"})
  /\ t.s.recv_msg_seq = a.s.recv_msg_seq + 1

LEMMA CollectNext ==
  ASSUME NEW st, NEW m, NEW in, st.ok = TRUE, st.s.recv_msg_seq \in Nat,
         m.mseq = st.s.recv_msg_seq, IsStep(process(st, m, in))
  PROVE  LET a == process(st, m, in)
             t == collect_message(st, m, in)
         IN  (a.ok = TRUE => Collected(a, t)) /\ (a.ok = FALSE => t = a)
<1> DEFINE a == process(st, m, in)
           t == collect_message(st, m, in)
<1>1. t = IF a.ok THEN [a EXCEPT !.s.recv_msg_seq = @ + 1] ELSE a
  <2>1. ~Seen(st.s, m) /\ ~Early(st.s, m)
    BY DEF Seen, Early
  <2> HIDE DEF a
  <2> QED
    BY <2>1 DEF collect_message, a
<1>2. IsStep(a)
  OBVIOUS
<1> HIDE DEF a, t
<1>3. ASSUME a.ok = TRUE PROVE Collected(a, t)
  <2>1. t = [a EXCEPT !.s.recv_msg_seq = @ + 1]
    BY <1>1, <1>3
  <2> QED
    BY <1>2, <2>1 DEF Collected, IsStep, IsSession, Same, SameStep, StepFields, SessionFields
<1>4. a.ok = FALSE => t = a
  BY <1>1
<1> QED
  BY <1>3, <1>4 DEF a, t

LEMMA ProcessRole ==
  ASSUME NEW st, NEW m, NEW k
  PROVE  /\ st.s.role = "client" => process(st, m, InputOf(k)) = client_process(st, m, k.trusted)
         /\ st.s.role = "server" => process(st, m, InputOf(k)) = server_process(st, m, k.usable)
BY DEF process, InputOf

LEMMA FailFields ==
  ASSUME NEW st, IsStep(st)
  PROVE  /\ IsStep(Fail(st)) /\ Fail(st).ok = FALSE /\ Fail(st).s = st.s
         /\ Fail(st).pending = st.pending
BY DEF Fail, IsStep, StepFields

\* A message that needs no answer changes only X, and the session.
LEMMA QuietCollect ==
  ASSUME NEW st, st.ok = TRUE, NEW m, NEW in, IsStep(process(st, m, in)), NEW X, "ok" \notin X,
         "s" \in X, SameStep(st, process(st, m, in), X),
         st.s.recv_msg_seq \in Nat, m.mseq = st.s.recv_msg_seq
  PROVE  LET s1 == process(st, m, in).s
             t == collect_message(st, m, in)
         IN  /\ IsStep(t) /\ SameStep(st, t, X) /\ Same(s1, t.s, {"recv_msg_seq"})
             /\ t.s.recv_msg_seq = s1.recv_msg_seq + 1
             /\ t.done = process(st, m, in).done /\ t.got_shd = process(st, m, in).got_shd
<1> DEFINE a == process(st, m, in)
           t == collect_message(st, m, in)
<1>1. a.ok = TRUE
  BY DEF SameStep, StepFields
<1>2. Collected(a, t)
  BY <1>1, CollectNext
<1> HIDE DEF a, t
<1>3. /\ IsStep(t) /\ SameStep(st, t, X) /\ Same(a.s, t.s, {"recv_msg_seq"})
      /\ t.s.recv_msg_seq = a.s.recv_msg_seq + 1
      /\ t.done = a.done /\ t.got_shd = a.got_shd
  <2>1. SameStep(st, a, X)
    BY DEF a
  <2> QED
    BY <1>2, <2>1 DEF Collected, SameStep, StepFields
<1> QED
  BY <1>3 DEF a, t

LEMMA ClientDoneFields ==
  ASSUME NEW st, IsStep(st)
  PROVE  LET t == client_done(st)
         IN  /\ IsStep(t) /\ SameStep(st, t, {"s", "done"}) /\ t.done = TRUE
             /\ Same(st.s, t.s, {"handshake_done", "phase"}) /\ t.s.handshake_done = TRUE
BY DEF client_done, IsStep, IsSession, Same, SameStep, StepFields, SessionFields

LEMMA ServerDoneFields ==
  ASSUME NEW st, IsStep(st)
  PROVE  LET t == server_done(st)
         IN  /\ IsStep(t) /\ SameStep(st, t, {"s", "done"}) /\ t.done = TRUE
             /\ Same(st.s, t.s, {"handshake_done", "phase"}) /\ t.s.handshake_done = TRUE
BY DEF server_done, IsStep, IsSession, Same, SameStep, StepFields, SessionFields

LEMMA ClientHandles ==
  ASSUME NEW k, NEW st, st.s.role = "client", NEW m
  PROVE  LET a == process(st, m, InputOf(k))
         IN  /\ m.type = "HELLO_VERIFY_REQUEST" => a = on_hello_verify_request(st, m)
             /\ m.type = "SERVER_HELLO" => a = on_server_hello(st, m)
             /\ m.type = "CERTIFICATE" => a = on_certificate(st, m, k.trusted)
             /\ m.type = "SERVER_KEY_EXCHANGE" => a = on_server_key_exchange(st, m)
             /\ m.type = "SERVER_HELLO_DONE" => a = on_server_hello_done(st, m)
             /\ m.type = "ENCRYPTED_EXTENSIONS" => a = on_encrypted_extensions(st, m)
             /\ m.type = "CERTIFICATE_VERIFY" => a = on_certificate_verify(st, m)
             /\ m.type = "FINISHED" => a = on_server_finished(st, m)
<1>1. process(st, m, InputOf(k)) = client_process(st, m, k.trusted)
  BY ProcessRole
<1> QED
  BY <1>1 DEF client_process

LEMMA ServerHandles ==
  ASSUME NEW k, NEW st, st.s.role = "server", NEW m
  PROVE  LET a == process(st, m, InputOf(k))
         IN  /\ m.type = "CLIENT_HELLO" => a = on_client_hello(st, m, k.usable)
             /\ m.type = "CLIENT_KEY_EXCHANGE" => a = on_client_key_exchange(st, m)
             /\ m.type = "FINISHED" => a = on_client_finished(st, m)
<1>1. process(st, m, InputOf(k)) = server_process(st, m, k.usable)
  BY ProcessRole
<1> QED
  BY <1>1 DEF server_process


\* ServerHello, 1.2.
LEMMA ClientServerHello12 ==
  ASSUME NEW k \in Environments, k.ver = 12, NEW st, IsStep(st), st.ok = TRUE,
         At(k, "client", st.s, 0, 0),
         NEW m, m = SH(k), NEW t, t = collect_message(st, m, InputOf(k))
  PROVE  Reaches(k, "client", st, t, 1) /\ Silent(st, t)
<1> DEFINE a == process(st, m, InputOf(k))
           s0 == [st.s EXCEPT !.server_random = m.data.random, !.cipher_suite = m.data.suite]
           s1 == transcript_add(s0, m)
<1>1. /\ m.type = "SERVER_HELLO" /\ m.mseq = Cookies(k)
      /\ m.data.random = "server_random" /\ m.data.suite = Suite(k)
  BY DEF SH, HandshakeMessage
<1>2. Own(k, "client", st.s) /\ ClientAt12(k, st.s, 0, 0) /\ Cookies(k) \in {0, 1} /\ k.trusted \in BOOLEAN
  BY EnvironmentFacts DEF At
<1>3. a = [st EXCEPT !.s = s1]
  <2>1. st.s.role = "client" /\ st.s.ver = 12
    BY <1>2 DEF Own
  <2>2. a = on_server_hello(st, m)
    BY <1>1, <2>1, ClientHandles
  <2> HIDE DEF a
  <2> QED
    BY <2>1, <2>2 DEF on_server_hello
<1>4. /\ IsSession(s0) /\ Same(st.s, s0, {"server_random", "cipher_suite"})
      /\ s0.server_random = "server_random" /\ s0.cipher_suite = Suite(k) /\ s0.ver = k.ver
  BY <1>1, <1>2 DEF Own, IsSession, Same, SessionFields
<1>5. /\ IsStep(a) /\ SameStep(st, a, {"s"})
      /\ Same(st.s, a.s, {"server_random", "cipher_suite", "transcript"})
      /\ a.s.server_random = "server_random" /\ a.s.cipher_suite = Suite(k)
      /\ a.s.transcript = Heard2(k)
  <2> HIDE DEF s0
  <2>1. /\ IsSession(s1) /\ Same(s0, s1, {"transcript"})
        /\ s1.transcript = Append(s0.transcript, Entry(k, m))
    BY <1>4, TranscriptAddFields
  <2> HIDE DEF s1
  <2>2. IsStep(a) /\ a.s = s1 /\ SameStep(st, a, {"s"})
    BY <1>3, <2>1, NewSessionOfStep
  <2>3. s0.transcript = Heard1(k)
    BY <1>2, <1>4 DEF ClientAt12, Same, SessionFields
  <2> HIDE DEF a
  <2> QED
    BY <1>4, <2>1, <2>2, <2>3 DEF Same, SessionFields, Heard2
<1>6. st.s.recv_msg_seq \in Nat /\ m.mseq = st.s.recv_msg_seq
  BY <1>1, <1>2 DEF ClientAt12
<1>7. /\ IsStep(t) /\ SameStep(st, t, {"s"}) /\ Same(a.s, t.s, {"recv_msg_seq"})
      /\ t.s.recv_msg_seq = a.s.recv_msg_seq + 1
      /\ t.done = a.done /\ t.got_shd = a.got_shd
  <2> DEFINE X == {"s"}
  <2>1. "ok" \notin X /\ "s" \in X /\ SameStep(st, a, X)
    BY <1>5
  <2> HIDE DEF X
  <2>2. /\ IsStep(t) /\ SameStep(st, t, X) /\ Same(a.s, t.s, {"recv_msg_seq"})
        /\ t.s.recv_msg_seq = a.s.recv_msg_seq + 1
        /\ t.done = a.done /\ t.got_shd = a.got_shd
    BY <1>5, <1>6, <2>1, QuietCollect
  <2> QED
    BY <2>2 DEF X
<1> HIDE DEF a
<1>8. /\ t.s.recv_msg_seq = st.s.recv_msg_seq + 1 /\ t.s.role = st.s.role
      /\ t.s.ver = st.s.ver /\ t.s.require_cookie = st.s.require_cookie
      /\ t.s.send_msg_seq = st.s.send_msg_seq /\ t.s.client_random = st.s.client_random
      /\ t.s.app_keys = st.s.app_keys /\ t.s.ks_pub = st.s.ks_pub
      /\ t.s.transcript = a.s.transcript /\ t.s.server_random = a.s.server_random
      /\ t.s.cipher_suite = a.s.cipher_suite
      /\ t.s.have_server_cert = st.s.have_server_cert /\ t.s.keys = st.s.keys
      /\ t.s.send_epoch = st.s.send_epoch /\ t.s.send_seq = st.s.send_seq
      /\ t.s.handshake_done = st.s.handshake_done /\ t.s.last_sent = st.s.last_sent
  BY <1>5, <1>7 DEF Same, SessionFields
<1>9. At(k, "client", t.s, 1, 0)
  <2>1. Own(k, "client", t.s)
    BY <1>2, <1>7, <1>8 DEF Own, IsStep
  <2>2. ClientAt12(k, t.s, 1, 0)
    BY <1>1, <1>2, <1>5, <1>8 DEF ClientAt12
  <2> QED
    BY <2>1, <2>2 DEF At
<1> QED
  BY <1>2, <1>5, <1>7, <1>8, <1>9 DEF Reaches, Silent, SameStep, StepFields, ClientAt12

\* Certificate, when the chain is good.
LEMMA ClientCertificate12 ==
  ASSUME NEW k \in Environments, k.ver = 12, k.trusted = TRUE, NEW st, IsStep(st), st.ok = TRUE,
         At(k, "client", st.s, 1, 0),
         NEW m, m = Crt12(k), NEW t, t = collect_message(st, m, InputOf(k))
  PROVE  Reaches(k, "client", st, t, 2) /\ Silent(st, t)
<1> DEFINE a == process(st, m, InputOf(k))
           s0 == [st.s EXCEPT !.have_server_cert = TRUE]
           s1 == transcript_add(s0, m)
<1>1. m.type = "CERTIFICATE" /\ m.mseq = Cookies(k) + 1
  BY DEF Crt12, HandshakeMessage
<1>2. Own(k, "client", st.s) /\ ClientAt12(k, st.s, 1, 0) /\ Cookies(k) \in {0, 1} /\ k.trusted \in BOOLEAN
  BY EnvironmentFacts DEF At
<1>3. a = [st EXCEPT !.s = s1]
  BY <1>1, <1>2, ClientHandles DEF Own, on_certificate
<1>4. /\ IsSession(s0) /\ Same(st.s, s0, {"have_server_cert"})
      /\ s0.have_server_cert = TRUE /\ s0.ver = k.ver
  BY <1>1, <1>2 DEF Own, IsSession, Same, SessionFields
<1>5. /\ IsStep(a) /\ SameStep(st, a, {"s"})
      /\ Same(st.s, a.s, {"have_server_cert", "transcript"})
      /\ a.s.have_server_cert = TRUE /\ a.s.transcript = Heard3(k)
  <2> HIDE DEF s0
  <2>1. /\ IsSession(s1) /\ Same(s0, s1, {"transcript"})
        /\ s1.transcript = Append(s0.transcript, Entry(k, m))
    BY <1>4, TranscriptAddFields
  <2> HIDE DEF s1
  <2>2. IsStep(a) /\ a.s = s1 /\ SameStep(st, a, {"s"})
    BY <1>3, <2>1, NewSessionOfStep
  <2>3. s0.transcript = Heard2(k)
    BY <1>2, <1>4 DEF ClientAt12, Same, SessionFields
  <2> HIDE DEF a
  <2> QED
    BY <1>4, <2>1, <2>2, <2>3 DEF Same, SessionFields, Heard3
<1>6. st.s.recv_msg_seq \in Nat /\ m.mseq = st.s.recv_msg_seq
  BY <1>1, <1>2 DEF ClientAt12
<1>7. /\ IsStep(t) /\ SameStep(st, t, {"s"}) /\ Same(a.s, t.s, {"recv_msg_seq"})
      /\ t.s.recv_msg_seq = a.s.recv_msg_seq + 1
      /\ t.done = a.done /\ t.got_shd = a.got_shd
  <2> DEFINE X == {"s"}
  <2>1. "ok" \notin X /\ "s" \in X /\ SameStep(st, a, X)
    BY <1>5
  <2> HIDE DEF X
  <2>2. /\ IsStep(t) /\ SameStep(st, t, X) /\ Same(a.s, t.s, {"recv_msg_seq"})
        /\ t.s.recv_msg_seq = a.s.recv_msg_seq + 1
        /\ t.done = a.done /\ t.got_shd = a.got_shd
    BY <1>5, <1>6, <2>1, QuietCollect
  <2> QED
    BY <2>2 DEF X
<1> HIDE DEF a
<1>8. /\ t.s.recv_msg_seq = st.s.recv_msg_seq + 1 /\ t.s.role = st.s.role
      /\ t.s.ver = st.s.ver /\ t.s.require_cookie = st.s.require_cookie
      /\ t.s.send_msg_seq = st.s.send_msg_seq /\ t.s.client_random = st.s.client_random
      /\ t.s.app_keys = st.s.app_keys /\ t.s.ks_pub = st.s.ks_pub
      /\ t.s.transcript = a.s.transcript /\ t.s.server_random = st.s.server_random
      /\ t.s.cipher_suite = st.s.cipher_suite
      /\ t.s.have_server_cert = a.s.have_server_cert /\ t.s.keys = st.s.keys
      /\ t.s.send_epoch = st.s.send_epoch /\ t.s.send_seq = st.s.send_seq
      /\ t.s.handshake_done = st.s.handshake_done /\ t.s.last_sent = st.s.last_sent
  BY <1>5, <1>7 DEF Same, SessionFields
<1>9. At(k, "client", t.s, 2, 0)
  <2>1. Own(k, "client", t.s)
    BY <1>2, <1>7, <1>8 DEF Own, IsStep
  <2>2. ClientAt12(k, t.s, 2, 0)
    BY <1>1, <1>2, <1>5, <1>8 DEF ClientAt12
  <2> QED
    BY <2>1, <2>2 DEF At
<1> QED
  BY <1>2, <1>5, <1>7, <1>8, <1>9 DEF Reaches, Silent, SameStep, StepFields, ClientAt12

\* ServerKeyExchange: its signature is over what the client knows.
LEMMA ClientServerKeyExchange ==
  ASSUME NEW k \in Environments, k.ver = 12, NEW st, IsStep(st), st.ok = TRUE,
         At(k, "client", st.s, 2, 0),
         NEW m, m = SKE(k), NEW t, t = collect_message(st, m, InputOf(k))
  PROVE  Reaches(k, "client", st, t, 3) /\ Silent(st, t)
<1> DEFINE a == process(st, m, InputOf(k))
           fresh == generate_ecdh_keypair(st.s)
           s0 == ecdh_derive(fresh, m.data.share)
           s1 == transcript_add(s0, m)
<1>1. /\ m.type = "SERVER_KEY_EXCHANGE" /\ m.mseq = Cookies(k) + 2
      /\ m.data.share = <<"server", 1>>
      /\ m.data.sig = <<"client_random", "server_random", <<"server", 1>>>>
  BY DEF SKE, HandshakeMessage
<1>2. Own(k, "client", st.s) /\ ClientAt12(k, st.s, 2, 0) /\ Cookies(k) \in {0, 1} /\ k.trusted \in BOOLEAN
  BY EnvironmentFacts DEF At
<1>3. a = [st EXCEPT !.s = s1]
  <2>1. st.s.role = "client" /\ st.s.ver = 12 /\ st.s.have_server_cert = TRUE
    BY <1>2 DEF Own, ClientAt12
  <2>2. a = on_server_key_exchange(st, m)
    BY <1>1, <2>1, ClientHandles
  <2>3. m.data.sig = <<st.s.client_random, st.s.server_random, m.data.share>>
    BY <1>1, <1>2 DEF ClientAt12
  <2> HIDE DEF a
  <2> QED
    BY <2>1, <2>2, <2>3 DEF on_server_key_exchange
<1>4. /\ IsSession(s0) /\ Same(st.s, s0, {"ks_pub", "keys"}) /\ s0.ver = k.ver
      /\ s0.ks_pub = <<"client", 2>> /\ s0.keys = Keys12(k)
  <2>1. /\ IsSession(fresh) /\ Same(st.s, fresh, {"ks_pub"})
        /\ \A e, i : st.s.ks_pub = <<e, i>> => fresh.ks_pub = <<e, i + 1>>
    BY <1>2, GenerateFields DEF Own
  <2> HIDE DEF fresh
  <2>2. fresh.ks_pub = <<"client", 1 + 1>>
    BY <1>2, <2>1 DEF ClientAt12
  <2>3. /\ fresh.ver = 12 /\ fresh.client_random = "client_random"
        /\ fresh.server_random = "server_random" /\ fresh.cipher_suite = Suite(k)
    BY <1>2, <2>1 DEF ClientAt12, Own, Same, SessionFields
  <2>4. /\ IsSession(s0) /\ Same(fresh, s0, {"keys"})
        /\ s0.keys = <<{fresh.ks_pub, m.data.share},
                       <<fresh.client_random, fresh.server_random, fresh.cipher_suite>>>>
    BY <2>1, <2>3, DeriveFields
  <2> HIDE DEF s0
  <2>5. s0.keys = Keys12(k) /\ s0.ks_pub = fresh.ks_pub /\ s0.ver = fresh.ver
    BY <1>1, <2>2, <2>3, <2>4 DEF Keys12, Same, SessionFields
  <2>6. Same(st.s, s0, {"ks_pub", "keys"})
    BY <2>1, <2>4 DEF Same
  <2> QED
    BY <2>2, <2>3, <2>4, <2>5, <2>6
<1>5. /\ IsStep(a) /\ SameStep(st, a, {"s"})
      /\ Same(st.s, a.s, {"ks_pub", "keys", "transcript"})
      /\ a.s.ks_pub = <<"client", 2>> /\ a.s.keys = Keys12(k) /\ a.s.transcript = Heard4(k)
  <2> HIDE DEF s0
  <2>1. /\ IsSession(s1) /\ Same(s0, s1, {"transcript"})
        /\ s1.transcript = Append(s0.transcript, Entry(k, m))
    BY <1>4, TranscriptAddFields
  <2> HIDE DEF s1
  <2>2. IsStep(a) /\ a.s = s1 /\ SameStep(st, a, {"s"})
    BY <1>3, <2>1, NewSessionOfStep
  <2>3. s0.transcript = Heard3(k)
    BY <1>2, <1>4 DEF ClientAt12, Same, SessionFields
  <2> HIDE DEF a
  <2> QED
    BY <1>4, <2>1, <2>2, <2>3 DEF Same, SessionFields, Heard4
<1>6. st.s.recv_msg_seq \in Nat /\ m.mseq = st.s.recv_msg_seq
  BY <1>1, <1>2 DEF ClientAt12
<1>7. /\ IsStep(t) /\ SameStep(st, t, {"s"}) /\ Same(a.s, t.s, {"recv_msg_seq"})
      /\ t.s.recv_msg_seq = a.s.recv_msg_seq + 1
      /\ t.done = a.done /\ t.got_shd = a.got_shd
  <2> DEFINE X == {"s"}
  <2>1. "ok" \notin X /\ "s" \in X /\ SameStep(st, a, X)
    BY <1>5
  <2> HIDE DEF X
  <2>2. /\ IsStep(t) /\ SameStep(st, t, X) /\ Same(a.s, t.s, {"recv_msg_seq"})
        /\ t.s.recv_msg_seq = a.s.recv_msg_seq + 1
        /\ t.done = a.done /\ t.got_shd = a.got_shd
    BY <1>5, <1>6, <2>1, QuietCollect
  <2> QED
    BY <2>2 DEF X
<1> HIDE DEF a
<1>8. /\ t.s.recv_msg_seq = st.s.recv_msg_seq + 1 /\ t.s.role = st.s.role
      /\ t.s.ver = st.s.ver /\ t.s.require_cookie = st.s.require_cookie
      /\ t.s.send_msg_seq = st.s.send_msg_seq /\ t.s.client_random = st.s.client_random
      /\ t.s.app_keys = st.s.app_keys /\ t.s.ks_pub = a.s.ks_pub
      /\ t.s.transcript = a.s.transcript /\ t.s.server_random = st.s.server_random
      /\ t.s.cipher_suite = st.s.cipher_suite
      /\ t.s.have_server_cert = st.s.have_server_cert /\ t.s.keys = a.s.keys
      /\ t.s.send_epoch = st.s.send_epoch /\ t.s.send_seq = st.s.send_seq
      /\ t.s.handshake_done = st.s.handshake_done /\ t.s.last_sent = st.s.last_sent
  BY <1>5, <1>7 DEF Same, SessionFields
<1>9. At(k, "client", t.s, 3, 0)
  <2>1. Own(k, "client", t.s)
    BY <1>2, <1>7, <1>8 DEF Own, IsStep
  <2>2. ClientAt12(k, t.s, 3, 0)
    BY <1>1, <1>2, <1>5, <1>8 DEF ClientAt12
  <2> QED
    BY <2>1, <2>2 DEF At
<1> QED
  BY <1>2, <1>5, <1>7, <1>8, <1>9 DEF Reaches, Silent, SameStep, StepFields, ClientAt12

\* ServerHelloDone: the flight is built at the end of the step.
LEMMA ClientServerHelloDone ==
  ASSUME NEW k \in Environments, k.ver = 12, NEW st, IsStep(st), st.ok = TRUE,
         At(k, "client", st.s, 3, 0),
         NEW m, m = SHD(k), NEW t, t = collect_message(st, m, InputOf(k))
  PROVE  Reaches(k, "client", st, t, 4) /\ Silent(st, t) /\ t.got_shd = TRUE
<1> DEFINE a == process(st, m, InputOf(k))
           s1 == transcript_add(st.s, m)
<1>1. m.type = "SERVER_HELLO_DONE" /\ m.mseq = Cookies(k) + 3
  BY DEF SHD, HandshakeMessage
<1>2. Own(k, "client", st.s) /\ ClientAt12(k, st.s, 3, 0) /\ Cookies(k) \in {0, 1} /\ k.trusted \in BOOLEAN
  BY EnvironmentFacts DEF At
<1>3. a = [st EXCEPT !.s = s1, !.got_shd = TRUE]
  <2>1. st.s.role = "client" /\ st.s.ver = 12
    BY <1>2 DEF Own
  <2>2. a = on_server_hello_done(st, m)
    BY <1>1, <2>1, ClientHandles
  <2> HIDE DEF a
  <2> QED
    BY <2>1, <2>2 DEF on_server_hello_done
<1>5. /\ IsStep(a) /\ SameStep(st, a, {"s", "got_shd"}) /\ Same(st.s, a.s, {"transcript"})
      /\ a.s.transcript = Heard5(k) /\ a.got_shd = TRUE
  <2>1. /\ IsSession(s1) /\ Same(st.s, s1, {"transcript"})
        /\ s1.transcript = Append(st.s.transcript, Entry(k, m))
    BY <1>2, TranscriptAddFields DEF Own
  <2> HIDE DEF s1
  <2>2. IsStep(a) /\ a.s = s1 /\ SameStep(st, a, {"s", "got_shd"}) /\ a.got_shd = TRUE
    BY <1>3, <2>1 DEF IsStep, SameStep, StepFields
  <2> HIDE DEF a
  <2> QED
    BY <1>2, <2>1, <2>2 DEF ClientAt12, Heard5
<1>6. st.s.recv_msg_seq \in Nat /\ m.mseq = st.s.recv_msg_seq
  BY <1>1, <1>2 DEF ClientAt12
<1>7. /\ IsStep(t) /\ SameStep(st, t, {"s", "got_shd"}) /\ Same(a.s, t.s, {"recv_msg_seq"})
      /\ t.s.recv_msg_seq = a.s.recv_msg_seq + 1
      /\ t.done = a.done /\ t.got_shd = a.got_shd
  <2> DEFINE X == {"s", "got_shd"}
  <2>1. "ok" \notin X /\ "s" \in X /\ SameStep(st, a, X)
    BY <1>5
  <2> HIDE DEF X
  <2>2. /\ IsStep(t) /\ SameStep(st, t, X) /\ Same(a.s, t.s, {"recv_msg_seq"})
        /\ t.s.recv_msg_seq = a.s.recv_msg_seq + 1
        /\ t.done = a.done /\ t.got_shd = a.got_shd
    BY <1>5, <1>6, <2>1, QuietCollect
  <2> QED
    BY <2>2 DEF X
<1> HIDE DEF a
<1>8. /\ t.s.recv_msg_seq = st.s.recv_msg_seq + 1 /\ t.s.role = st.s.role
      /\ t.s.ver = st.s.ver /\ t.s.require_cookie = st.s.require_cookie
      /\ t.s.send_msg_seq = st.s.send_msg_seq /\ t.s.client_random = st.s.client_random
      /\ t.s.app_keys = st.s.app_keys /\ t.s.ks_pub = st.s.ks_pub
      /\ t.s.transcript = a.s.transcript /\ t.s.server_random = st.s.server_random
      /\ t.s.cipher_suite = st.s.cipher_suite
      /\ t.s.have_server_cert = st.s.have_server_cert /\ t.s.keys = st.s.keys
      /\ t.s.send_epoch = st.s.send_epoch /\ t.s.send_seq = st.s.send_seq
      /\ t.s.handshake_done = st.s.handshake_done /\ t.s.last_sent = st.s.last_sent
  BY <1>5, <1>7 DEF Same, SessionFields
<1>9. At(k, "client", t.s, 4, 0)
  <2>1. Own(k, "client", t.s)
    BY <1>2, <1>7, <1>8 DEF Own, IsStep
  <2>2. ClientAt12(k, t.s, 4, 0)
    BY <1>1, <1>2, <1>5, <1>8 DEF ClientAt12
  <2> QED
    BY <2>1, <2>2 DEF At
<1> QED
  BY <1>2, <1>5, <1>7, <1>8, <1>9 DEF Reaches, Silent, SameStep, StepFields, ClientAt12

\* The server's Finished, 1.2.
LEMMA ClientFinishes12 ==
  ASSUME NEW k \in Environments, k.ver = 12, NEW st, IsStep(st), st.ok = TRUE,
         At(k, "client", st.s, 5, 0),
         NEW m, m = ServerFinished12(k), NEW t, t = collect_message(st, m, InputOf(k))
  PROVE  Reaches(k, "client", st, t, 6) /\ Silent(st, t)
<1> DEFINE a == process(st, m, InputOf(k))
           s1 == transcript_add(st.s, m)
           s2 == [s1 EXCEPT !.handshake_done = TRUE, !.phase = "Done"]
<1>1. /\ m.type = "FINISHED" /\ m.mseq = Cookies(k) + 4
      /\ m.data.mac = <<"server_finished", Keys12(k), Heard7(k)>>
  BY DEF ServerFinished12, HandshakeMessage
<1>2. Own(k, "client", st.s) /\ ClientAt12(k, st.s, 5, 0) /\ Cookies(k) \in {0, 1} /\ k.trusted \in BOOLEAN
  BY EnvironmentFacts DEF At
<1>3. a = client_done([st EXCEPT !.s = s1])
  <2>1. st.s.role = "client" /\ st.s.ver = 12
    BY <1>2 DEF Own
  <2>2. a = on_server_finished(st, m)
    BY <1>1, <2>1, ClientHandles
  <2>3. m.data.mac = Mac(st.s, "server_finished")
    BY <1>1, <1>2 DEF ClientAt12, Mac
  <2> HIDE DEF a
  <2> QED
    BY <2>1, <2>2, <2>3 DEF on_server_finished
<1>5. /\ IsStep(a) /\ SameStep(st, a, {"s", "done"})
      /\ Same(st.s, a.s, {"transcript", "handshake_done", "phase"})
      /\ a.s.transcript = Heard8(k) /\ a.s.handshake_done = TRUE /\ a.done = TRUE
  <2>1. /\ IsSession(s1) /\ Same(st.s, s1, {"transcript"})
        /\ s1.transcript = Append(st.s.transcript, Entry(k, m))
    BY <1>2, TranscriptAddFields DEF Own
  <2> DEFINE u == [st EXCEPT !.s = s1]
  <2> HIDE DEF s1
  <2>2. IsStep(u) /\ u.s = s1 /\ SameStep(st, u, {"s"})
    BY <2>1, NewSessionOfStep
  <2> HIDE DEF u
  <2>3. /\ IsStep(a) /\ SameStep(u, a, {"s", "done"}) /\ a.done = TRUE
        /\ Same(u.s, a.s, {"handshake_done", "phase"}) /\ a.s.handshake_done = TRUE
    BY <1>3, <2>2, ClientDoneFields DEF u
  <2> HIDE DEF a
  <2>4. a.s.transcript = Heard8(k)
    BY <1>2, <2>1, <2>2, <2>3 DEF ClientAt12, Heard8, Same, SessionFields
  <2> QED
    BY <2>1, <2>2, <2>3, <2>4 DEF Same, SameStep
<1>6. st.s.recv_msg_seq \in Nat /\ m.mseq = st.s.recv_msg_seq
  BY <1>1, <1>2 DEF ClientAt12
<1>7. /\ IsStep(t) /\ SameStep(st, t, {"s", "done"}) /\ Same(a.s, t.s, {"recv_msg_seq"})
      /\ t.s.recv_msg_seq = a.s.recv_msg_seq + 1
      /\ t.done = a.done /\ t.got_shd = a.got_shd
  <2> DEFINE X == {"s", "done"}
  <2>1. "ok" \notin X /\ "s" \in X /\ SameStep(st, a, X)
    BY <1>5
  <2> HIDE DEF X
  <2>2. /\ IsStep(t) /\ SameStep(st, t, X) /\ Same(a.s, t.s, {"recv_msg_seq"})
        /\ t.s.recv_msg_seq = a.s.recv_msg_seq + 1
        /\ t.done = a.done /\ t.got_shd = a.got_shd
    BY <1>5, <1>6, <2>1, QuietCollect
  <2> QED
    BY <2>2 DEF X
<1> HIDE DEF a
<1>8. /\ t.s.recv_msg_seq = st.s.recv_msg_seq + 1 /\ t.s.role = st.s.role
      /\ t.s.ver = st.s.ver /\ t.s.require_cookie = st.s.require_cookie
      /\ t.s.send_msg_seq = st.s.send_msg_seq /\ t.s.client_random = st.s.client_random
      /\ t.s.app_keys = st.s.app_keys /\ t.s.ks_pub = st.s.ks_pub
      /\ t.s.transcript = a.s.transcript /\ t.s.server_random = st.s.server_random
      /\ t.s.cipher_suite = st.s.cipher_suite
      /\ t.s.have_server_cert = st.s.have_server_cert /\ t.s.keys = st.s.keys
      /\ t.s.send_epoch = st.s.send_epoch /\ t.s.send_seq = st.s.send_seq
      /\ t.s.handshake_done = a.s.handshake_done /\ t.s.last_sent = st.s.last_sent
  BY <1>5, <1>7 DEF Same, SessionFields
<1>9. At(k, "client", t.s, 6, 0)
  <2>1. Own(k, "client", t.s)
    BY <1>2, <1>7, <1>8 DEF Own, IsStep
  <2>2. ClientAt12(k, t.s, 6, 0)
    BY <1>1, <1>2, <1>5, <1>8 DEF ClientAt12
  <2> QED
    BY <2>1, <2>2 DEF At
<1> QED
  BY <1>2, <1>5, <1>7, <1>8, <1>9 DEF Reaches, Silent, SameStep, StepFields, ClientAt12

\* A chain that is not good.
LEMMA ClientRefuses ==
  ASSUME NEW k \in Environments, k.trusted = FALSE, NEW st, IsStep(st), st.ok = TRUE,
         Own(k, "client", st.s), NEW m, m.type = "CERTIFICATE", m.mseq = st.s.recv_msg_seq,
         st.s.recv_msg_seq \in Nat, st.s.recv_msg_seq >= Cookies(k) + 1,
         st.s.send_msg_seq \in Nat, st.s.send_msg_seq <= Cookies(k) + 1,
         st.s.handshake_done = FALSE,
         NEW t, t = collect_message(st, m, InputOf(k))
  PROVE  Refuses(k, "client", st, t)
<1> DEFINE a == process(st, m, InputOf(k))
           s0 == [st.s EXCEPT !.have_server_cert = TRUE]
           s1 == transcript_add(s0, m)
           u == [st EXCEPT !.s = s1]
<1>4. a = Fail(u)
  BY ClientHandles DEF Own, on_certificate
<1>5. /\ IsSession(s0) /\ Same(st.s, s0, {"have_server_cert"}) /\ s0.ver = k.ver
  BY DEF Own, IsSession, Same, SessionFields
<1>6. IsSession(s1) /\ Same(st.s, s1, {"have_server_cert", "transcript"})
  <2> HIDE DEF s0
  <2>1. IsSession(s1) /\ Same(s0, s1, {"transcript"})
    BY <1>5, TranscriptAddFields
  <2> QED
    BY <1>5, <2>1 DEF Same
<1> HIDE DEF s1
<1>7. IsStep(u) /\ u.s = s1 /\ u.pending = st.pending
  BY <1>6, NewSessionOfStep DEF SameStep, StepFields
<1> HIDE DEF u
<1>8. IsStep(a) /\ a.ok = FALSE /\ a.s = s1 /\ a.pending = st.pending
  BY <1>4, <1>7, FailFields
<1>9. t = a
  BY <1>8, CollectNext
<1> HIDE DEF a
<1>10. /\ t.s.send_msg_seq = st.s.send_msg_seq /\ t.s.recv_msg_seq = st.s.recv_msg_seq
       /\ t.s.handshake_done = FALSE /\ IsSession(t.s)
  BY <1>6, <1>8, <1>9 DEF Same, SessionFields
<1>11. Failed(k, "client", t.s)
  BY <1>10 DEF Failed
<1> QED
  BY <1>8, <1>9, <1>10, <1>11 DEF Refuses

LEMMA ClientHelloFields ==
  ASSUME NEW k, NEW st, IsStep(st), st.s.ver = k.ver, st.s.client_random = "client_random",
         st.s.ks_pub = <<"client", 1>>, NEW suites
  PROVE  LET t == send_client_hello(st, suites)
             m == HandshakeMessage("CLIENT_HELLO", st.s.send_msg_seq,
                                   HelloData(k, suites, st.s.cookie))
         IN  /\ Emits(st, t, {"send_seq", "send_msg_seq", "transcript"},
                      Record("handshake", 0, st.s.send_seq, NoKey, m))
             /\ t.s.send_msg_seq = st.s.send_msg_seq + 1
             /\ t.s.transcript = Append(st.s.transcript, Entry(k, m))
<1>1. send_client_hello(st, suites) = add_plain(st, "CLIENT_HELLO", ClientHello(st.s, suites))
  BY Zenon DEF send_client_hello, add_plain
<1>2. ClientHello(st.s, suites) = HelloData(k, suites, st.s.cookie)
  BY DEF ClientHello, HelloData, KeyShare, ShareOf
<1> QED
  BY <1>1, <1>2, AddPlainFields

\* HelloVerifyRequest: the client starts again, with the cookie.
LEMMA ClientHelloVerify ==
  ASSUME NEW k \in Environments, k.ver = 12, Cookies(k) = 1, NEW st, IsStep(st), st.ok = TRUE,
         At(k, "client", st.s, -1, 0),
         NEW m, m = HVR(k), NEW t, t = collect_message(st, m, InputOf(k))
  PROVE  Reaches(k, "client", st, t, 0) /\ Answers(k, "client", t)
<1> DEFINE a == process(st, m, InputOf(k))
           u0 == [st EXCEPT !.s.cookie = m.data.cookie, !.s.phase = "HvrReceived",
                            !.s.transcript = <<>>]
           u == start_response(u0)
           ch == HandshakeMessage("CLIENT_HELLO", u.s.send_msg_seq,
                                  HelloData(k, DefaultSuites12, u.s.cookie))
           r == Record("handshake", 0, u.s.send_seq, NoKey, ch)
<1>1. /\ m.type = "HELLO_VERIFY_REQUEST" /\ m.mseq = 0
      /\ m.data.cookie = make_cookie("client_random")
  BY DEF HVR, HandshakeMessage
<1>2. Own(k, "client", st.s) /\ ClientAt12(k, st.s, -1, 0)
  BY DEF At
<1>3. a = send_client_hello(u, DefaultSuites12)
  <2>1. st.s.role = "client" /\ st.s.ver = 12
    BY <1>2 DEF Own
  <2>2. a = on_hello_verify_request(st, m)
    BY <1>1, <2>1, ClientHandles
  <2> HIDE DEF a
  <2> QED
    BY <2>1, <2>2 DEF on_hello_verify_request
<1>4. /\ IsStep(u) /\ Same(st.s, u.s, {"cookie", "phase", "transcript"})
      /\ SameStep(st, u, {"s", "response", "build"})
      /\ u.s.cookie = make_cookie("client_random") /\ u.s.transcript = <<>>
      /\ u.response = <<>> /\ u.build = TRUE
  <2>1. /\ IsStep(u0) /\ Same(st.s, u0.s, {"cookie", "phase", "transcript"})
        /\ SameStep(st, u0, {"s"})
        /\ u0.s.cookie = make_cookie("client_random") /\ u0.s.transcript = <<>>
    BY <1>1 DEF IsStep, IsSession, Same, SameStep, StepFields, SessionFields
  <2> HIDE DEF u0
  <2>2. /\ IsStep(u) /\ SameStep(u0, u, {"response", "build"}) /\ u.s = u0.s
        /\ u.response = <<>> /\ u.build = TRUE
    BY <2>1, StartResponseFields
  <2> QED
    BY <2>1, <2>2 DEF SameStep
<1> HIDE DEF u
<1>5. /\ u.s.ver = k.ver /\ u.s.client_random = "client_random" /\ u.s.ks_pub = <<"client", 1>>
      /\ u.s.send_msg_seq = 1
  BY <1>2, <1>4 DEF Own, ClientAt12, Same, SessionFields
<1>6. /\ Emits(u, a, {"send_seq", "send_msg_seq", "transcript"}, r)
      /\ a.s.send_msg_seq = u.s.send_msg_seq + 1
      /\ a.s.transcript = Append(u.s.transcript, Entry(k, ch))
  BY <1>3, <1>4, <1>5, ClientHelloFields
<1> HIDE DEF a
<1>7. ch = CH(k)
  BY <1>4, <1>5 DEF CH, LastHello, SecondHello
<1>8. st.s.recv_msg_seq = 0
  BY <1>2 DEF ClientAt12
<1>9. a.ok = TRUE /\ Collected(a, t)
  <2>1. IsStep(a) /\ a.ok = TRUE
    BY <1>4, <1>6 DEF Emits, SameStep, StepFields
  <2>2. st.s.recv_msg_seq \in Nat /\ m.mseq = st.s.recv_msg_seq
    BY <1>1, <1>8
  <2> QED
    BY <2>1, <2>2, CollectNext DEF a
<1>10. /\ t.s.role = st.s.role /\ t.s.ver = st.s.ver /\ t.s.require_cookie = st.s.require_cookie
       /\ t.s.recv_msg_seq = 1 /\ t.s.send_msg_seq = 2 /\ t.s.app_keys = st.s.app_keys
       /\ t.s.client_random = st.s.client_random /\ t.s.ks_pub = st.s.ks_pub
       /\ t.s.handshake_done = st.s.handshake_done /\ t.s.last_sent = st.s.last_sent
       /\ t.s.transcript = a.s.transcript
  BY <1>4, <1>5, <1>6, <1>8, <1>9 DEF Emits, Collected, Same, SessionFields
<1>11. t.s.transcript = Heard1(k)
  BY <1>4, <1>6, <1>7, <1>10 DEF Heard1
<1>12. Own(k, "client", t.s)
  BY <1>2, <1>9, <1>10 DEF Own, Collected, IsStep
<1>13. ClientAt12(k, t.s, 0, 0)
  BY <1>2, <1>10, <1>11 DEF ClientAt12
<1>14. At(k, "client", t.s, 0, 0)
  BY <1>12, <1>13 DEF At
<1>15. t.response = Append(<<>>, r) /\ t.build = TRUE /\ t.done = st.done /\ t.got_shd = st.got_shd
       /\ t.ok = TRUE /\ IsStep(t) /\ t.pending = st.pending
  BY <1>4, <1>6, <1>9 DEF Emits, Collected, SameStep, StepFields
<1>16. /\ Flight(k, "client", 2, Append(<<>>, r)) /\ NoAck(Range(Append(<<>>, r)))
       /\ AckOnce(Range(Append(<<>>, r)))
  <2>1. ch = MessageOf(k, "client", 1) /\ ch.mseq = 1
    BY <1>7, Messages12 DEF CH, HandshakeMessage
  <2>2. HandshakeRecord(k, "client", 2, r) /\ r.ct # "ack"
    <3>1. 1 \in 0 .. 2 - 1 /\ 2 \in Nat
      OBVIOUS
    <3> HIDE DEF ch
    <3> QED
      BY <2>1, <3>1, PlainMessageRecord
  <2>3. Flight(k, "client", 2, <<>>) /\ NoAck(Range(<<>>))
    BY EmptyFlight
  <2> HIDE DEF r
  <2> QED
    BY <2>2, <2>3, FlightGrows, 2 \in Nat, 2 <= 2
<1> HIDE DEF r
<1>17. Answers(k, "client", t)
  BY <1>10, <1>15, <1>16 DEF Answers
<1> QED
  BY <1>2, <1>10, <1>14, <1>15, <1>17 DEF Reaches, ClientAt12

-----------------------------------------------------------------------------
(***************************************************************************)
(* Building a flight.                                                      *)
(***************************************************************************)
\* st is a step of endpoint e whose flight so far is what the connection says.
Speaking(k, e, st) ==
  /\ IsStep(st) /\ st.s.ver = k.ver /\ st.s.send_msg_seq \in Nat
  /\ Flight(k, e, st.s.send_msg_seq, st.response) /\ NoAck(Range(st.response))

\* t has said one more message than st.
Says(k, e, st, t) ==
  /\ Speaking(k, e, t) /\ SameStep(st, t, {"s", "response"})
  /\ Same(st.s, t.s, {"send_seq", "send_msg_seq", "transcript"})
  /\ t.s.send_msg_seq = st.s.send_msg_seq + 1
  /\ t.s.transcript = Append(st.s.transcript, Entry(k, MessageOf(k, e, st.s.send_msg_seq)))

LEMMA SpeakStart ==
  ASSUME NEW k, NEW e, NEW st, IsStep(st), st.s.ver = k.ver, st.s.send_msg_seq \in Nat
  PROVE  LET t == start_response(st)
         IN  /\ Speaking(k, e, t) /\ SameStep(st, t, {"response", "build"}) /\ t.s = st.s
             /\ t.build = TRUE
<1> DEFINE t == start_response(st)
<1>1. /\ IsStep(t) /\ SameStep(st, t, {"response", "build"}) /\ t.s = st.s
      /\ t.response = <<>> /\ t.build = TRUE
  BY StartResponseFields
<1> HIDE DEF t
<1>2. Flight(k, e, t.s.send_msg_seq, <<>>) /\ NoAck(Range(<<>>))
  BY EmptyFlight
<1>3. Speaking(k, e, t)
  BY <1>1, <1>2 DEF Speaking
<1> QED
  BY <1>1, <1>3 DEF t

LEMMA SayPlain ==
  ASSUME NEW k, NEW e, NEW st, Speaking(k, e, st), NEW type, NEW data,
         HandshakeMessage(type, st.s.send_msg_seq, data) = MessageOf(k, e, st.s.send_msg_seq)
  PROVE  Says(k, e, st, add_plain(st, type, data))
<1> DEFINE t == add_plain(st, type, data)
           n == st.s.send_msg_seq
           m == HandshakeMessage(type, n, data)
           r == Record("handshake", 0, st.s.send_seq, NoKey, m)
<1>1. m = MessageOf(k, e, n) /\ m.mseq = n
  BY DEF HandshakeMessage
<1>2. /\ Emits(st, t, {"send_seq", "send_msg_seq", "transcript"}, r)
      /\ t.s.send_msg_seq = n + 1 /\ t.s.transcript = Append(st.s.transcript, Entry(k, m))
  BY AddPlainFields DEF Speaking
<1> HIDE DEF t, m
<1>3. HandshakeRecord(k, e, n + 1, r) /\ r.ct # "ack"
  <2>1. n + 1 \in Nat /\ n \in 0 .. (n + 1) - 1
    BY DEF Speaking
  <2> QED
    BY <1>1, <2>1, PlainMessageRecord
<1> HIDE DEF r
<1>4. Flight(k, e, n + 1, Append(st.response, r)) /\ NoAck(Range(Append(st.response, r)))
  <2>1. n \in Nat /\ n + 1 \in Nat /\ n <= n + 1
    BY DEF Speaking
  <2> QED
    BY <1>3, <2>1, FlightGrows DEF Speaking
<1>5. t.s.ver = k.ver /\ IsStep(t) /\ t.response = Append(st.response, r)
  BY <1>2 DEF Emits, Same, SessionFields, Speaking
<1>6. Speaking(k, e, t)
  BY <1>2, <1>4, <1>5 DEF Speaking
<1>7. Says(k, e, st, t)
  BY <1>1, <1>2, <1>6 DEF Says, Emits
<1> QED
  BY <1>7 DEF t

LEMMA SaySecret ==
  ASSUME NEW k, NEW e, NEW st, Speaking(k, e, st), NEW type, NEW data,
         HandshakeMessage(type, st.s.send_msg_seq, data) = MessageOf(k, e, st.s.send_msg_seq),
         st.s.send_msg_seq \in Secret(k, e),
         <<st.s.send_epoch, st.s.send_seq>> = SecretNumber(k, e, st.s.send_msg_seq)
  PROVE  LET t == add_protected(st, type, data)
         IN  Says(k, e, st, t) /\ t.s.send_seq = st.s.send_seq + 1
<1> DEFINE t == add_protected(st, type, data)
           n == st.s.send_msg_seq
           m == HandshakeMessage(type, n, data)
<1>1. m = MessageOf(k, e, n) /\ m.mseq = n
  BY DEF HandshakeMessage
<1>2. PICK key : Emits(st, t, {"send_seq", "send_msg_seq", "transcript"},
                       Record("handshake", st.s.send_epoch, st.s.send_seq, key, m))
  BY AddProtectedFields DEF Speaking
<1> DEFINE r == Record("handshake", st.s.send_epoch, st.s.send_seq, key, m)
<1>2a. /\ t.s.send_msg_seq = n + 1 /\ t.s.transcript = Append(st.s.transcript, Entry(k, m))
       /\ t.s.send_seq = st.s.send_seq + 1
  BY AddProtectedFields DEF Speaking
<1> HIDE DEF t, m
<1>3. HandshakeRecord(k, e, n + 1, r) /\ r.ct # "ack"
  <2>1. n + 1 \in Nat /\ n \in 0 .. (n + 1) - 1
    BY DEF Speaking
  <2> QED
    BY <1>1, <2>1, SecretMessageRecord
<1>2b. Emits(st, t, {"send_seq", "send_msg_seq", "transcript"}, r)
  BY <1>2
<1> HIDE DEF r
<1>4. Flight(k, e, n + 1, Append(st.response, r)) /\ NoAck(Range(Append(st.response, r)))
  <2>1. n \in Nat /\ n + 1 \in Nat /\ n <= n + 1
    BY DEF Speaking
  <2> QED
    BY <1>3, <2>1, FlightGrows DEF Speaking
<1>5. t.s.ver = k.ver /\ IsStep(t) /\ t.response = Append(st.response, r)
  BY <1>2b DEF Emits, Same, SessionFields, Speaking
<1>6. Speaking(k, e, t)
  BY <1>2a, <1>4, <1>5 DEF Speaking
<1>7. Says(k, e, st, t)
  BY <1>1, <1>2a, <1>2b, <1>6 DEF Says, Emits
<1> QED
  BY <1>2a, <1>7 DEF t

LEMMA SpeakCcs ==
  ASSUME NEW k, NEW e, NEW st, Speaking(k, e, st)
  PROVE  LET t == plaintext_record(st, "ccs", Empty)
         IN  Speaking(k, e, t) /\ SameStep(st, t, {"s", "response"}) /\ Same(st.s, t.s, {"send_seq"})
<1> DEFINE t == plaintext_record(st, "ccs", Empty)
           n == st.s.send_msg_seq
           r == Record("ccs", 0, st.s.send_seq, NoKey, Empty)
<1>1. Emits(st, t, {"send_seq"}, r)
  BY PlaintextRecordFields DEF Speaking
<1> HIDE DEF t
<1>2. HandshakeRecord(k, e, n, r) /\ r.ct # "ack"
  BY OtherRecords
<1> HIDE DEF r
<1>3. Flight(k, e, n, Append(st.response, r)) /\ NoAck(Range(Append(st.response, r)))
  <2>1. n \in Nat /\ n <= n
    BY DEF Speaking
  <2> QED
    BY <1>2, <2>1, FlightGrows DEF Speaking
<1>4. /\ t.s.ver = k.ver /\ IsStep(t) /\ t.response = Append(st.response, r)
      /\ t.s.send_msg_seq = n
  BY <1>1 DEF Emits, Same, SessionFields, Speaking
<1>5. Speaking(k, e, t)
  BY <1>3, <1>4 DEF Speaking
<1> QED
  BY <1>1, <1>5 DEF t, Emits

LEMMA SpeakEpoch ==
  ASSUME NEW k, NEW e, NEW st, Speaking(k, e, st), NEW epoch
  PROVE  LET t == new_epoch(st, epoch)
         IN  /\ Speaking(k, e, t) /\ SameStep(st, t, {"s"})
             /\ Same(st.s, t.s, {"send_epoch", "send_seq"})
             /\ t.s.send_epoch = epoch /\ t.s.send_seq = 0
<1> DEFINE t == new_epoch(st, epoch)
<1>1. /\ IsStep(t) /\ SameStep(st, t, {"s"}) /\ Same(st.s, t.s, {"send_epoch", "send_seq"})
      /\ t.s.send_epoch = epoch /\ t.s.send_seq = 0
  BY NewEpochFields DEF Speaking
<1> HIDE DEF t
<1>2. t.s.ver = st.s.ver /\ t.s.send_msg_seq = st.s.send_msg_seq /\ t.response = st.response
  BY <1>1 DEF Same, SameStep, SessionFields, StepFields
<1>3. Speaking(k, e, t)
  BY <1>1, <1>2 DEF Speaking
<1> QED
  BY <1>1, <1>3 DEF t

LEMMA ClientFlight12 ==
  ASSUME NEW k \in Environments, k.ver = 12, NEW st, IsStep(st), st.ok = TRUE,
         At(k, "client", st.s, 4, 0),
         NEW t, t = client_flight12(start_response(st))
  PROVE  /\ IsStep(t) /\ t.ok = TRUE /\ At(k, "client", t.s, 5, 0)
         /\ t.s.last_sent = st.s.last_sent /\ t.done = st.done
         /\ t.build = TRUE /\ Flight(k, "client", t.s.send_msg_seq, t.response)
         /\ NoAck(Range(t.response))
<1> DEFINE u == start_response(st)
           cke == ClientKeyExchange(u.s)
           st1 == add_plain(u, "CLIENT_KEY_EXCHANGE", cke)
           ccs == plaintext_record(st1, "ccs", Empty)
           st2 == new_epoch(ccs, 1)
           fin == [mac |-> Mac(st2.s, "client_finished")]
<1>1. Own(k, "client", st.s) /\ ClientAt12(k, st.s, 4, 0) /\ Cookies(k) \in {0, 1}
  BY EnvironmentFacts DEF At
<1>2. t = add_protected(st2, "FINISHED", fin)
  BY Zenon DEF client_flight12, add_plain, add_protected
<1>3. /\ Speaking(k, "client", u) /\ SameStep(st, u, {"response", "build"}) /\ u.s = st.s
      /\ u.build = TRUE
  <2>1. st.s.ver = k.ver /\ st.s.send_msg_seq \in Nat
    BY <1>1 DEF Own, ClientAt12
  <2> QED
    BY <2>1, SpeakStart
<1> HIDE DEF u
<1>4. Says(k, "client", u, st1) /\ st1.s.transcript = Heard6(k)
  <2>1. u.s.send_msg_seq = Cookies(k) + 1 /\ cke = [share |-> <<"client", 2>>]
    BY <1>1, <1>3 DEF ClientAt12, ClientKeyExchange
  <2>2. HandshakeMessage("CLIENT_KEY_EXCHANGE", Cookies(k) + 1, cke) = CKE(k)
    BY <2>1 DEF CKE
  <2> HIDE DEF cke
  <2>3. MessageOf(k, "client", Cookies(k) + 1) = CKE(k)
    BY Messages12
  <2>4. Says(k, "client", u, st1)
    BY <1>3, <2>1, <2>2, <2>3, SayPlain
  <2>5. u.s.transcript = Heard5(k)
    BY <1>1, <1>3 DEF ClientAt12
  <2> HIDE DEF st1
  <2> QED
    BY <2>1, <2>3, <2>4, <2>5 DEF Says, Heard6
<1> HIDE DEF st1
<1>5. /\ Speaking(k, "client", ccs) /\ SameStep(st1, ccs, {"s", "response"})
      /\ Same(st1.s, ccs.s, {"send_seq"})
  BY <1>4, SpeakCcs DEF Says
<1> HIDE DEF ccs
<1>6. /\ Speaking(k, "client", st2) /\ SameStep(ccs, st2, {"s"})
      /\ Same(ccs.s, st2.s, {"send_epoch", "send_seq"})
      /\ st2.s.send_epoch = 1 /\ st2.s.send_seq = 0
  BY <1>5, SpeakEpoch
<1> HIDE DEF st2
<1>7. /\ st2.s.send_msg_seq = Cookies(k) + 2 /\ st2.s.transcript = Heard6(k)
      /\ st2.s.keys = Keys12(k)
  <2>1. st1.s.send_msg_seq = Cookies(k) + 2 /\ st1.s.keys = Keys12(k)
    BY <1>1, <1>3, <1>4 DEF Says, ClientAt12, Same, SessionFields
  <2> QED
    BY <1>4, <1>5, <1>6, <2>1 DEF Same, SessionFields
<1>8. /\ Says(k, "client", st2, t) /\ t.s.send_seq = 1 /\ t.s.transcript = Heard7(k)
      /\ t.s.send_msg_seq = Cookies(k) + 3
  <2>1. fin = [mac |-> <<"client_finished", Keys12(k), Heard6(k)>>]
    BY <1>7 DEF Mac
  <2> HIDE DEF fin
  <2>2. HandshakeMessage("FINISHED", Cookies(k) + 2, fin) = ClientFinished12(k)
    BY <2>1 DEF ClientFinished12
  <2>3. MessageOf(k, "client", Cookies(k) + 2) = ClientFinished12(k)
    BY Messages12
  <2>4. /\ Cookies(k) + 2 \in Secret(k, "client")
        /\ <<1, 0>> = SecretNumber(k, "client", Cookies(k) + 2)
    BY DEF Secret, SecretNumber
  <2>5. Says(k, "client", st2, t) /\ t.s.send_seq = st2.s.send_seq + 1
    BY <1>2, <1>6, <1>7, <2>2, <2>3, <2>4, SaySecret
  <2> QED
    BY <1>1, <1>6, <1>7, <2>3, <2>5 DEF Says, Heard7
<1>9. /\ t.s.role = st.s.role /\ t.s.ver = st.s.ver /\ t.s.require_cookie = st.s.require_cookie
      /\ t.s.recv_msg_seq = st.s.recv_msg_seq /\ t.s.client_random = st.s.client_random
      /\ t.s.app_keys = st.s.app_keys /\ t.s.ks_pub = st.s.ks_pub
      /\ t.s.server_random = st.s.server_random /\ t.s.cipher_suite = st.s.cipher_suite
      /\ t.s.have_server_cert = st.s.have_server_cert /\ t.s.keys = st.s.keys
      /\ t.s.handshake_done = st.s.handshake_done /\ t.s.last_sent = st.s.last_sent
      /\ t.s.send_epoch = 1
  <2>1. Same(st.s, t.s, {"send_epoch", "send_seq", "send_msg_seq", "transcript"})
    BY <1>3, <1>4, <1>5, <1>6, <1>8 DEF Says, Same
  <2>2. t.s.send_epoch = st2.s.send_epoch
    BY <1>8 DEF Says, Same, SessionFields
  <2> QED
    BY <1>6, <2>1, <2>2 DEF Same, SessionFields
<1>10. Own(k, "client", t.s)
  BY <1>1, <1>8, <1>9 DEF Own, Says, Speaking, IsStep
<1>11. ClientAt12(k, t.s, 5, 0)
  BY <1>1, <1>8, <1>9 DEF ClientAt12
<1>12. t.done = st.done /\ t.build = TRUE /\ t.ok = TRUE
  BY <1>3, <1>4, <1>5, <1>6, <1>8 DEF Says, SameStep, StepFields
<1> QED
  BY <1>8, <1>9, <1>10, <1>11, <1>12 DEF At, Says, Speaking

LEMMA SpeakAck ==
  ASSUME NEW k, k.ver = 13, NEW e, NEW st, Speaking(k, e, st), NEW payload,
         <<st.s.send_epoch, st.s.send_seq>> = AckNumber(e)
  PROVE  LET t == protect(st, "ack", payload)
         IN  /\ IsStep(t) /\ SameStep(st, t, {"s", "response"}) /\ Same(st.s, t.s, {"send_seq"})
             /\ Flight(k, e, t.s.send_msg_seq, t.response) /\ AckOnce(Range(t.response))
<1> DEFINE t == protect(st, "ack", payload)
           n == st.s.send_msg_seq
           key == TrafficKey(st.s.role, st.s, st.s.send_epoch)
           r == Record("ack", st.s.send_epoch, st.s.send_seq, key, payload)
<1>1. Emits(st, t, {"send_seq"}, r)
  BY ProtectFields DEF Speaking
<1> HIDE DEF t, key
<1>2. HandshakeRecord(k, e, n, r)
  BY OtherRecords
<1> HIDE DEF r
<1>3. Flight(k, e, n, Append(st.response, r)) /\ AckOnce(Range(Append(st.response, r)))
  <2>1. n \in Nat /\ n <= n
    BY DEF Speaking
  <2> QED
    BY <1>2, <2>1, FlightGrows DEF Speaking
<1>4. t.response = Append(st.response, r) /\ t.s.send_msg_seq = n
  BY <1>1 DEF Emits, Same, SessionFields
<1> QED
  BY <1>1, <1>3, <1>4 DEF t, Emits

\* The first step of a client, in phase Idle.
LEMMA ClientStarts ==
  ASSUME NEW k \in Environments, NEW t, t = client_first_step(Started(k, "client"))
  PROVE  /\ At(k, "client", t.s, IF Cookies(k) = 1 THEN -1 ELSE 0, 0)
         /\ t.s.send_msg_seq = 1 /\ t.s.recv_msg_seq = 0 /\ t.s.last_sent = t.out
         /\ Flight(k, "client", 1, t.out) /\ NoAck(Range(t.out))
         /\ t.s.handshake_done = FALSE
<1> DEFINE s == Started(k, "client")
           s1 == [s EXCEPT !.client_random = "client_random", !.phase = "ChSent"]
           ready == generate_ecdh_keypair(s1)
           start == [s |-> ready, events |-> <<>>, pending |-> <<>>, response |-> <<>>,
                     build |-> TRUE, got_shd |-> FALSE, done |-> FALSE, ok |-> TRUE]
           suites == client_suites(s.ver, s.cipher_suite)
           b == send_client_hello(start, suites)
           ch == HandshakeMessage("CLIENT_HELLO", start.s.send_msg_seq,
                                  HelloData(k, suites, start.s.cookie))
           r == Record("handshake", 0, start.s.send_seq, NoKey, ch)
<1>1. t = finish_step(b)
  BY Zenon DEF client_first_step
<1>2. /\ IsSession(s) /\ s.role = "client" /\ s.ver = k.ver /\ s.require_cookie = k.require_cookie
      /\ s.cipher_suite = k.suite["client"] /\ s.ks_pub = <<"client", 0>> /\ s.app_keys = NoKey
      /\ s.send_msg_seq = 0 /\ s.recv_msg_seq = 0 /\ s.cookie = NoCookie
      /\ s.transcript = <<>> /\ s.handshake_done = FALSE
  BY DEF Started, NewSession, IsSession, SessionFields
<1> HIDE DEF s
<1>3. /\ IsSession(s1) /\ Same(s, s1, {"client_random", "phase"})
      /\ s1.client_random = "client_random"
  BY <1>2 DEF IsSession, Same, SessionFields
<1> HIDE DEF s1
<1>4. /\ IsSession(ready) /\ Same(s1, ready, {"ks_pub"}) /\ ready.ks_pub = <<"client", 1>>
  <2>1. /\ IsSession(ready) /\ Same(s1, ready, {"ks_pub"})
        /\ \A e, i : s1.ks_pub = <<e, i>> => ready.ks_pub = <<e, i + 1>>
    BY <1>3, GenerateFields
  <2>2. s1.ks_pub = <<"client", 0>>
    BY <1>2, <1>3 DEF Same, SessionFields
  <2> HIDE DEF ready
  <2>3. ready.ks_pub = <<"client", 0 + 1>>
    BY <2>1, <2>2
  <2> QED
    BY <2>1, <2>3
<1> HIDE DEF ready
<1>5. IsStep(start) /\ start.s = ready /\ start.build = TRUE /\ start.response = <<>>
  BY <1>4 DEF IsStep, StepFields
<1> HIDE DEF start
<1>6. /\ ready.role = "client" /\ ready.ver = k.ver /\ ready.require_cookie = k.require_cookie
      /\ ready.app_keys = NoKey /\ ready.send_msg_seq = 0 /\ ready.recv_msg_seq = 0
      /\ ready.cookie = NoCookie /\ ready.transcript = <<>> /\ ready.handshake_done = FALSE
      /\ ready.client_random = "client_random"
  BY <1>2, <1>3, <1>4 DEF Same, SessionFields
<1>7. /\ Emits(start, b, {"send_seq", "send_msg_seq", "transcript"}, r)
      /\ b.s.send_msg_seq = start.s.send_msg_seq + 1
      /\ b.s.transcript = Append(start.s.transcript, Entry(k, ch))
  BY <1>4, <1>5, <1>6, ClientHelloFields
<1> HIDE DEF b
<1>8. ch = HandshakeMessage("CLIENT_HELLO", 0, FirstHello(k)) /\ ch.mseq = 0
  <2>1. suites = client_suites(k.ver, k.suite["client"])
    BY <1>2
  <2> QED
    BY <1>5, <1>6, <2>1 DEF FirstHello, HandshakeMessage
<1>9. k.ver \in {12, 13} /\ Cookies(k) \in {0, 1} /\ (k.ver = 13 => Cookies(k) = 0)
  BY EnvironmentFacts
<1>10. (Cookies(k) = 0 => ch = CH(k)) /\ ch = MessageOf(k, "client", 0)
  <2>1. Cookies(k) = 0 => ch = CH(k)
    BY <1>8 DEF CH, LastHello
  <2>2. CASE k.ver = 13
    BY <1>9, <2>1, <2>2, Messages13
  <2>3. CASE k.ver = 12 /\ Cookies(k) = 0
    BY <2>1, <2>3, Messages12
  <2>4. CASE k.ver = 12 /\ Cookies(k) = 1
    BY <1>8, <2>4, Messages12
  <2> QED
    BY <1>9, <2>1, <2>2, <2>3, <2>4
<1> HIDE DEF ch
<1>11. Flight(k, "client", 1, Append(<<>>, r)) /\ NoAck(Range(Append(<<>>, r)))
  <2>1. 0 \in 0 .. 1 - 1 /\ 1 \in Nat /\ 1 <= 1
    OBVIOUS
  <2>2. HandshakeRecord(k, "client", 1, r) /\ r.ct # "ack"
    BY <1>8, <1>10, <2>1, PlainMessageRecord
  <2>3. Flight(k, "client", 1, <<>>) /\ NoAck(Range(<<>>))
    BY EmptyFlight
  <2> HIDE DEF r
  <2> QED
    BY <2>1, <2>2, <2>3, FlightGrows
<1> HIDE DEF r
<1>12. IsStep(b) /\ b.build = TRUE /\ b.response = Append(<<>>, r)
  BY <1>5, <1>7 DEF Emits, SameStep, StepFields
<1>13. /\ IsSession(t.s) /\ Same(b.s, t.s, {"last_sent", "retransmit_requested"})
       /\ t.s.last_sent = b.response /\ t.out = b.response
  BY <1>1, <1>12, FinishStepFields
<1>14. /\ t.s.role = "client" /\ t.s.ver = k.ver /\ t.s.require_cookie = k.require_cookie
       /\ t.s.app_keys = NoKey /\ t.s.recv_msg_seq = 0 /\ t.s.ks_pub = <<"client", 1>>
       /\ t.s.client_random = "client_random" /\ t.s.handshake_done = FALSE
       /\ t.s.send_msg_seq = 1 /\ t.s.transcript = Append(<<>>, Entry(k, ch))
  <2>1. Same(ready, b.s, {"send_seq", "send_msg_seq", "transcript"})
    BY <1>5, <1>7 DEF Emits
  <2>2. b.s.send_msg_seq = 1
    BY <1>5, <1>6, <1>7
  <2>3. b.s.transcript = Append(<<>>, Entry(k, ch))
    BY <1>5, <1>6, <1>7
  <2> QED
    BY <1>4, <1>6, <1>13, <2>1, <2>2, <2>3 DEF Same, SessionFields
<1>15. Own(k, "client", t.s)
  BY <1>13, <1>14 DEF Own
<1>16. Cookies(k) = 0 => t.s.transcript = Heard1(k)
  BY <1>10, <1>14 DEF Heard1
<1>17. At(k, "client", t.s, IF Cookies(k) = 1 THEN -1 ELSE 0, 0)
  <2>1. CASE k.ver = 13
    <3>1. ClientAt13(k, t.s, 0, 0)
      BY <1>9, <1>14, <1>16, <2>1 DEF ClientAt13
    <3> QED
      BY <1>9, <1>15, <2>1, <3>1 DEF At
  <2>2. CASE k.ver = 12 /\ Cookies(k) = 0
    <3>1. ClientAt12(k, t.s, 0, 0)
      BY <1>14, <1>16, <2>2 DEF ClientAt12
    <3> QED
      BY <1>15, <2>2, <3>1 DEF At
  <2>3. CASE k.ver = 12 /\ Cookies(k) = 1
    <3>1. ClientAt12(k, t.s, -1, 0)
      BY <1>14, <2>3 DEF ClientAt12
    <3> QED
      BY <1>15, <2>3, <3>1 DEF At
  <2> QED
    BY <1>9, <2>1, <2>2, <2>3
<1> QED
  BY <1>11, <1>12, <1>13, <1>14, <1>17

\* ServerHello, 1.3: the keys, and epoch 2.
LEMMA ClientServerHello13 ==
  ASSUME NEW k \in Environments, k.ver = 13, NEW st, IsStep(st), st.ok = TRUE,
         At(k, "client", st.s, 0, 0),
         NEW m, m = SH(k), NEW t, t = collect_message(st, m, InputOf(k))
  PROVE  Reaches(k, "client", st, t, 1) /\ Silent(st, t)
<1> DEFINE a == process(st, m, InputOf(k))
           s0 == [st.s EXCEPT !.server_random = m.data.random, !.cipher_suite = m.data.suite]
           s1 == transcript_add(s0, m)
           s2 == ecdh_derive(s1, m.data.share)
           u == [st EXCEPT !.s = s2]
<1>1. /\ m.type = "SERVER_HELLO" /\ m.mseq = 0 /\ m.data.suite = Suite(k)
      /\ m.data.share = <<"server", 1>>
  BY EnvironmentFacts DEF SH, HandshakeMessage, ShareOf
<1>2. Own(k, "client", st.s) /\ ClientAt13(k, st.s, 0, 0) /\ Cookies(k) \in {0, 1} /\ k.trusted \in BOOLEAN
  BY EnvironmentFacts DEF At
<1>3. a = new_epoch(u, 2)
  <2>1. st.s.role = "client" /\ st.s.ver = 13
    BY <1>2 DEF Own
  <2>2. a = on_server_hello(st, m)
    BY <1>1, <2>1, ClientHandles
  <2> HIDE DEF a
  <2> QED
    BY <2>1, <2>2 DEF on_server_hello
<1>4. /\ IsSession(s0) /\ Same(st.s, s0, {"server_random", "cipher_suite"})
      /\ s0.cipher_suite = Suite(k) /\ s0.ver = k.ver
  BY <1>1, <1>2 DEF Own, IsSession, Same, SessionFields
<1> HIDE DEF s0
<1>4a. /\ IsSession(s1) /\ Same(s0, s1, {"transcript"}) /\ s1.transcript = Heard2(k)
  <2>1. /\ IsSession(s1) /\ Same(s0, s1, {"transcript"})
        /\ s1.transcript = Append(s0.transcript, Entry(k, m))
    BY <1>4, TranscriptAddFields
  <2> HIDE DEF s1
  <2>2. s0.transcript = Heard1(k)
    BY <1>2, <1>4 DEF ClientAt13, Same, SessionFields
  <2> QED
    BY <2>1, <2>2 DEF Heard2
<1> HIDE DEF s1
<1>4b. IsSession(s2) /\ Same(s1, s2, {"keys"}) /\ s2.keys = Keys13(k)
  <2>1. s1.ver = 13 /\ s1.ks_pub = <<"client", 1>>
    BY <1>2, <1>4, <1>4a DEF ClientAt13, Same, SessionFields
  <2>2. /\ IsSession(s2) /\ Same(s1, s2, {"keys"})
        /\ s2.keys = <<{s1.ks_pub, m.data.share},
                       IF s1.ver = 12
                       THEN <<s1.client_random, s1.server_random, s1.cipher_suite>>
                       ELSE s1.transcript>>
    BY <1>4a, DeriveFields
  <2> HIDE DEF s2
  <2> QED
    BY <1>1, <1>4a, <2>1, <2>2 DEF Keys13
<1> HIDE DEF s2
<1>4c. IsStep(u) /\ u.s = s2 /\ SameStep(st, u, {"s"})
  BY <1>4b, NewSessionOfStep
<1> HIDE DEF u
<1>5. /\ IsStep(a) /\ SameStep(st, a, {"s"})
      /\ Same(st.s, a.s, {"server_random", "cipher_suite", "transcript", "keys", "send_epoch",
                          "send_seq"})
      /\ a.s.cipher_suite = Suite(k) /\ a.s.transcript = Heard2(k) /\ a.s.keys = Keys13(k)
      /\ a.s.send_epoch = 2 /\ a.s.send_seq = 0
  <2>1. /\ IsStep(a) /\ SameStep(u, a, {"s"}) /\ Same(u.s, a.s, {"send_epoch", "send_seq"})
        /\ a.s.send_epoch = 2 /\ a.s.send_seq = 0
    BY <1>3, <1>4c, NewEpochFields
  <2> HIDE DEF a
  <2>2. /\ a.s.cipher_suite = s0.cipher_suite /\ a.s.transcript = s1.transcript
        /\ a.s.keys = s2.keys
    BY <1>4a, <1>4b, <1>4c, <2>1 DEF Same, SessionFields
  <2>3. Same(st.s, a.s, {"server_random", "cipher_suite", "transcript", "keys", "send_epoch",
                         "send_seq"})
    BY <1>4, <1>4a, <1>4b, <1>4c, <2>1 DEF Same
  <2> QED
    BY <1>4, <1>4a, <1>4b, <1>4c, <2>1, <2>2, <2>3 DEF SameStep
<1>6. st.s.recv_msg_seq \in Nat /\ m.mseq = st.s.recv_msg_seq
  BY <1>1, <1>2 DEF ClientAt13
<1>7. /\ IsStep(t) /\ SameStep(st, t, {"s"}) /\ Same(a.s, t.s, {"recv_msg_seq"})
      /\ t.s.recv_msg_seq = a.s.recv_msg_seq + 1
      /\ t.done = a.done /\ t.got_shd = a.got_shd
  <2> DEFINE X == {"s"}
  <2>1. "ok" \notin X /\ "s" \in X /\ SameStep(st, a, X)
    BY <1>5
  <2> HIDE DEF X
  <2>2. /\ IsStep(t) /\ SameStep(st, t, X) /\ Same(a.s, t.s, {"recv_msg_seq"})
        /\ t.s.recv_msg_seq = a.s.recv_msg_seq + 1
        /\ t.done = a.done /\ t.got_shd = a.got_shd
    <3>1. IsStep(a)
      BY <1>5
    <3> QED
      BY <1>6, <2>1, <3>1, QuietCollect
  <2> QED
    BY <2>2 DEF X
<1> HIDE DEF a
<1>8. /\ t.s.recv_msg_seq = st.s.recv_msg_seq + 1 /\ t.s.role = st.s.role
      /\ t.s.ver = st.s.ver /\ t.s.require_cookie = st.s.require_cookie
      /\ t.s.send_msg_seq = st.s.send_msg_seq /\ t.s.client_random = st.s.client_random
      /\ t.s.app_keys = st.s.app_keys /\ t.s.ks_pub = st.s.ks_pub
      /\ t.s.transcript = a.s.transcript /\ t.s.server_random = a.s.server_random
      /\ t.s.cipher_suite = a.s.cipher_suite
      /\ t.s.have_server_cert = st.s.have_server_cert /\ t.s.keys = a.s.keys
      /\ t.s.send_epoch = a.s.send_epoch /\ t.s.send_seq = a.s.send_seq
      /\ t.s.handshake_done = st.s.handshake_done /\ t.s.last_sent = st.s.last_sent
  BY <1>5, <1>7 DEF Same, SessionFields
<1>9. At(k, "client", t.s, 1, 0)
  <2>1. Own(k, "client", t.s)
    BY <1>2, <1>7, <1>8 DEF Own, IsStep
  <2>2. ClientAt13(k, t.s, 1, 0)
    BY <1>1, <1>2, <1>5, <1>8 DEF ClientAt13
  <2> QED
    BY <2>1, <2>2 DEF At
<1> QED
  BY <1>2, <1>5, <1>7, <1>8, <1>9 DEF Reaches, Silent, SameStep, StepFields, ClientAt13

\* EncryptedExtensions.
LEMMA ClientEncryptedExtensions ==
  ASSUME NEW k \in Environments, k.ver = 13, NEW st, IsStep(st), st.ok = TRUE,
         At(k, "client", st.s, 1, 0),
         NEW m, m = EE(k), NEW t, t = collect_message(st, m, InputOf(k))
  PROVE  Reaches(k, "client", st, t, 2) /\ Silent(st, t)
<1> DEFINE a == process(st, m, InputOf(k))
           s1 == transcript_add(st.s, m)
<1>1. m.type = "ENCRYPTED_EXTENSIONS" /\ m.mseq = 1
  BY DEF EE, HandshakeMessage
<1>2. Own(k, "client", st.s) /\ ClientAt13(k, st.s, 1, 0) /\ Cookies(k) \in {0, 1} /\ k.trusted \in BOOLEAN
  BY EnvironmentFacts DEF At
<1>3. a = [st EXCEPT !.s = s1]
  <2>1. st.s.role = "client" /\ st.s.ver = 13
    BY <1>1, <1>2 DEF Own, ClientAt13
  <2>2. a = on_encrypted_extensions(st, m)
    BY <1>1, <2>1, ClientHandles
  <2> HIDE DEF a
  <2> QED
    BY <2>1, <2>2 DEF on_encrypted_extensions
<1>5. /\ IsStep(a) /\ SameStep(st, a, {"s"}) /\ Same(st.s, a.s, {"transcript"})
      /\ a.s.transcript = Read3(k)
  <2>1. /\ IsSession(s1) /\ Same(st.s, s1, {"transcript"})
        /\ s1.transcript = Append(st.s.transcript, Entry(k, m))
    BY <1>2, TranscriptAddFields DEF Own
  <2> HIDE DEF s1
  <2>2. IsStep(a) /\ a.s = s1 /\ SameStep(st, a, {"s"})
    BY <1>3, <2>1, NewSessionOfStep
  <2> HIDE DEF a
  <2> QED
    BY <1>2, <2>1, <2>2 DEF ClientAt13, Read3
<1>6. st.s.recv_msg_seq \in Nat /\ m.mseq = st.s.recv_msg_seq
  BY <1>1, <1>2 DEF ClientAt13
<1>7. /\ IsStep(t) /\ SameStep(st, t, {"s"}) /\ Same(a.s, t.s, {"recv_msg_seq"})
      /\ t.s.recv_msg_seq = a.s.recv_msg_seq + 1
      /\ t.done = a.done /\ t.got_shd = a.got_shd
  <2> DEFINE X == {"s"}
  <2>1. "ok" \notin X /\ "s" \in X /\ SameStep(st, a, X)
    BY <1>5
  <2> HIDE DEF X
  <2>2. /\ IsStep(t) /\ SameStep(st, t, X) /\ Same(a.s, t.s, {"recv_msg_seq"})
        /\ t.s.recv_msg_seq = a.s.recv_msg_seq + 1
        /\ t.done = a.done /\ t.got_shd = a.got_shd
    BY <1>5, <1>6, <2>1, QuietCollect
  <2> QED
    BY <2>2 DEF X
<1> HIDE DEF a
<1>8. /\ t.s.recv_msg_seq = st.s.recv_msg_seq + 1 /\ t.s.role = st.s.role
      /\ t.s.ver = st.s.ver /\ t.s.require_cookie = st.s.require_cookie
      /\ t.s.send_msg_seq = st.s.send_msg_seq /\ t.s.client_random = st.s.client_random
      /\ t.s.app_keys = st.s.app_keys /\ t.s.ks_pub = st.s.ks_pub
      /\ t.s.transcript = a.s.transcript /\ t.s.server_random = st.s.server_random
      /\ t.s.cipher_suite = st.s.cipher_suite
      /\ t.s.have_server_cert = st.s.have_server_cert /\ t.s.keys = st.s.keys
      /\ t.s.send_epoch = st.s.send_epoch /\ t.s.send_seq = st.s.send_seq
      /\ t.s.handshake_done = st.s.handshake_done /\ t.s.last_sent = st.s.last_sent
  BY <1>5, <1>7 DEF Same, SessionFields
<1>9. At(k, "client", t.s, 2, 0)
  <2>1. Own(k, "client", t.s)
    BY <1>2, <1>7, <1>8 DEF Own, IsStep
  <2>2. ClientAt13(k, t.s, 2, 0)
    BY <1>1, <1>2, <1>5, <1>8 DEF ClientAt13
  <2> QED
    BY <2>1, <2>2 DEF At
<1> QED
  BY <1>2, <1>5, <1>7, <1>8, <1>9 DEF Reaches, Silent, SameStep, StepFields, ClientAt13

\* Certificate, when the chain is good.
LEMMA ClientCertificate13 ==
  ASSUME NEW k \in Environments, k.ver = 13, k.trusted = TRUE, NEW st, IsStep(st), st.ok = TRUE,
         At(k, "client", st.s, 2, 0),
         NEW m, m = Crt13(k), NEW t, t = collect_message(st, m, InputOf(k))
  PROVE  Reaches(k, "client", st, t, 3) /\ Silent(st, t)
<1> DEFINE a == process(st, m, InputOf(k))
           s0 == [st.s EXCEPT !.have_server_cert = TRUE]
           s1 == transcript_add(s0, m)
<1>1. m.type = "CERTIFICATE" /\ m.mseq = 2
  BY DEF Crt13, HandshakeMessage
<1>2. Own(k, "client", st.s) /\ ClientAt13(k, st.s, 2, 0) /\ Cookies(k) \in {0, 1} /\ k.trusted \in BOOLEAN
  BY EnvironmentFacts DEF At
<1>3. a = [st EXCEPT !.s = s1]
  BY <1>1, <1>2, ClientHandles DEF Own, on_certificate
<1>4. /\ IsSession(s0) /\ Same(st.s, s0, {"have_server_cert"})
      /\ s0.have_server_cert = TRUE /\ s0.ver = k.ver
  BY <1>1, <1>2 DEF Own, IsSession, Same, SessionFields
<1>5. /\ IsStep(a) /\ SameStep(st, a, {"s"})
      /\ Same(st.s, a.s, {"have_server_cert", "transcript"})
      /\ a.s.have_server_cert = TRUE /\ a.s.transcript = Read4(k)
  <2> HIDE DEF s0
  <2>1. /\ IsSession(s1) /\ Same(s0, s1, {"transcript"})
        /\ s1.transcript = Append(s0.transcript, Entry(k, m))
    BY <1>4, TranscriptAddFields
  <2> HIDE DEF s1
  <2>2. IsStep(a) /\ a.s = s1 /\ SameStep(st, a, {"s"})
    BY <1>3, <2>1, NewSessionOfStep
  <2>3. s0.transcript = Read3(k)
    BY <1>2, <1>4 DEF ClientAt13, Same, SessionFields
  <2> HIDE DEF a
  <2> QED
    BY <1>4, <2>1, <2>2, <2>3 DEF Same, SessionFields, Read4
<1>6. st.s.recv_msg_seq \in Nat /\ m.mseq = st.s.recv_msg_seq
  BY <1>1, <1>2 DEF ClientAt13
<1>7. /\ IsStep(t) /\ SameStep(st, t, {"s"}) /\ Same(a.s, t.s, {"recv_msg_seq"})
      /\ t.s.recv_msg_seq = a.s.recv_msg_seq + 1
      /\ t.done = a.done /\ t.got_shd = a.got_shd
  <2> DEFINE X == {"s"}
  <2>1. "ok" \notin X /\ "s" \in X /\ SameStep(st, a, X)
    BY <1>5
  <2> HIDE DEF X
  <2>2. /\ IsStep(t) /\ SameStep(st, t, X) /\ Same(a.s, t.s, {"recv_msg_seq"})
        /\ t.s.recv_msg_seq = a.s.recv_msg_seq + 1
        /\ t.done = a.done /\ t.got_shd = a.got_shd
    BY <1>5, <1>6, <2>1, QuietCollect
  <2> QED
    BY <2>2 DEF X
<1> HIDE DEF a
<1>8. /\ t.s.recv_msg_seq = st.s.recv_msg_seq + 1 /\ t.s.role = st.s.role
      /\ t.s.ver = st.s.ver /\ t.s.require_cookie = st.s.require_cookie
      /\ t.s.send_msg_seq = st.s.send_msg_seq /\ t.s.client_random = st.s.client_random
      /\ t.s.app_keys = st.s.app_keys /\ t.s.ks_pub = st.s.ks_pub
      /\ t.s.transcript = a.s.transcript /\ t.s.server_random = st.s.server_random
      /\ t.s.cipher_suite = st.s.cipher_suite
      /\ t.s.have_server_cert = a.s.have_server_cert /\ t.s.keys = st.s.keys
      /\ t.s.send_epoch = st.s.send_epoch /\ t.s.send_seq = st.s.send_seq
      /\ t.s.handshake_done = st.s.handshake_done /\ t.s.last_sent = st.s.last_sent
  BY <1>5, <1>7 DEF Same, SessionFields
<1>9. At(k, "client", t.s, 3, 0)
  <2>1. Own(k, "client", t.s)
    BY <1>2, <1>7, <1>8 DEF Own, IsStep
  <2>2. ClientAt13(k, t.s, 3, 0)
    BY <1>1, <1>2, <1>5, <1>8 DEF ClientAt13
  <2> QED
    BY <2>1, <2>2 DEF At
<1> QED
  BY <1>2, <1>5, <1>7, <1>8, <1>9 DEF Reaches, Silent, SameStep, StepFields, ClientAt13

\* CertificateVerify: a signature over what the client has heard.
LEMMA ClientCertificateVerify ==
  ASSUME NEW k \in Environments, k.ver = 13, NEW st, IsStep(st), st.ok = TRUE,
         At(k, "client", st.s, 3, 0),
         NEW m, m = CV(k), NEW t, t = collect_message(st, m, InputOf(k))
  PROVE  Reaches(k, "client", st, t, 4) /\ Silent(st, t)
<1> DEFINE a == process(st, m, InputOf(k))
           s1 == transcript_add(st.s, m)
<1>1. m.type = "CERTIFICATE_VERIFY" /\ m.mseq = 3 /\ m.data.sig = Read4(k)
  BY DEF CV, HandshakeMessage
<1>2. Own(k, "client", st.s) /\ ClientAt13(k, st.s, 3, 0) /\ Cookies(k) \in {0, 1} /\ k.trusted \in BOOLEAN
  BY EnvironmentFacts DEF At
<1>3. a = [st EXCEPT !.s = s1]
  <2>1. st.s.role = "client" /\ st.s.ver = 13
        /\ st.s.have_server_cert = TRUE /\ m.data.sig = st.s.transcript
    BY <1>1, <1>2 DEF Own, ClientAt13
  <2>2. a = on_certificate_verify(st, m)
    BY <1>1, <2>1, ClientHandles
  <2> HIDE DEF a
  <2> QED
    BY <2>1, <2>2 DEF on_certificate_verify
<1>5. /\ IsStep(a) /\ SameStep(st, a, {"s"}) /\ Same(st.s, a.s, {"transcript"})
      /\ a.s.transcript = Read5(k)
  <2>1. /\ IsSession(s1) /\ Same(st.s, s1, {"transcript"})
        /\ s1.transcript = Append(st.s.transcript, Entry(k, m))
    BY <1>2, TranscriptAddFields DEF Own
  <2> HIDE DEF s1
  <2>2. IsStep(a) /\ a.s = s1 /\ SameStep(st, a, {"s"})
    BY <1>3, <2>1, NewSessionOfStep
  <2> HIDE DEF a
  <2> QED
    BY <1>2, <2>1, <2>2 DEF ClientAt13, Read5
<1>6. st.s.recv_msg_seq \in Nat /\ m.mseq = st.s.recv_msg_seq
  BY <1>1, <1>2 DEF ClientAt13
<1>7. /\ IsStep(t) /\ SameStep(st, t, {"s"}) /\ Same(a.s, t.s, {"recv_msg_seq"})
      /\ t.s.recv_msg_seq = a.s.recv_msg_seq + 1
      /\ t.done = a.done /\ t.got_shd = a.got_shd
  <2> DEFINE X == {"s"}
  <2>1. "ok" \notin X /\ "s" \in X /\ SameStep(st, a, X)
    BY <1>5
  <2> HIDE DEF X
  <2>2. /\ IsStep(t) /\ SameStep(st, t, X) /\ Same(a.s, t.s, {"recv_msg_seq"})
        /\ t.s.recv_msg_seq = a.s.recv_msg_seq + 1
        /\ t.done = a.done /\ t.got_shd = a.got_shd
    BY <1>5, <1>6, <2>1, QuietCollect
  <2> QED
    BY <2>2 DEF X
<1> HIDE DEF a
<1>8. /\ t.s.recv_msg_seq = st.s.recv_msg_seq + 1 /\ t.s.role = st.s.role
      /\ t.s.ver = st.s.ver /\ t.s.require_cookie = st.s.require_cookie
      /\ t.s.send_msg_seq = st.s.send_msg_seq /\ t.s.client_random = st.s.client_random
      /\ t.s.app_keys = st.s.app_keys /\ t.s.ks_pub = st.s.ks_pub
      /\ t.s.transcript = a.s.transcript /\ t.s.server_random = st.s.server_random
      /\ t.s.cipher_suite = st.s.cipher_suite
      /\ t.s.have_server_cert = st.s.have_server_cert /\ t.s.keys = st.s.keys
      /\ t.s.send_epoch = st.s.send_epoch /\ t.s.send_seq = st.s.send_seq
      /\ t.s.handshake_done = st.s.handshake_done /\ t.s.last_sent = st.s.last_sent
  BY <1>5, <1>7 DEF Same, SessionFields
<1>9. At(k, "client", t.s, 4, 0)
  <2>1. Own(k, "client", t.s)
    BY <1>2, <1>7, <1>8 DEF Own, IsStep
  <2>2. ClientAt13(k, t.s, 4, 0)
    BY <1>1, <1>2, <1>5, <1>8 DEF ClientAt13
  <2> QED
    BY <2>1, <2>2 DEF At
<1> QED
  BY <1>2, <1>5, <1>7, <1>8, <1>9 DEF Reaches, Silent, SameStep, StepFields, ClientAt13

\* The server's Finished, 1.3: the answer is in epoch 2, what follows in epoch 3.
LEMMA ClientFinishes13 ==
  ASSUME NEW k \in Environments, k.ver = 13, NEW st, IsStep(st), st.ok = TRUE,
         At(k, "client", st.s, 4, 0),
         NEW m, m = ServerFinished13(k), NEW t, t = collect_message(st, m, InputOf(k))
  PROVE  Reaches(k, "client", st, t, 5) /\ Answers(k, "client", t)
<1> DEFINE a == process(st, m, InputOf(k))
           s1 == transcript_add(st.s, m)
           st1 == [st EXCEPT !.s = s1]
           s2 == dtls13_derive_application(st1.s)
           st2 == [st1 EXCEPT !.s = s2]
           u == start_response(st2)
           fin == [mac |-> Mac(u.s, "client_finished")]
           v == add_protected(u, "FINISHED", fin)
           w == protect(v, "ack", Ack(v.s))
           x == client_done(w)
<1>1. /\ m.type = "FINISHED" /\ m.mseq = 4
      /\ m.data.mac = <<"server_finished", Keys13(k), Read5(k)>>
  BY DEF ServerFinished13, HandshakeMessage
<1>2. Own(k, "client", st.s) /\ ClientAt13(k, st.s, 4, 0)
  BY DEF At
<1>3. a = new_epoch(x, 3)
  <2>1. st.s.role = "client" /\ st.s.ver = 13
    BY <1>2 DEF Own
  <2>2. a = on_server_finished(st, m)
    BY <1>1, <2>1, ClientHandles
  <2>3. m.data.mac = Mac(st.s, "server_finished")
    BY <1>1, <1>2 DEF ClientAt13, Mac
  <2>4. w = client_flight13(u)
    BY Zenon DEF client_flight13, add_protected
  <2> HIDE DEF a, w
  <2>5. on_server_finished(st, m) = new_epoch(client_done(client_flight13(u)), 3)
    BY <2>1, <2>3, 12 # 13 DEF on_server_finished
  <2> QED
    BY <2>2, <2>4, <2>5
<1>4. /\ IsSession(s1) /\ Same(st.s, s1, {"transcript"}) /\ s1.transcript = Read6(k)
  <2>1. /\ IsSession(s1) /\ Same(st.s, s1, {"transcript"})
        /\ s1.transcript = Append(st.s.transcript, Entry(k, m))
    BY <1>2, TranscriptAddFields DEF Own
  <2> HIDE DEF s1
  <2> QED
    BY <1>2, <2>1 DEF ClientAt13, Read6
<1> HIDE DEF s1
<1>5. IsStep(st1) /\ st1.s = s1 /\ SameStep(st, st1, {"s"})
  BY <1>4, NewSessionOfStep
<1> HIDE DEF st1
<1>6. IsSession(s2) /\ Same(s1, s2, {"app_keys"}) /\ s2.app_keys = AppKeys(k)
  <2>1. s1.keys = Keys13(k)
    BY <1>2, <1>4 DEF ClientAt13, Same, SessionFields
  <2>2. /\ IsSession(s2) /\ Same(s1, s2, {"app_keys"})
        /\ s2.app_keys = <<s1.keys[1], s1.transcript>>
    BY <1>4, <1>5, DeriveApplicationFields
  <2> HIDE DEF s2
  <2> QED
    BY <1>4, <2>1, <2>2 DEF AppKeys
<1> HIDE DEF s2
<1>7. IsStep(st2) /\ st2.s = s2 /\ SameStep(st1, st2, {"s"})
  BY <1>5, <1>6, NewSessionOfStep
<1> HIDE DEF st2
<1>8. /\ s2.role = st.s.role /\ s2.ver = st.s.ver /\ s2.require_cookie = st.s.require_cookie
      /\ s2.recv_msg_seq = st.s.recv_msg_seq /\ s2.ks_pub = st.s.ks_pub
      /\ s2.cipher_suite = st.s.cipher_suite /\ s2.have_server_cert = st.s.have_server_cert
      /\ s2.keys = st.s.keys /\ s2.last_sent = st.s.last_sent /\ s2.send_epoch = st.s.send_epoch
      /\ s2.send_seq = st.s.send_seq /\ s2.send_msg_seq = st.s.send_msg_seq
      /\ s2.transcript = Read6(k) /\ s2.app_keys = AppKeys(k)
  BY <1>4, <1>6 DEF Same, SessionFields
<1>9. /\ Speaking(k, "client", u) /\ SameStep(st2, u, {"response", "build"}) /\ u.s = s2
      /\ u.build = TRUE
  <2>1. st2.s.ver = k.ver /\ st2.s.send_msg_seq \in Nat
    BY <1>2, <1>7, <1>8 DEF Own, ClientAt13
  <2> QED
    BY <1>7, <2>1, SpeakStart
<1> HIDE DEF u
<1>10. /\ Says(k, "client", u, v) /\ v.s.send_seq = 1 /\ v.s.send_epoch = 2
       /\ v.s.transcript = Read7(k) /\ v.s.send_msg_seq = 2
  <2>1. /\ u.s.send_msg_seq = 1 /\ u.s.transcript = Read6(k) /\ u.s.keys = Keys13(k)
        /\ u.s.send_epoch = 2 /\ u.s.send_seq = 0
    BY <1>2, <1>8, <1>9 DEF ClientAt13
  <2>2. fin = [mac |-> <<"client_finished", Keys13(k), Read6(k)>>]
    BY <2>1 DEF Mac
  <2> HIDE DEF fin
  <2>3. HandshakeMessage("FINISHED", 1, fin) = ClientFinished13(k)
    BY <2>2 DEF ClientFinished13
  <2>4. MessageOf(k, "client", 1) = ClientFinished13(k)
    BY Messages13
  <2>5. 1 \in Secret(k, "client") /\ <<2, 0>> = SecretNumber(k, "client", 1)
    BY DEF Secret, SecretNumber
  <2>6. Says(k, "client", u, v) /\ v.s.send_seq = u.s.send_seq + 1
    BY <1>9, <2>1, <2>3, <2>4, <2>5, SaySecret
  <2> HIDE DEF v
  <2>7. v.s.send_epoch = u.s.send_epoch
    BY <2>6 DEF Says, Same, SessionFields
  <2> QED
    BY <2>1, <2>4, <2>6, <2>7 DEF Says, Read7
<1> HIDE DEF v
<1>11. /\ IsStep(w) /\ SameStep(v, w, {"s", "response"}) /\ Same(v.s, w.s, {"send_seq"})
       /\ Flight(k, "client", w.s.send_msg_seq, w.response) /\ AckOnce(Range(w.response))
  <2>1. <<v.s.send_epoch, v.s.send_seq>> = AckNumber("client")
    BY <1>10 DEF AckNumber
  <2> QED
    BY <1>10, <2>1, SpeakAck DEF Says
<1> HIDE DEF w
<1>12. /\ IsStep(x) /\ SameStep(w, x, {"s", "done"}) /\ x.done = TRUE
       /\ Same(w.s, x.s, {"handshake_done", "phase"}) /\ x.s.handshake_done = TRUE
  BY <1>11, ClientDoneFields
<1> HIDE DEF x
<1>13. /\ IsStep(a) /\ SameStep(x, a, {"s"}) /\ Same(x.s, a.s, {"send_epoch", "send_seq"})
       /\ a.s.send_epoch = 3 /\ a.s.send_seq = 0
  BY <1>3, <1>12, NewEpochFields
<1>14. st.s.recv_msg_seq \in Nat /\ m.mseq = st.s.recv_msg_seq
  BY <1>1, <1>2 DEF ClientAt13
<1>15. /\ a.ok = TRUE /\ a.build = TRUE /\ a.done = TRUE /\ a.got_shd = st.got_shd
       /\ a.pending = st.pending
  <2> HIDE DEF a
  <2>1. /\ a.ok = w.ok /\ a.build = w.build /\ a.got_shd = w.got_shd /\ a.done = TRUE
        /\ a.pending = w.pending
    BY <1>12, <1>13 DEF SameStep, StepFields
  <2>2. /\ w.ok = u.ok /\ w.build = u.build /\ w.got_shd = u.got_shd
        /\ w.pending = u.pending
    BY <1>10, <1>11 DEF Says, SameStep, StepFields
  <2>3. u.ok = st.ok /\ u.got_shd = st.got_shd /\ u.pending = st.pending
    BY <1>5, <1>7, <1>9 DEF SameStep, StepFields
  <2> QED
    BY <1>9, <2>1, <2>2, <2>3
<1>16. Collected(a, t)
  BY <1>13, <1>14, <1>15, CollectNext
<1> HIDE DEF a
<1>17. /\ t.response = w.response /\ t.build = TRUE /\ t.done = TRUE /\ t.ok = TRUE
       /\ t.got_shd = st.got_shd /\ t.pending = st.pending
  <2>1. a.response = w.response
    BY <1>12, <1>13 DEF SameStep, StepFields
  <2> QED
    BY <1>15, <1>16, <2>1 DEF Collected, SameStep, StepFields
<1>18. Same(s2, t.s, {"send_seq", "send_msg_seq", "transcript", "handshake_done", "phase",
                      "send_epoch", "recv_msg_seq"})
  <2>1. Same(s2, v.s, {"send_seq", "send_msg_seq", "transcript"})
    BY <1>9, <1>10 DEF Says
  <2> QED
    BY <1>11, <1>12, <1>13, <1>16, <2>1 DEF Same, Collected
<1>19. /\ t.s.send_msg_seq = 2 /\ t.s.transcript = Read7(k) /\ t.s.handshake_done = TRUE
       /\ t.s.send_epoch = 3 /\ t.s.send_seq = 0 /\ t.s.recv_msg_seq = 5
       /\ w.s.send_msg_seq = 2
  <2>1. /\ t.s.send_msg_seq = v.s.send_msg_seq /\ t.s.transcript = v.s.transcript
        /\ t.s.handshake_done = x.s.handshake_done /\ w.s.send_msg_seq = v.s.send_msg_seq
        /\ t.s.send_epoch = a.s.send_epoch /\ t.s.send_seq = a.s.send_seq
    BY <1>11, <1>12, <1>13, <1>16 DEF Same, SessionFields, Collected
  <2>2. a.s.recv_msg_seq = s2.recv_msg_seq
    <3>1. Same(s2, v.s, {"send_seq", "send_msg_seq", "transcript"})
      BY <1>9, <1>10 DEF Says
    <3>2. v.s.recv_msg_seq = s2.recv_msg_seq
      BY <3>1 DEF Same, SessionFields
    <3> QED
      BY <1>11, <1>12, <1>13, <3>2 DEF Same, SessionFields
  <2>3. s2.recv_msg_seq = 4 /\ t.s.recv_msg_seq = a.s.recv_msg_seq + 1
    BY <1>2, <1>8, <1>16 DEF ClientAt13, Collected
  <2> QED
    BY <1>10, <1>12, <1>13, <2>1, <2>2, <2>3
<1>20. /\ t.s.role = st.s.role /\ t.s.ver = st.s.ver /\ t.s.require_cookie = st.s.require_cookie
       /\ t.s.ks_pub = st.s.ks_pub /\ t.s.cipher_suite = st.s.cipher_suite
       /\ t.s.have_server_cert = st.s.have_server_cert /\ t.s.keys = st.s.keys
       /\ t.s.last_sent = st.s.last_sent /\ t.s.app_keys = AppKeys(k)
  BY <1>8, <1>18 DEF Same, SessionFields
<1>21. IsStep(t)
  BY <1>16 DEF Collected
<1>22. At(k, "client", t.s, 5, 0)
  <2>1. Own(k, "client", t.s)
    BY <1>2, <1>20, <1>21 DEF Own, IsStep
  <2>2. ClientAt13(k, t.s, 5, 0)
    BY <1>2, <1>19, <1>20 DEF ClientAt13
  <2> QED
    BY <2>1, <2>2 DEF At
<1>23. Answers(k, "client", t)
  BY <1>11, <1>17, <1>19 DEF Answers
<1> QED
  BY <1>17, <1>19, <1>20, <1>21, <1>22, <1>23 DEF Reaches

-----------------------------------------------------------------------------
(* The server *)

\* The configured suite, or the client's first.
LEMMA SuiteSelected ==
  ASSUME NEW k, NEW s, s.cipher_suite = k.suite["server"]
  PROVE  select_suite(s, LastHello(k).suites) = Suite(k)
BY DEF select_suite, Suite

\* The last ClientHello proves the address, the first one does not.
LEMMA CookieOfHellos ==
  ASSUME NEW k \in Environments, NEW s, Own(k, "server", s)
  PROVE  /\ cookie_ok(s, LastHello(k)) /\ LastHello(k).random = "client_random"
         /\ LastHello(k).share = ShareOf(k, "client")
         /\ Cookies(k) = 1 => ~cookie_ok(s, FirstHello(k))
         /\ FirstHello(k).random = "client_random"
<1> DEFINE cookie == make_cookie("client_random")
<1>1. cookie # NoCookie
  <2>1. Len(cookie) = 2 /\ Len(NoCookie) = 0
    BY DEF make_cookie, NoCookie
  <2> QED
    BY <2>1
<1>2. /\ FirstHello(k).random = "client_random" /\ FirstHello(k).cookie = NoCookie
      /\ FirstHello(k).share = ShareOf(k, "client")
      /\ SecondHello(k).random = "client_random" /\ SecondHello(k).cookie = cookie
      /\ SecondHello(k).share = ShareOf(k, "client")
  BY DEF FirstHello, SecondHello, HelloData
<1> HIDE DEF cookie
<1>3. Cookies(k) = 1 => k.ver = 12 /\ k.require_cookie
  BY EnvironmentFacts
<1>4. s.ver = 12 /\ s.require_cookie => Cookies(k) = 1
  BY DEF Own, Cookies
<1>5. Cookies(k) \in {0, 1}
  BY EnvironmentFacts
<1>6. Cookies(k) = 1 => cookie_ok(s, LastHello(k))
  BY <1>2 DEF cookie_ok, LastHello, cookie
<1>7. Cookies(k) = 0 => cookie_ok(s, LastHello(k))
  BY <1>4 DEF cookie_ok
<1>8. Cookies(k) = 1 => ~cookie_ok(s, FirstHello(k))
  BY <1>1, <1>2, <1>3 DEF cookie_ok, cookie, Own
<1> QED
  BY <1>2, <1>5, <1>6, <1>7, <1>8 DEF LastHello

\* The session once a ClientHello is accepted.
Hello(k, s, m) ==
  [transcript_add(s, m) EXCEPT !.phase = "HelloOk", !.client_random = m.data.random,
                               !.cipher_suite = select_suite(s, m.data.suites)]

LEMMA HelloFields ==
  ASSUME NEW k, NEW s, Own(k, "server", s), s.cipher_suite = k.suite["server"],
         s.transcript = <<>>, NEW m, m = CH(k), LastHello(k).random = "client_random"
  PROVE  LET t == Hello(k, s, m)
         IN  /\ IsSession(t) /\ Same(s, t, {"transcript", "phase", "client_random", "cipher_suite"})
             /\ t.transcript = Heard1(k) /\ t.client_random = "client_random"
             /\ t.cipher_suite = Suite(k)
<1> DEFINE s0 == transcript_add(s, m)
           t == Hello(k, s, m)
<1>1. m.data = LastHello(k)
  BY DEF CH, HandshakeMessage
<1>2. /\ IsSession(s0) /\ Same(s, s0, {"transcript"})
      /\ s0.transcript = Append(<<>>, Entry(k, m))
  BY TranscriptAddFields DEF Own
<1> HIDE DEF s0
<1>3. t = [s0 EXCEPT !.phase = "HelloOk", !.client_random = "client_random",
                     !.cipher_suite = Suite(k)]
  BY <1>1, SuiteSelected DEF Hello, s0
<1> HIDE DEF t
<1>4. /\ IsSession(t) /\ Same(s0, t, {"phase", "client_random", "cipher_suite"})
      /\ t.transcript = s0.transcript /\ t.client_random = "client_random"
      /\ t.cipher_suite = Suite(k)
  BY <1>2, <1>3 DEF IsSession, Same, SessionFields
<1>5. Same(s, t, {"transcript", "phase", "client_random", "cipher_suite"})
  BY <1>2, <1>4 DEF Same
<1> QED
  BY <1>2, <1>4, <1>5 DEF t, Heard1

\* The step that answers it.
Accepted(k, st, m) ==
  start_response([st EXCEPT !.s = generate_ecdh_keypair(
                    [Hello(k, st.s, m) EXCEPT !.server_random = "server_random"])])

\* What becomes of a good ClientHello.
LEMMA ServerTakesHello ==
  ASSUME NEW k \in Environments, NEW st, Own(k, "server", st.s),
         NEW m, m = CH(k)
  PROVE  LET a == process(st, m, InputOf(k))
         IN  /\ k.usable = FALSE => a = Fail([st EXCEPT !.s = Hello(k, st.s, m)])
             /\ k.usable = TRUE /\ k.ver = 13
                  => a = server_flight13(Accepted(k, st, m), <<"client", 1>>)
             /\ k.usable = TRUE /\ k.ver = 12 => a = server_flight12(Accepted(k, st, m))
<1> DEFINE a == process(st, m, InputOf(k))
<1>1. m.type = "CLIENT_HELLO" /\ m.data = LastHello(k)
  BY DEF CH, HandshakeMessage
<1>2. st.s.role = "server" /\ st.s.ver = k.ver /\ k.ver \in {12, 13}
  BY EnvironmentFacts DEF Own
<1>3. a = on_client_hello(st, m, k.usable)
  BY <1>1, <1>2, ServerHandles
<1>4. cookie_ok(st.s, m.data) /\ LastHello(k).share = ShareOf(k, "client")
  BY <1>1, CookieOfHellos
<1>5. k.ver = 13 => m.data.share = <<"client", 1>>
  BY <1>1, <1>4 DEF ShareOf
<1> HIDE DEF a
<1>6. k.usable = FALSE => a = Fail([st EXCEPT !.s = Hello(k, st.s, m)])
  BY <1>3, <1>4 DEF on_client_hello, Hello
<1>7. ASSUME k.usable = TRUE, k.ver = 13
      PROVE  a = server_flight13(Accepted(k, st, m), <<"client", 1>>)
  BY <1>2, <1>3, <1>4, <1>5, <1>7 DEF on_client_hello, Hello, Accepted
<1>8. ASSUME k.usable = TRUE, k.ver = 12
      PROVE  a = server_flight12(Accepted(k, st, m))
  BY <1>2, <1>3, <1>4, <1>8 DEF on_client_hello, Hello, Accepted
<1> QED
  BY <1>6, <1>7, <1>8 DEF a

LEMMA ServerRefuses ==
  ASSUME NEW k \in Environments, k.usable = FALSE, NEW st, IsStep(st), st.ok = TRUE,
         At(k, "server", st.s, 0, 0), NEW m, m = CH(k),
         NEW t, t = collect_message(st, m, InputOf(k))
  PROVE  Refuses(k, "server", st, t)
<1> DEFINE a == process(st, m, InputOf(k))
           s1 == Hello(k, st.s, m)
           u == [st EXCEPT !.s = s1]
<1>1. /\ Own(k, "server", st.s) /\ k.ver \in {12, 13} /\ Cookies(k) \in {0, 1}
      /\ k.ver = 13 => Cookies(k) = 0
  BY EnvironmentFacts DEF At
<1>2. a = Fail(u)
  BY <1>1, ServerTakesHello
<1>3. /\ st.s.recv_msg_seq = Cookies(k) /\ st.s.send_msg_seq = Cookies(k)
      /\ st.s.handshake_done = FALSE /\ st.s.transcript = <<>>
      /\ st.s.cipher_suite = k.suite["server"]
  <2>1. CASE k.ver = 12
    BY <1>1, <2>1 DEF At, ServerAt12
  <2>2. CASE k.ver = 13
    BY <1>1, <2>2 DEF At, ServerAt13
  <2> QED
    BY <1>1, <2>1, <2>2
<1>4. /\ IsSession(s1) /\ Same(st.s, s1, {"transcript", "phase", "client_random", "cipher_suite"})
  BY <1>1, <1>3, HelloFields, CookieOfHellos
<1> HIDE DEF s1
<1>5. IsStep(u) /\ u.s = s1 /\ u.pending = st.pending
  BY <1>4, NewSessionOfStep DEF SameStep, StepFields
<1> HIDE DEF u
<1>6. IsStep(a) /\ a.ok = FALSE /\ a.s = s1 /\ a.pending = st.pending
  BY <1>2, <1>5, FailFields
<1>7. t = a
  <2>1. st.s.recv_msg_seq \in Nat /\ m.mseq = st.s.recv_msg_seq
    BY <1>1, <1>3 DEF CH, HandshakeMessage
  <2> QED
    BY <1>6, <2>1, CollectNext
<1> HIDE DEF a
<1>8. /\ t.s.send_msg_seq = st.s.send_msg_seq /\ t.s.recv_msg_seq = st.s.recv_msg_seq
      /\ t.s.handshake_done = FALSE /\ IsSession(t.s)
  BY <1>3, <1>4, <1>6, <1>7 DEF Same, SessionFields
<1>9. Failed(k, "server", t.s)
  BY <1>1, <1>3, <1>8 DEF Failed
<1> QED
  BY <1>6, <1>7, <1>8, <1>9 DEF Refuses

\* A ClientHello without the cookie: HelloVerifyRequest, which is not in the transcript.
LEMMA ServerHelloVerify ==
  ASSUME NEW k \in Environments, Cookies(k) = 1, NEW st, IsStep(st), st.ok = TRUE,
         At(k, "server", st.s, -1, 0),
         NEW m, m = HandshakeMessage("CLIENT_HELLO", 0, FirstHello(k)),
         NEW t, t = collect_message(st, m, InputOf(k))
  PROVE  Reaches(k, "server", st, t, 0) /\ Answers(k, "server", t)
<1> DEFINE a == process(st, m, InputOf(k))
           u == start_response(st)
           data == [cookie |-> make_cookie("client_random")]
           hvr == HandshakeMessage("HELLO_VERIFY_REQUEST", u.s.send_msg_seq, data)
           r == Record("handshake", 0, u.s.send_seq, NoKey, hvr)
<1>1. m.type = "CLIENT_HELLO" /\ m.mseq = 0 /\ m.data = FirstHello(k)
  BY DEF HandshakeMessage
<1>2. k.ver = 12 /\ Own(k, "server", st.s) /\ ServerAt12(k, st.s, -1, 0)
  BY EnvironmentFacts DEF At
<1>3. a = send_plain(u, "HELLO_VERIFY_REQUEST", data)
  <2>1. st.s.role = "server"
    BY <1>2 DEF Own
  <2>2. a = on_client_hello(st, m, k.usable)
    BY <1>1, <2>1, ServerHandles
  <2>3. ~cookie_ok(st.s, m.data) /\ m.data.random = "client_random"
    BY <1>1, <1>2, CookieOfHellos
  <2>4. a = hello_verify_request(st, m.data)
    <3> HIDE DEF a
    <3> QED
      BY <2>2, <2>3 DEF on_client_hello
  <2> HIDE DEF a
  <2> QED
    BY <2>3, <2>4 DEF hello_verify_request, HelloVerifyRequest
<1>4. /\ Speaking(k, "server", u) /\ SameStep(st, u, {"response", "build"}) /\ u.s = st.s
      /\ u.build = TRUE
  <2>1. st.s.ver = k.ver /\ st.s.send_msg_seq \in Nat
    BY <1>2 DEF Own, ServerAt12
  <2> QED
    BY <2>1, SpeakStart
<1> HIDE DEF u
<1>5. Emits(u, a, {"send_seq", "send_msg_seq"}, r) /\ a.s.send_msg_seq = u.s.send_msg_seq + 1
  BY <1>3, <1>4, SendPlainFields DEF Speaking
<1> HIDE DEF a
<1>6. u.s.send_msg_seq = 0 /\ st.s.recv_msg_seq = 0
  BY <1>2, <1>4 DEF ServerAt12
<1>7. hvr = MessageOf(k, "server", 0) /\ hvr.mseq = 0
  BY <1>2, <1>6, Messages12 DEF HVR, HandshakeMessage
<1>8. Flight(k, "server", 1, a.response) /\ NoAck(Range(a.response))
  <2>1. 0 \in 0 .. 1 - 1 /\ 1 \in Nat /\ 0 \in Nat /\ 0 <= 1
    OBVIOUS
  <2> HIDE DEF hvr
  <2>2. HandshakeRecord(k, "server", 1, r) /\ r.ct # "ack"
    BY <1>7, <2>1, PlainMessageRecord
  <2>3. Flight(k, "server", 0, u.response) /\ NoAck(Range(u.response))
    BY <1>4, <1>6 DEF Speaking
  <2> HIDE DEF r
  <2>4. a.response = Append(u.response, r)
    BY <1>5 DEF Emits
  <2> QED
    BY <2>1, <2>2, <2>3, <2>4, FlightGrows
<1>9. Collected(a, t)
  <2>1. IsStep(a) /\ a.ok = TRUE
    BY <1>4, <1>5 DEF Emits, SameStep, StepFields
  <2>2. st.s.recv_msg_seq \in Nat /\ m.mseq = st.s.recv_msg_seq
    BY <1>1, <1>6
  <2> QED
    BY <2>1, <2>2, CollectNext DEF a
<1>10. /\ t.s.role = st.s.role /\ t.s.ver = st.s.ver /\ t.s.require_cookie = st.s.require_cookie
       /\ t.s.app_keys = st.s.app_keys /\ t.s.transcript = st.s.transcript
       /\ t.s.cipher_suite = st.s.cipher_suite /\ t.s.ks_pub = st.s.ks_pub
       /\ t.s.handshake_done = st.s.handshake_done /\ t.s.last_sent = st.s.last_sent
       /\ t.s.recv_msg_seq = 1 /\ t.s.send_msg_seq = 1
  BY <1>4, <1>5, <1>6, <1>9 DEF Emits, Collected, Same, SessionFields
<1>11. t.response = a.response /\ t.build = TRUE /\ t.done = st.done /\ t.ok = TRUE
       /\ t.got_shd = st.got_shd /\ IsStep(t) /\ t.pending = st.pending
  BY <1>4, <1>5, <1>9 DEF Emits, Collected, SameStep, StepFields
<1>12. Own(k, "server", t.s)
  BY <1>2, <1>10, <1>11 DEF Own, IsStep
<1>13. ServerAt12(k, t.s, 0, 0)
  BY <1>2, <1>10 DEF ServerAt12
<1>14. At(k, "server", t.s, 0, 0)
  BY <1>2, <1>12, <1>13 DEF At
<1>15. t.s.handshake_done = FALSE
  BY <1>13 DEF ServerAt12
<1>16. Answers(k, "server", t)
  BY <1>8, <1>10, <1>11 DEF Answers, NoAck, AckOnce
<1> QED
  BY <1>10, <1>11, <1>14, <1>15, <1>16 DEF Reaches

LEMMA HelloTaken ==
  ASSUME NEW k, NEW st, IsStep(st), Own(k, "server", st.s), st.s.send_msg_seq \in Nat,
         st.s.cipher_suite = k.suite["server"], st.s.transcript = <<>>,
         st.s.ks_pub = <<"server", 0>>, NEW m, m = CH(k), LastHello(k).random = "client_random",
         NEW u, u = Accepted(k, st, m)
  PROVE  /\ Speaking(k, "server", u) /\ SameStep(st, u, {"s", "response", "build"})
         /\ Same(st.s, u.s, {"transcript", "phase", "client_random", "cipher_suite",
                             "server_random", "ks_pub"})
         /\ u.s.transcript = Heard1(k) /\ u.s.client_random = "client_random"
         /\ u.s.server_random = "server_random" /\ u.s.cipher_suite = Suite(k)
         /\ u.s.ks_pub = <<"server", 1>> /\ u.build = TRUE
<1> DEFINE s1 == Hello(k, st.s, m)
           s0 == [s1 EXCEPT !.server_random = "server_random"]
           s2 == generate_ecdh_keypair(s0)
           v == [st EXCEPT !.s = s2]
<1>0. u = start_response(v)
  BY DEF Accepted
<1>1. /\ IsSession(s1)
      /\ Same(st.s, s1, {"transcript", "phase", "client_random", "cipher_suite"})
      /\ s1.transcript = Heard1(k) /\ s1.client_random = "client_random"
      /\ s1.cipher_suite = Suite(k)
  BY HelloFields
<1> HIDE DEF s1
<1>2. /\ IsSession(s0) /\ Same(s1, s0, {"server_random"}) /\ s0.server_random = "server_random"
  BY <1>1 DEF IsSession, Same, SessionFields
<1> HIDE DEF s0
<1>3. IsSession(s2) /\ Same(s0, s2, {"ks_pub"}) /\ s2.ks_pub = <<"server", 1>>
  <2>1. /\ IsSession(s2) /\ Same(s0, s2, {"ks_pub"})
        /\ \A e, i : s0.ks_pub = <<e, i>> => s2.ks_pub = <<e, i + 1>>
    BY <1>2, GenerateFields
  <2>2. s0.ks_pub = <<"server", 0>>
    BY <1>1, <1>2 DEF Same, SessionFields
  <2> HIDE DEF s2
  <2>3. s2.ks_pub = <<"server", 0 + 1>>
    BY <2>1, <2>2
  <2> QED
    BY <2>1, <2>3
<1> HIDE DEF s2
<1>4. IsStep(v) /\ v.s = s2 /\ SameStep(st, v, {"s"})
  BY <1>3, NewSessionOfStep
<1> HIDE DEF v
<1>5. /\ s2.transcript = Heard1(k) /\ s2.client_random = "client_random"
      /\ s2.server_random = "server_random" /\ s2.cipher_suite = Suite(k)
      /\ s2.ver = st.s.ver /\ s2.send_msg_seq = st.s.send_msg_seq
  BY <1>1, <1>2, <1>3 DEF Same, SessionFields
<1>6. /\ Speaking(k, "server", u) /\ SameStep(v, u, {"response", "build"}) /\ u.s = s2
      /\ u.build = TRUE
  <2>1. v.s.ver = k.ver /\ v.s.send_msg_seq \in Nat
    BY <1>4, <1>5 DEF Own
  <2> QED
    BY <1>0, <1>4, <2>1, SpeakStart
<1>7. Same(st.s, u.s, {"transcript", "phase", "client_random", "cipher_suite",
                       "server_random", "ks_pub"})
  BY <1>1, <1>2, <1>3, <1>6 DEF Same
<1>8. SameStep(st, u, {"s", "response", "build"})
  BY <1>4, <1>6 DEF SameStep
<1> QED
  BY <1>3, <1>5, <1>6, <1>7, <1>8

\* ServerHello to ServerHelloDone, 1.2.
LEMMA ServerFlight12 ==
  ASSUME NEW k \in Environments, k.ver = 12, k.usable = TRUE, NEW st, IsStep(st), st.ok = TRUE,
         At(k, "server", st.s, 0, 0), NEW m, m = CH(k),
         NEW t, t = collect_message(st, m, InputOf(k))
  PROVE  Reaches(k, "server", st, t, 1) /\ Answers(k, "server", t)
<1> DEFINE a == process(st, m, InputOf(k))
           u == Accepted(k, st, m)
           st1 == add_plain(u, "SERVER_HELLO", ServerHello(u.s))
           st2 == add_plain(st1, "CERTIFICATE", Certificate)
           st3 == add_plain(st2, "SERVER_KEY_EXCHANGE", ServerKeyExchange(st2.s))
           c == Cookies(k)
<1>1. Own(k, "server", st.s) /\ ServerAt12(k, st.s, 0, 0) /\ c \in {0, 1}
  BY EnvironmentFacts DEF At
<1>2. a = add_plain(st3, "SERVER_HELLO_DONE", Empty)
  <2>1. a = server_flight12(u)
    BY <1>1, ServerTakesHello
  <2> HIDE DEF a, u
  <2> QED
    BY <2>1, Zenon DEF server_flight12
<1>3. /\ Speaking(k, "server", u) /\ SameStep(st, u, {"s", "response", "build"})
      /\ Same(st.s, u.s, {"transcript", "phase", "client_random", "cipher_suite",
                          "server_random", "ks_pub"})
      /\ u.s.transcript = Heard1(k) /\ u.s.client_random = "client_random"
      /\ u.s.server_random = "server_random" /\ u.s.cipher_suite = Suite(k)
      /\ u.s.ks_pub = <<"server", 1>> /\ u.build = TRUE
  <2>1. /\ st.s.send_msg_seq \in Nat /\ st.s.cipher_suite = k.suite["server"]
        /\ st.s.transcript = <<>> /\ st.s.ks_pub = <<"server", 0>>
    BY <1>1 DEF ServerAt12
  <2>2. LastHello(k).random = "client_random"
    BY <1>1, CookieOfHellos
  <2> QED
    BY <1>1, <2>1, <2>2, HelloTaken
<1> HIDE DEF u
<1>4. u.s.send_msg_seq = c /\ u.s.ver = 12 /\ u.s.recv_msg_seq = c
  BY <1>1, <1>3 DEF ServerAt12, Own, Same, SessionFields
<1>5. Says(k, "server", u, st1) /\ st1.s.transcript = Heard2(k) /\ st1.s.send_msg_seq = c + 1
  <2>1. ServerHello(u.s) = [random |-> "server_random", suite |-> Suite(k),
                            share |-> ShareOf(k, "server")]
    BY <1>3, <1>4 DEF ServerHello, KeyShare, ShareOf
  <2>2. HandshakeMessage("SERVER_HELLO", c, ServerHello(u.s)) = SH(k)
    BY <2>1 DEF SH
  <2>3. MessageOf(k, "server", c) = SH(k)
    BY Messages12
  <2>4. Says(k, "server", u, st1)
    BY <1>3, <1>4, <2>2, <2>3, SayPlain
  <2> HIDE DEF st1
  <2> QED
    BY <1>3, <1>4, <2>3, <2>4 DEF Says, Heard2
<1> HIDE DEF st1
<1>6. /\ Says(k, "server", st1, st2) /\ st2.s.transcript = Heard3(k)
      /\ st2.s.send_msg_seq = c + 2
  <2>1. HandshakeMessage("CERTIFICATE", c + 1, Certificate) = Crt12(k)
    BY DEF Crt12, Certificate
  <2>2. MessageOf(k, "server", c + 1) = Crt12(k)
    BY Messages12
  <2>3. Speaking(k, "server", st1)
    BY <1>5 DEF Says
  <2>4. Says(k, "server", st1, st2)
    BY <1>5, <2>1, <2>2, <2>3, SayPlain
  <2> HIDE DEF st2
  <2>5. /\ st2.s.send_msg_seq = (c + 1) + 1
        /\ st2.s.transcript = Append(Heard2(k), Entry(k, Crt12(k)))
    BY <1>5, <2>2, <2>4 DEF Says
  <2> QED
    BY <1>1, <2>4, <2>5 DEF Heard3
<1> HIDE DEF st2
<1>7. /\ Says(k, "server", st2, st3) /\ st3.s.transcript = Heard4(k)
      /\ st3.s.send_msg_seq = c + 3
  <2>1. /\ st2.s.ks_pub = <<"server", 1>> /\ st2.s.client_random = "client_random"
        /\ st2.s.server_random = "server_random"
    BY <1>3, <1>5, <1>6 DEF Says, Same, SessionFields
  <2>2. ServerKeyExchange(st2.s) =
          [share |-> <<"server", 1>>,
           sig |-> <<"client_random", "server_random", <<"server", 1>>>>]
    BY <2>1 DEF ServerKeyExchange
  <2>3. HandshakeMessage("SERVER_KEY_EXCHANGE", c + 2, ServerKeyExchange(st2.s)) = SKE(k)
    BY <2>2 DEF SKE
  <2>4. MessageOf(k, "server", c + 2) = SKE(k)
    BY Messages12
  <2>5. Speaking(k, "server", st2)
    BY <1>6 DEF Says
  <2>6. Says(k, "server", st2, st3)
    BY <1>6, <2>3, <2>4, <2>5, SayPlain
  <2> HIDE DEF st3
  <2>7. /\ st3.s.send_msg_seq = (c + 2) + 1
        /\ st3.s.transcript = Append(Heard3(k), Entry(k, SKE(k)))
    BY <1>6, <2>4, <2>6 DEF Says
  <2> QED
    BY <1>1, <2>6, <2>7 DEF Heard4
<1> HIDE DEF st3
<1>8. Says(k, "server", st3, a) /\ a.s.transcript = Heard5(k) /\ a.s.send_msg_seq = c + 4
  <2>1. HandshakeMessage("SERVER_HELLO_DONE", c + 3, Empty) = SHD(k)
    BY DEF SHD
  <2>2. MessageOf(k, "server", c + 3) = SHD(k)
    BY Messages12
  <2> HIDE DEF a
  <2>3. Speaking(k, "server", st3)
    BY <1>7 DEF Says
  <2>4. Says(k, "server", st3, a)
    BY <1>2, <1>7, <2>1, <2>2, <2>3, SayPlain
  <2>5. /\ a.s.send_msg_seq = (c + 3) + 1
        /\ a.s.transcript = Append(Heard4(k), Entry(k, SHD(k)))
    BY <1>7, <2>2, <2>4 DEF Says
  <2> QED
    BY <1>1, <2>4, <2>5 DEF Heard5
<1>9. /\ a.ok = TRUE /\ a.build = TRUE /\ a.done = st.done /\ a.got_shd = st.got_shd
      /\ a.pending = st.pending
  <2> HIDE DEF a
  <2>1. /\ a.ok = u.ok /\ a.build = u.build /\ a.done = u.done /\ a.got_shd = u.got_shd
        /\ a.pending = u.pending
    BY <1>5, <1>6, <1>7, <1>8 DEF Says, SameStep, StepFields
  <2> QED
    BY <1>3, <2>1 DEF SameStep, StepFields
<1>10. Collected(a, t)
  <2>1. IsStep(a)
    BY <1>8 DEF Says, Speaking
  <2>2. st.s.recv_msg_seq \in Nat /\ m.mseq = st.s.recv_msg_seq
    BY <1>1 DEF ServerAt12, CH, HandshakeMessage
  <2> QED
    BY <1>9, <2>1, <2>2, CollectNext
<1> HIDE DEF a
<1>11. Same(u.s, t.s, {"send_seq", "send_msg_seq", "transcript", "recv_msg_seq"})
  BY <1>5, <1>6, <1>7, <1>8, <1>10 DEF Says, Same, Collected
<1>12. /\ t.s.send_msg_seq = c + 4 /\ t.s.transcript = Heard5(k) /\ t.s.recv_msg_seq = c + 1
  <2>1. t.s.send_msg_seq = a.s.send_msg_seq /\ t.s.transcript = a.s.transcript
    BY <1>10 DEF Collected, Same, SessionFields
  <2>2. a.s.recv_msg_seq = u.s.recv_msg_seq
    <3>1. Same(u.s, a.s, {"send_seq", "send_msg_seq", "transcript"})
      BY <1>5, <1>6, <1>7, <1>8 DEF Says, Same
    <3> QED
      BY <3>1 DEF Same, SessionFields
  <2> QED
    BY <1>4, <1>8, <1>10, <2>1, <2>2 DEF Collected
<1>13. /\ t.s.client_random = "client_random" /\ t.s.server_random = "server_random"
       /\ t.s.cipher_suite = Suite(k) /\ t.s.ks_pub = <<"server", 1>>
       /\ t.s.role = st.s.role /\ t.s.ver = st.s.ver /\ t.s.require_cookie = st.s.require_cookie
       /\ t.s.app_keys = st.s.app_keys /\ t.s.handshake_done = st.s.handshake_done
       /\ t.s.last_sent = st.s.last_sent
  BY <1>3, <1>11 DEF Same, SessionFields
<1>14. /\ IsStep(t) /\ t.response = a.response /\ t.build = TRUE /\ t.done = st.done
       /\ t.ok = TRUE /\ t.got_shd = st.got_shd /\ t.pending = st.pending
  BY <1>9, <1>10 DEF Collected, SameStep, StepFields
<1>15. Own(k, "server", t.s)
  BY <1>1, <1>13, <1>14 DEF Own, IsStep
<1>16. ServerAt12(k, t.s, 1, 0)
  BY <1>1, <1>12, <1>13 DEF ServerAt12
<1>17. At(k, "server", t.s, 1, 0)
  BY <1>15, <1>16 DEF At
<1>18. t.s.handshake_done = FALSE
  BY <1>16 DEF ServerAt12
<1>19. Answers(k, "server", t)
  BY <1>8, <1>12, <1>14 DEF Answers, Says, Speaking, NoAck, AckOnce
<1> QED
  BY <1>13, <1>14, <1>17, <1>18, <1>19 DEF Reaches

\* ServerHello to Finished, 1.3.
LEMMA ServerFlight13 ==
  ASSUME NEW k \in Environments, k.ver = 13, k.usable = TRUE, NEW st, IsStep(st), st.ok = TRUE,
         At(k, "server", st.s, 0, 0), NEW m, m = CH(k),
         NEW t, t = collect_message(st, m, InputOf(k))
  PROVE  Reaches(k, "server", st, t, 1) /\ Answers(k, "server", t)
<1> DEFINE a == process(st, m, InputOf(k))
           u == Accepted(k, st, m)
           sh == ServerHello(u.s)
           s3 == transcript_add(u.s, Message(u.s, "SERVER_HELLO", sh))
           s4 == ecdh_derive(s3, <<"client", 1>>)
           u0 == [u EXCEPT !.s = s4]
           st1 == new_epoch(u0, 2)
           st2 == send_plain(st1, "SERVER_HELLO", sh)
           st3 == add_protected(st2, "ENCRYPTED_EXTENSIONS", EncryptedExtensions)
           st4 == add_protected(st3, "CERTIFICATE", Certificate)
           st5 == add_protected(st4, "CERTIFICATE_VERIFY", CertificateVerify(st4.s))
           fin == [mac |-> Mac(st5.s, "server_finished")]
           st6 == add_protected(st5, "FINISHED", fin)
           s7 == dtls13_derive_application(st6.s)
<1>1. /\ Own(k, "server", st.s) /\ ServerAt13(k, st.s, 0, 0) /\ Cookies(k) = 0
  BY EnvironmentFacts, 12 # 13 DEF At
<1>2. a = [st6 EXCEPT !.s = s7]
  <2>1. a = server_flight13(u, <<"client", 1>>)
    BY <1>1, ServerTakesHello
  <2> HIDE DEF a, u
  <2> QED
    BY <2>1, Zenon DEF server_flight13
<1>3. /\ Speaking(k, "server", u) /\ SameStep(st, u, {"s", "response", "build"})
      /\ Same(st.s, u.s, {"transcript", "phase", "client_random", "cipher_suite",
                          "server_random", "ks_pub"})
      /\ u.s.transcript = Heard1(k) /\ u.s.client_random = "client_random"
      /\ u.s.server_random = "server_random" /\ u.s.cipher_suite = Suite(k)
      /\ u.s.ks_pub = <<"server", 1>> /\ u.build = TRUE
  <2>1. /\ st.s.send_msg_seq \in Nat /\ st.s.cipher_suite = k.suite["server"]
        /\ st.s.transcript = <<>> /\ st.s.ks_pub = <<"server", 0>>
    BY <1>1 DEF ServerAt13
  <2>2. LastHello(k).random = "client_random"
    BY <1>1, CookieOfHellos
  <2> QED
    BY <1>1, <2>1, <2>2, HelloTaken
<1> HIDE DEF u
<1>4. /\ u.s.send_msg_seq = 0 /\ u.s.ver = 13 /\ u.s.recv_msg_seq = 0 /\ IsSession(u.s)
  BY <1>1, <1>3 DEF ServerAt13, Own, Same, SessionFields, Speaking, IsStep
<1>5. /\ sh = [random |-> "server_random", suite |-> Suite(k), share |-> ShareOf(k, "server")]
      /\ HandshakeMessage("SERVER_HELLO", 0, sh) = SH(k)
      /\ Message(u.s, "SERVER_HELLO", sh) = SH(k)
  <2>1. sh = [random |-> "server_random", suite |-> Suite(k), share |-> ShareOf(k, "server")]
    BY <1>3, <1>4 DEF ServerHello, KeyShare, ShareOf
  <2> HIDE DEF sh
  <2>2. HandshakeMessage("SERVER_HELLO", 0, sh) = SH(k)
    BY <1>1, <2>1 DEF SH
  <2>3. Message(u.s, "SERVER_HELLO", sh) = HandshakeMessage("SERVER_HELLO", 0, sh)
    BY <1>4 DEF Message, HandshakeMessage
  <2> QED
    BY <2>1, <2>2, <2>3
<1> HIDE DEF sh
<1>6. IsSession(s3) /\ Same(u.s, s3, {"transcript"}) /\ s3.transcript = Heard2(k)
  <2> DEFINE y == Message(u.s, "SERVER_HELLO", sh)
  <2>1. y = SH(k)
    BY <1>5
  <2> HIDE DEF y
  <2>2. /\ IsSession(transcript_add(u.s, y)) /\ Same(u.s, transcript_add(u.s, y), {"transcript"})
        /\ transcript_add(u.s, y).transcript = Append(u.s.transcript, Entry(k, y))
    BY <1>4, TranscriptAddFields
  <2> QED
    BY <1>3, <2>1, <2>2 DEF Heard2, y
<1> HIDE DEF s3
<1>7. IsSession(s4) /\ Same(s3, s4, {"keys"}) /\ s4.keys = Keys13(k)
  <2>1. s3.ver = 13 /\ s3.ks_pub = <<"server", 1>>
    BY <1>3, <1>4, <1>6 DEF Same, SessionFields
  <2>2. /\ IsSession(s4) /\ Same(s3, s4, {"keys"})
        /\ s4.keys = <<{s3.ks_pub, <<"client", 1>>},
                       IF s3.ver = 12
                       THEN <<s3.client_random, s3.server_random, s3.cipher_suite>>
                       ELSE s3.transcript>>
    BY <1>6, DeriveFields
  <2> HIDE DEF s4
  <2>3. {<<"server", 1>>, <<"client", 1>>} = {<<"client", 1>>, <<"server", 1>>}
    OBVIOUS
  <2> QED
    BY <1>6, <2>1, <2>2, <2>3 DEF Keys13
<1> HIDE DEF s4
<1>8. IsStep(u0) /\ u0.s = s4 /\ SameStep(u, u0, {"s"})
  BY <1>3, <1>7, NewSessionOfStep DEF Speaking
<1> HIDE DEF u0
<1>9. /\ IsStep(st1) /\ SameStep(u0, st1, {"s"}) /\ Same(u0.s, st1.s, {"send_epoch", "send_seq"})
      /\ st1.s.send_epoch = 2 /\ st1.s.send_seq = 0
  BY <1>8, NewEpochFields
<1> HIDE DEF st1
<1>10. /\ Same(u.s, st1.s, {"transcript", "keys", "send_epoch", "send_seq"})
       /\ SameStep(u, st1, {"s"})
       /\ st1.s.transcript = Heard2(k) /\ st1.s.keys = Keys13(k)
       /\ st1.s.send_msg_seq = 0 /\ st1.s.ver = k.ver /\ st1.response = u.response
  <2>1. Same(u.s, st1.s, {"transcript", "keys", "send_epoch", "send_seq"})
    BY <1>6, <1>7, <1>8, <1>9 DEF Same
  <2>2. st1.s.transcript = s3.transcript /\ st1.s.keys = s4.keys
    BY <1>7, <1>8, <1>9 DEF Same, SessionFields
  <2>3. st1.s.send_msg_seq = u.s.send_msg_seq /\ st1.s.ver = u.s.ver
    BY <2>1 DEF Same, SessionFields
  <2>4. SameStep(u, st1, {"s"}) /\ st1.response = u.response
    BY <1>8, <1>9 DEF SameStep, StepFields
  <2> QED
    BY <1>4, <1>6, <1>7, <2>1, <2>2, <2>3, <2>4
<1>11. /\ Speaking(k, "server", st2) /\ SameStep(st1, st2, {"s", "response"})
       /\ Same(st1.s, st2.s, {"send_seq", "send_msg_seq"})
       /\ st2.s.send_msg_seq = 1 /\ st2.s.send_seq = 1
  <2> DEFINE y == HandshakeMessage("SERVER_HELLO", st1.s.send_msg_seq, sh)
             r == Record("handshake", 0, st1.s.send_seq, NoKey, y)
  <2>1. Emits(st1, st2, {"send_seq", "send_msg_seq"}, r) /\ st2.s.send_msg_seq = st1.s.send_msg_seq + 1
    BY <1>9, SendPlainFields
  <2>2. st2.s.send_seq = st1.s.send_seq + 1
    BY <1>9 DEF send_plain, plaintext_record, IsStep, StepFields, IsSession, SessionFields
  <2> HIDE DEF st2
  <2>3. y = MessageOf(k, "server", 0) /\ y.mseq = 0
    BY <1>5, <1>10, Messages13 DEF HandshakeMessage
  <2> HIDE DEF y
  <2>4. 0 \in 0 .. 1 - 1 /\ 1 \in Nat /\ 0 \in Nat /\ 0 <= 1
    OBVIOUS
  <2>5. HandshakeRecord(k, "server", 1, r) /\ r.ct # "ack"
    BY <2>3, <2>4, PlainMessageRecord
  <2>6. Flight(k, "server", 0, u.response) /\ NoAck(Range(u.response))
    BY <1>3, <1>4 DEF Speaking
  <2> HIDE DEF r
  <2>7. st2.response = Append(u.response, r)
    BY <1>10, <2>1 DEF Emits
  <2>8. Flight(k, "server", 1, st2.response) /\ NoAck(Range(st2.response))
    BY <2>4, <2>5, <2>6, <2>7, FlightGrows
  <2>9. /\ IsStep(st2) /\ SameStep(st1, st2, {"s", "response"})
        /\ Same(st1.s, st2.s, {"send_seq", "send_msg_seq"})
    BY <2>1 DEF Emits
  <2>10. st2.s.ver = k.ver
    BY <1>10, <2>9 DEF Same, SessionFields
  <2>11. st2.s.send_msg_seq = 1 /\ st2.s.send_seq = 1
    BY <1>9, <1>10, <2>1, <2>2
  <2> QED
    BY <2>8, <2>9, <2>10, <2>11 DEF Speaking
<1> HIDE DEF st2
<1>12. st2.s.transcript = Heard2(k) /\ st2.s.send_epoch = 2
  BY <1>9, <1>10, <1>11 DEF Same, SessionFields
<1>13. /\ 1 \in Secret(k, "server") /\ 2 \in Secret(k, "server") /\ 3 \in Secret(k, "server")
       /\ 4 \in Secret(k, "server")
  BY 12 # 13 DEF Secret
<1>14. \A i : SecretNumber(k, "server", i) = <<2, i>>
  BY 12 # 13 DEF SecretNumber
<1>15. /\ Says(k, "server", st2, st3) /\ st3.s.transcript = Read3(k) /\ st3.s.send_epoch = 2
       /\ st3.s.send_msg_seq = 2 /\ st3.s.send_seq = 2
  <2>1. HandshakeMessage("ENCRYPTED_EXTENSIONS", 1, EncryptedExtensions) = EE(k)
    BY DEF EE, EncryptedExtensions
  <2>2. MessageOf(k, "server", 1) = EE(k)
    BY Messages13
  <2>3. Speaking(k, "server", st2)
    BY <1>11 DEF Says
  <2>4. Says(k, "server", st2, st3) /\ st3.s.send_seq = st2.s.send_seq + 1
    BY <1>11, <1>12, <1>13, <1>14, <2>1, <2>2, <2>3, SaySecret
  <2> HIDE DEF st3
  <2>5. st3.s.send_epoch = st2.s.send_epoch
    BY <2>4 DEF Says, Same, SessionFields
  <2>6. /\ st3.s.send_msg_seq = 1 + 1
        /\ st3.s.transcript = Append(st2.s.transcript, Entry(k, EE(k)))
    BY <1>11, <1>12, <2>2, <2>4 DEF Says
  <2>7. st3.s.transcript = Read3(k)
    BY <1>11, <1>12, <2>6 DEF Read3
  <2> QED
    BY <1>11, <1>12, <2>4, <2>5, <2>6, <2>7
<1> HIDE DEF st3
<1>16. /\ Says(k, "server", st3, st4) /\ st4.s.transcript = Read4(k) /\ st4.s.send_epoch = 2
       /\ st4.s.send_msg_seq = 3 /\ st4.s.send_seq = 3
  <2>1. HandshakeMessage("CERTIFICATE", 2, Certificate) = Crt13(k)
    BY DEF Crt13, Certificate
  <2>2. MessageOf(k, "server", 2) = Crt13(k)
    BY Messages13
  <2>3. Speaking(k, "server", st3)
    BY <1>15 DEF Says
  <2>4. Says(k, "server", st3, st4) /\ st4.s.send_seq = st3.s.send_seq + 1
    BY <1>15, <1>13, <1>14, <2>1, <2>2, <2>3, SaySecret
  <2> HIDE DEF st4
  <2>5. st4.s.send_epoch = st3.s.send_epoch
    BY <2>4 DEF Says, Same, SessionFields
  <2>6. /\ st4.s.send_msg_seq = 2 + 1
        /\ st4.s.transcript = Append(st3.s.transcript, Entry(k, Crt13(k)))
    BY <1>15, <2>2, <2>4 DEF Says
  <2>7. st4.s.transcript = Read4(k)
    BY <1>15, <2>6 DEF Read4
  <2> QED
    BY <1>15, <2>4, <2>5, <2>6, <2>7
<1> HIDE DEF st4
<1>17. /\ Says(k, "server", st4, st5) /\ st5.s.transcript = Read5(k) /\ st5.s.send_epoch = 2
       /\ st5.s.send_msg_seq = 4 /\ st5.s.send_seq = 4
  <2>0. CertificateVerify(st4.s) = [sig |-> Read4(k)]
    BY <1>16 DEF CertificateVerify
  <2>1. HandshakeMessage("CERTIFICATE_VERIFY", 3, CertificateVerify(st4.s)) = CV(k)
    BY <2>0 DEF CV
  <2>2. MessageOf(k, "server", 3) = CV(k)
    BY Messages13
  <2>3. Speaking(k, "server", st4)
    BY <1>16 DEF Says
  <2>4. Says(k, "server", st4, st5) /\ st5.s.send_seq = st4.s.send_seq + 1
    BY <1>16, <1>13, <1>14, <2>1, <2>2, <2>3, SaySecret
  <2> HIDE DEF st5
  <2>5. st5.s.send_epoch = st4.s.send_epoch
    BY <2>4 DEF Says, Same, SessionFields
  <2>6. /\ st5.s.send_msg_seq = 3 + 1
        /\ st5.s.transcript = Append(st4.s.transcript, Entry(k, CV(k)))
    BY <1>16, <2>2, <2>4 DEF Says
  <2>7. st5.s.transcript = Read5(k)
    BY <1>16, <2>6 DEF Read5
  <2> QED
    BY <1>16, <2>4, <2>5, <2>6, <2>7
<1> HIDE DEF st5
<1>18. /\ Says(k, "server", st5, st6) /\ st6.s.transcript = Read6(k) /\ st6.s.send_epoch = 2
       /\ st6.s.send_msg_seq = 5 /\ st6.s.send_seq = 5
  <2>0. fin = [mac |-> <<"server_finished", Keys13(k), Read5(k)>>]
    <3>1. st5.s.keys = st1.s.keys
      BY <1>11, <1>15, <1>16, <1>17 DEF Says, Same, SessionFields
    <3> QED
      BY <1>10, <1>17, <3>1 DEF Mac
  <2> HIDE DEF fin
  <2>1. HandshakeMessage("FINISHED", 4, fin) = ServerFinished13(k)
    BY <2>0 DEF ServerFinished13
  <2>2. MessageOf(k, "server", 4) = ServerFinished13(k)
    BY Messages13
  <2>3. Speaking(k, "server", st5)
    BY <1>17 DEF Says
  <2>4. Says(k, "server", st5, st6) /\ st6.s.send_seq = st5.s.send_seq + 1
    BY <1>17, <1>13, <1>14, <2>1, <2>2, <2>3, SaySecret
  <2> HIDE DEF st6
  <2>5. st6.s.send_epoch = st5.s.send_epoch
    BY <2>4 DEF Says, Same, SessionFields
  <2>6. /\ st6.s.send_msg_seq = 4 + 1
        /\ st6.s.transcript = Append(st5.s.transcript, Entry(k, ServerFinished13(k)))
    BY <1>17, <2>2, <2>4 DEF Says
  <2>7. st6.s.transcript = Read6(k)
    BY <1>17, <2>6 DEF Read6
  <2> QED
    BY <1>17, <2>4, <2>5, <2>6, <2>7
<1> HIDE DEF st6
<1>19. Same(st1.s, st6.s, {"send_seq", "send_msg_seq", "transcript"})
  BY <1>11, <1>15, <1>16, <1>17, <1>18 DEF Says, Same
<1>20. IsSession(s7) /\ Same(st6.s, s7, {"app_keys"}) /\ s7.app_keys = AppKeys(k)
  <2>1. st6.s.keys = Keys13(k)
    BY <1>10, <1>19 DEF Same, SessionFields
  <2>2. /\ IsSession(s7) /\ Same(st6.s, s7, {"app_keys"})
        /\ s7.app_keys = <<st6.s.keys[1], st6.s.transcript>>
    BY <1>18, DeriveApplicationFields DEF Says, Speaking, IsStep
  <2> HIDE DEF s7
  <2> QED
    BY <1>18, <2>1, <2>2 DEF AppKeys
<1> HIDE DEF s7
<1>21. IsStep(a) /\ a.s = s7 /\ SameStep(st6, a, {"s"})
  BY <1>2, <1>18, <1>20, NewSessionOfStep DEF Says, Speaking
<1> HIDE DEF a
<1>22. /\ a.ok = TRUE /\ a.build = TRUE /\ a.done = st.done /\ a.got_shd = st.got_shd
       /\ a.response = st6.response /\ a.pending = st.pending
  <2>1. /\ a.ok = st2.ok /\ a.build = st2.build /\ a.done = st2.done /\ a.got_shd = st2.got_shd
        /\ a.response = st6.response /\ a.pending = st2.pending
    BY <1>15, <1>16, <1>17, <1>18, <1>21 DEF Says, SameStep, StepFields
  <2>2. /\ st2.ok = u.ok /\ st2.build = u.build /\ st2.done = u.done /\ st2.got_shd = u.got_shd
        /\ st2.pending = u.pending
    BY <1>10, <1>11 DEF SameStep, StepFields
  <2>3. u.ok = st.ok /\ u.done = st.done /\ u.got_shd = st.got_shd /\ u.pending = st.pending
    BY <1>3 DEF SameStep, StepFields
  <2> QED
    BY <1>3, <2>1, <2>2, <2>3
<1>23. Collected(a, t)
  <2>1. st.s.recv_msg_seq \in Nat /\ m.mseq = st.s.recv_msg_seq
    BY <1>1 DEF ServerAt13, CH, HandshakeMessage
  <2> QED
    BY <1>21, <1>22, <2>1, CollectNext DEF a
<1>24. /\ t.s.send_msg_seq = 5 /\ t.s.transcript = Read6(k) /\ t.s.recv_msg_seq = 1
       /\ t.s.app_keys = AppKeys(k) /\ t.s.send_epoch = 2 /\ t.s.send_seq = 5
       /\ t.s.keys = Keys13(k)
  <2>1. /\ t.s.send_msg_seq = st6.s.send_msg_seq /\ t.s.transcript = st6.s.transcript
        /\ t.s.app_keys = s7.app_keys /\ t.s.send_epoch = st6.s.send_epoch
        /\ t.s.send_seq = st6.s.send_seq /\ t.s.keys = st6.s.keys
    BY <1>20, <1>21, <1>23 DEF Collected, Same, SessionFields
  <2>2. st6.s.keys = Keys13(k) /\ st6.s.recv_msg_seq = st1.s.recv_msg_seq
    BY <1>10, <1>19 DEF Same, SessionFields
  <2>3. st1.s.recv_msg_seq = u.s.recv_msg_seq
    BY <1>10 DEF Same, SessionFields
  <2>4. a.s.recv_msg_seq = st6.s.recv_msg_seq
    BY <1>20, <1>21 DEF Same, SessionFields
  <2> QED
    BY <1>4, <1>18, <1>20, <1>23, <2>1, <2>2, <2>3, <2>4 DEF Collected
<1>25. /\ t.s.cipher_suite = Suite(k)
       /\ t.s.role = st.s.role /\ t.s.ver = st.s.ver /\ t.s.require_cookie = st.s.require_cookie
       /\ t.s.handshake_done = st.s.handshake_done /\ t.s.last_sent = st.s.last_sent
  <2>1. Same(u.s, t.s, {"transcript", "keys", "send_epoch", "send_seq", "send_msg_seq", "app_keys",
                        "recv_msg_seq"})
    BY <1>10, <1>19, <1>20, <1>21, <1>23 DEF Same, Collected
  <2> QED
    BY <1>3, <2>1 DEF Same, SessionFields
<1>26. /\ IsStep(t) /\ t.response = st6.response /\ t.build = TRUE /\ t.done = st.done
       /\ t.ok = TRUE /\ t.got_shd = st.got_shd /\ t.pending = st.pending
  BY <1>22, <1>23 DEF Collected, SameStep, StepFields
<1>27. Own(k, "server", t.s)
  BY <1>1, <1>25, <1>26 DEF Own, IsStep
<1>28. ServerAt13(k, t.s, 1, 0)
  BY <1>1, <1>24, <1>25 DEF ServerAt13
<1>29. At(k, "server", t.s, 1, 0)
  BY <1>27, <1>28, 12 # 13 DEF At
<1>30. t.s.handshake_done = FALSE
  BY <1>28 DEF ServerAt13
<1>31. Answers(k, "server", t)
  BY <1>18, <1>24, <1>26 DEF Answers, Says, Speaking, NoAck, AckOnce
<1> QED
  BY <1>25, <1>26, <1>29, <1>30, <1>31 DEF Reaches

\* ClientKeyExchange: the keys.
LEMMA ServerClientKeyExchange ==
  ASSUME NEW k \in Environments, k.ver = 12, NEW st, IsStep(st), st.ok = TRUE,
         At(k, "server", st.s, 1, 0),
         NEW m, m = CKE(k), NEW t, t = collect_message(st, m, InputOf(k))
  PROVE  Reaches(k, "server", st, t, 2) /\ Silent(st, t)
<1> DEFINE a == process(st, m, InputOf(k))
           s0 == ecdh_derive(st.s, m.data.share)
           s1 == transcript_add(s0, m)
<1>1. /\ m.type = "CLIENT_KEY_EXCHANGE" /\ m.mseq = Cookies(k) + 1
      /\ m.data.share = <<"client", 2>>
  BY DEF CKE, HandshakeMessage
<1>2. Own(k, "server", st.s) /\ ServerAt12(k, st.s, 1, 0) /\ Cookies(k) \in {0, 1} /\ k.trusted \in BOOLEAN
  BY EnvironmentFacts DEF At
<1>3. a = [st EXCEPT !.s = s1]
  <2>1. st.s.role = "server" /\ st.s.ver = 12
    BY <1>2 DEF Own
  <2>2. a = on_client_key_exchange(st, m)
    BY <1>1, <2>1, ServerHandles
  <2> HIDE DEF a
  <2> QED
    BY <2>1, <2>2 DEF on_client_key_exchange
<1>4. /\ IsSession(s0) /\ Same(st.s, s0, {"keys"}) /\ s0.ver = k.ver
      /\ s0.keys = Keys12(k)
  <2>1. /\ st.s.ver = 12 /\ st.s.ks_pub = <<"server", 1>> /\ st.s.client_random = "client_random"
        /\ st.s.server_random = "server_random" /\ st.s.cipher_suite = Suite(k) /\ IsSession(st.s)
    BY <1>2 DEF ServerAt12, Own
  <2>2. /\ IsSession(s0) /\ Same(st.s, s0, {"keys"})
        /\ s0.keys = <<{st.s.ks_pub, m.data.share},
                       IF st.s.ver = 12
                       THEN <<st.s.client_random, st.s.server_random, st.s.cipher_suite>>
                       ELSE st.s.transcript>>
    BY <2>1, DeriveFields
  <2> HIDE DEF s0
  <2>3. {<<"server", 1>>, <<"client", 2>>} = {<<"client", 2>>, <<"server", 1>>}
    OBVIOUS
  <2>4. s0.keys = Keys12(k)
    BY <1>1, <2>1, <2>2, <2>3 DEF Keys12
  <2>5. s0.ver = st.s.ver
    BY <2>2 DEF Same, SessionFields
  <2> QED
    BY <2>1, <2>2, <2>4, <2>5
<1>5. /\ IsStep(a) /\ SameStep(st, a, {"s"})
      /\ Same(st.s, a.s, {"keys", "transcript"})
      /\ a.s.keys = Keys12(k) /\ a.s.transcript = Heard6(k)
  <2> HIDE DEF s0
  <2>1. /\ IsSession(s1) /\ Same(s0, s1, {"transcript"})
        /\ s1.transcript = Append(s0.transcript, Entry(k, m))
    BY <1>4, TranscriptAddFields
  <2> HIDE DEF s1
  <2>2. IsStep(a) /\ a.s = s1 /\ SameStep(st, a, {"s"})
    BY <1>3, <2>1, NewSessionOfStep
  <2>3. s0.transcript = Heard5(k)
    BY <1>2, <1>4 DEF ServerAt12, Same, SessionFields
  <2> HIDE DEF a
  <2> QED
    BY <1>4, <2>1, <2>2, <2>3 DEF Same, SessionFields, Heard6
<1>6. st.s.recv_msg_seq \in Nat /\ m.mseq = st.s.recv_msg_seq
  BY <1>1, <1>2 DEF ServerAt12
<1>7. /\ IsStep(t) /\ SameStep(st, t, {"s"}) /\ Same(a.s, t.s, {"recv_msg_seq"})
      /\ t.s.recv_msg_seq = a.s.recv_msg_seq + 1
      /\ t.done = a.done /\ t.got_shd = a.got_shd
  <2> DEFINE X == {"s"}
  <2>1. "ok" \notin X /\ "s" \in X /\ SameStep(st, a, X)
    BY <1>5
  <2> HIDE DEF X
  <2>2. /\ IsStep(t) /\ SameStep(st, t, X) /\ Same(a.s, t.s, {"recv_msg_seq"})
        /\ t.s.recv_msg_seq = a.s.recv_msg_seq + 1
        /\ t.done = a.done /\ t.got_shd = a.got_shd
    BY <1>5, <1>6, <2>1, QuietCollect
  <2> QED
    BY <2>2 DEF X
<1> HIDE DEF a
<1>8. /\ t.s.recv_msg_seq = st.s.recv_msg_seq + 1 /\ t.s.role = st.s.role
      /\ t.s.ver = st.s.ver /\ t.s.require_cookie = st.s.require_cookie
      /\ t.s.send_msg_seq = st.s.send_msg_seq /\ t.s.client_random = st.s.client_random
      /\ t.s.app_keys = st.s.app_keys /\ t.s.ks_pub = st.s.ks_pub
      /\ t.s.transcript = a.s.transcript /\ t.s.server_random = st.s.server_random
      /\ t.s.cipher_suite = st.s.cipher_suite
      /\ t.s.have_server_cert = st.s.have_server_cert /\ t.s.keys = a.s.keys
      /\ t.s.send_epoch = st.s.send_epoch /\ t.s.send_seq = st.s.send_seq
      /\ t.s.handshake_done = st.s.handshake_done /\ t.s.last_sent = st.s.last_sent
  BY <1>5, <1>7 DEF Same, SessionFields
<1>9. At(k, "server", t.s, 2, 0)
  <2>1. Own(k, "server", t.s)
    BY <1>2, <1>7, <1>8 DEF Own, IsStep
  <2>2. ServerAt12(k, t.s, 2, 0)
    BY <1>1, <1>2, <1>5, <1>8 DEF ServerAt12
  <2> QED
    BY <2>1, <2>2 DEF At
<1> QED
  BY <1>2, <1>5, <1>7, <1>8, <1>9 DEF Reaches, Silent, SameStep, StepFields, ServerAt12

\* The client's Finished, 1.2.
LEMMA ServerFinishes12 ==
  ASSUME NEW k \in Environments, k.ver = 12, NEW st, IsStep(st), st.ok = TRUE,
         At(k, "server", st.s, 2, 0),
         NEW m, m = ClientFinished12(k), NEW t, t = collect_message(st, m, InputOf(k))
  PROVE  Reaches(k, "server", st, t, 3) /\ Answers(k, "server", t)
<1> DEFINE a == process(st, m, InputOf(k))
           s1 == transcript_add(st.s, m)
           st1 == [st EXCEPT !.s = s1]
           u == start_response(st1)
           ccs == plaintext_record(u, "ccs", Empty)
           v == new_epoch(ccs, 1)
           fin == [mac |-> Mac(v.s, "server_finished")]
           w == add_protected(v, "FINISHED", fin)
<1>1. /\ m.type = "FINISHED" /\ m.mseq = Cookies(k) + 2
      /\ m.data.mac = <<"client_finished", Keys12(k), Heard6(k)>>
  BY DEF ClientFinished12, HandshakeMessage
<1>2. Own(k, "server", st.s) /\ ServerAt12(k, st.s, 2, 0) /\ Cookies(k) \in {0, 1}
  BY EnvironmentFacts, 12 # 13 DEF At
<1>3. a = server_done(w)
  <2>1. st.s.role = "server" /\ st.s.ver = 12
    BY <1>2 DEF Own
  <2>2. a = on_client_finished(st, m)
    BY <1>1, <2>1, ServerHandles
  <2>3. m.data.mac = Mac(st.s, "client_finished")
    BY <1>1, <1>2 DEF ServerAt12, Mac
  <2>4. on_client_finished(st, m) = server_done(server_last_flight(u))
    <3> HIDE DEF u
    <3>1. u = start_response([st EXCEPT !.s = transcript_add(@, m)])
      BY DEF u
    <3> QED
      BY <2>3, <3>1 DEF on_client_finished
  <2>5. u.s.ver = 12
    BY <1>2 DEF start_response, transcript_add, Own, IsSession, SessionFields
  <2>6. w = server_last_flight(u)
    <3> HIDE DEF u
    <3> QED
      BY <2>5, 12 # 13 DEF server_last_flight
  <2> HIDE DEF a, w
  <2> QED
    BY <2>2, <2>4, <2>6
<1>4. /\ IsSession(s1) /\ Same(st.s, s1, {"transcript"}) /\ s1.transcript = Heard7(k)
  <2>1. /\ IsSession(s1) /\ Same(st.s, s1, {"transcript"})
        /\ s1.transcript = Append(st.s.transcript, Entry(k, m))
    BY <1>2, TranscriptAddFields DEF Own
  <2> HIDE DEF s1
  <2> QED
    BY <1>2, <2>1 DEF ServerAt12, Heard7
<1> HIDE DEF s1
<1>5. IsStep(st1) /\ st1.s = s1 /\ SameStep(st, st1, {"s"})
  BY <1>4, NewSessionOfStep
<1> HIDE DEF st1
<1>6. /\ Speaking(k, "server", u) /\ SameStep(st1, u, {"response", "build"}) /\ u.s = s1
      /\ u.build = TRUE
  <2>1. s1.ver = k.ver /\ s1.send_msg_seq \in Nat
    BY <1>2, <1>4 DEF Own, ServerAt12, Same, SessionFields
  <2> QED
    BY <1>5, <2>1, SpeakStart
<1> HIDE DEF u
<1>7. /\ Speaking(k, "server", ccs) /\ SameStep(u, ccs, {"s", "response"})
      /\ Same(u.s, ccs.s, {"send_seq"})
  BY <1>6, SpeakCcs
<1> HIDE DEF ccs
<1>8. /\ Speaking(k, "server", v) /\ SameStep(ccs, v, {"s"})
      /\ Same(ccs.s, v.s, {"send_epoch", "send_seq"})
      /\ v.s.send_epoch = 1 /\ v.s.send_seq = 0
  BY <1>7, SpeakEpoch
<1> HIDE DEF v
<1>9. /\ v.s.send_msg_seq = Cookies(k) + 4 /\ v.s.transcript = Heard7(k)
      /\ v.s.keys = Keys12(k)
  <2>1. s1.send_msg_seq = Cookies(k) + 4 /\ s1.keys = Keys12(k)
    BY <1>2, <1>4 DEF ServerAt12, Same, SessionFields
  <2> QED
    BY <1>4, <1>6, <1>7, <1>8, <2>1 DEF Same, SessionFields
<1>10. /\ Says(k, "server", v, w) /\ w.s.send_seq = 1 /\ w.s.transcript = Heard8(k)
       /\ w.s.send_msg_seq = Cookies(k) + 5 /\ w.s.send_epoch = 1
  <2>1. fin = [mac |-> <<"server_finished", Keys12(k), Heard7(k)>>]
    BY <1>9 DEF Mac
  <2> HIDE DEF fin
  <2>2. HandshakeMessage("FINISHED", Cookies(k) + 4, fin) = ServerFinished12(k)
    BY <2>1 DEF ServerFinished12
  <2>3. MessageOf(k, "server", Cookies(k) + 4) = ServerFinished12(k)
    BY Messages12
  <2>4. /\ Cookies(k) + 4 \in Secret(k, "server")
        /\ <<1, 0>> = SecretNumber(k, "server", Cookies(k) + 4)
    BY DEF Secret, SecretNumber
  <2>5. Says(k, "server", v, w) /\ w.s.send_seq = v.s.send_seq + 1
    BY <1>8, <1>9, <2>2, <2>3, <2>4, SaySecret
  <2> HIDE DEF w
  <2>6. w.s.send_epoch = v.s.send_epoch
    BY <2>5 DEF Says, Same, SessionFields
  <2>7. /\ w.s.send_msg_seq = (Cookies(k) + 4) + 1
        /\ w.s.transcript = Append(Heard7(k), Entry(k, ServerFinished12(k)))
    BY <1>9, <2>3, <2>5 DEF Says
  <2> QED
    BY <1>2, <1>8, <2>5, <2>6, <2>7 DEF Heard8
<1> HIDE DEF w
<1>11. /\ IsStep(w) /\ SameStep(u, w, {"s", "response"})
       /\ Same(s1, w.s, {"send_epoch", "send_seq", "send_msg_seq", "transcript"})
       /\ Flight(k, "server", w.s.send_msg_seq, w.response) /\ AckOnce(Range(w.response))
  <2>1. /\ IsStep(w) /\ Flight(k, "server", w.s.send_msg_seq, w.response)
        /\ AckOnce(Range(w.response))
    BY <1>10 DEF Says, Speaking, NoAck, AckOnce
  <2>2. Same(s1, w.s, {"send_epoch", "send_seq", "send_msg_seq", "transcript"})
    BY <1>6, <1>7, <1>8, <1>10 DEF Says, Same
  <2>3. SameStep(u, w, {"s", "response"})
    BY <1>7, <1>8, <1>10 DEF Says, SameStep
  <2> QED
    BY <2>1, <2>2, <2>3
<1>12. /\ IsStep(a) /\ SameStep(w, a, {"s", "done"}) /\ a.done = TRUE
       /\ Same(w.s, a.s, {"handshake_done", "phase"}) /\ a.s.handshake_done = TRUE
  BY <1>3, <1>11, ServerDoneFields
<1> HIDE DEF a
<1>13. /\ a.ok = TRUE /\ a.build = TRUE /\ a.got_shd = st.got_shd /\ a.response = w.response
       /\ a.pending = st.pending
  <2>1. /\ a.ok = w.ok /\ a.build = w.build /\ a.got_shd = w.got_shd /\ a.response = w.response
        /\ a.pending = w.pending
    BY <1>12 DEF SameStep, StepFields
  <2>2. /\ w.ok = st.ok /\ w.build = u.build /\ w.got_shd = st.got_shd
        /\ w.pending = st.pending
    BY <1>5, <1>6, <1>11 DEF SameStep, StepFields
  <2> QED
    BY <1>6, <2>1, <2>2
<1>14. Collected(a, t)
  <2>1. st.s.recv_msg_seq \in Nat /\ m.mseq = st.s.recv_msg_seq
    BY <1>1, <1>2 DEF ServerAt12
  <2> QED
    BY <1>12, <1>13, <2>1, CollectNext DEF a
<1>15. /\ t.response = w.response /\ t.build = TRUE /\ t.done = TRUE /\ t.ok = TRUE
       /\ t.got_shd = st.got_shd /\ IsStep(t) /\ t.pending = st.pending
  BY <1>12, <1>13, <1>14 DEF Collected, SameStep, StepFields
<1>16. Same(st.s, t.s, {"send_epoch", "send_seq", "send_msg_seq", "transcript", "handshake_done",
                        "phase", "recv_msg_seq"})
  BY <1>4, <1>11, <1>12, <1>14 DEF Same, Collected
<1>17. /\ t.s.send_msg_seq = w.s.send_msg_seq /\ t.s.transcript = w.s.transcript
       /\ t.s.send_epoch = w.s.send_epoch /\ t.s.send_seq = w.s.send_seq
       /\ t.s.handshake_done = TRUE /\ a.s.recv_msg_seq = w.s.recv_msg_seq
       /\ t.s.recv_msg_seq = a.s.recv_msg_seq + 1
  BY <1>12, <1>14 DEF Collected, Same, SessionFields
<1>18. w.s.recv_msg_seq = st.s.recv_msg_seq
  BY <1>4, <1>11 DEF Same, SessionFields
<1>19. /\ t.s.role = st.s.role /\ t.s.ver = st.s.ver /\ t.s.require_cookie = st.s.require_cookie
       /\ t.s.app_keys = st.s.app_keys /\ t.s.client_random = st.s.client_random
       /\ t.s.server_random = st.s.server_random /\ t.s.cipher_suite = st.s.cipher_suite
       /\ t.s.ks_pub = st.s.ks_pub /\ t.s.keys = st.s.keys /\ t.s.last_sent = st.s.last_sent
  BY <1>16 DEF Same, SessionFields
<1>20. Own(k, "server", t.s)
  BY <1>2, <1>15, <1>19 DEF Own, IsStep
<1>21. ServerAt12(k, t.s, 3, 0)
  BY <1>2, <1>10, <1>17, <1>18, <1>19 DEF ServerAt12
<1>22. At(k, "server", t.s, 3, 0)
  BY <1>20, <1>21, 12 # 13 DEF At
<1>23. Answers(k, "server", t)
  BY <1>11, <1>15, <1>17 DEF Answers
<1> QED
  BY <1>15, <1>17, <1>19, <1>22, <1>23 DEF Reaches

\* The client's Finished, 1.3.
LEMMA ServerFinishes13 ==
  ASSUME NEW k \in Environments, k.ver = 13, NEW st, IsStep(st), st.ok = TRUE,
         At(k, "server", st.s, 1, 0),
         NEW m, m = ClientFinished13(k), NEW t, t = collect_message(st, m, InputOf(k))
  PROVE  Reaches(k, "server", st, t, 2) /\ Answers(k, "server", t)
<1> DEFINE a == process(st, m, InputOf(k))
           s1 == transcript_add(st.s, m)
           st1 == [st EXCEPT !.s = s1]
           u == start_response(st1)
           v == protect(u, "ack", Ack(u.s))
           w == new_epoch(v, 3)
<1>1. /\ m.type = "FINISHED" /\ m.mseq = 1
      /\ m.data.mac = <<"client_finished", Keys13(k), Read6(k)>>
  BY DEF ClientFinished13, HandshakeMessage
<1>2. Own(k, "server", st.s) /\ ServerAt13(k, st.s, 1, 0) /\ Cookies(k) \in {0, 1}
  BY EnvironmentFacts, 12 # 13 DEF At
<1>3. a = server_done(w)
  <2>1. st.s.role = "server" /\ st.s.ver = 13
    BY <1>2 DEF Own
  <2>2. a = on_client_finished(st, m)
    BY <1>1, <2>1, ServerHandles
  <2>3. m.data.mac = Mac(st.s, "client_finished")
    BY <1>1, <1>2 DEF ServerAt13, Mac
  <2>4. on_client_finished(st, m) = server_done(server_last_flight(u))
    <3> HIDE DEF u
    <3>1. u = start_response([st EXCEPT !.s = transcript_add(@, m)])
      BY DEF u
    <3> QED
      BY <2>3, <3>1 DEF on_client_finished
  <2>5. u.s.ver = 13
    BY <1>2 DEF start_response, transcript_add, Own, IsSession, SessionFields
  <2>6. w = server_last_flight(u)
    <3> HIDE DEF u
    <3> QED
      BY <2>5, 12 # 13 DEF server_last_flight
  <2> HIDE DEF a, w
  <2> QED
    BY <2>2, <2>4, <2>6
<1>4. /\ IsSession(s1) /\ Same(st.s, s1, {"transcript"}) /\ s1.transcript = Read7(k)
  <2>1. /\ IsSession(s1) /\ Same(st.s, s1, {"transcript"})
        /\ s1.transcript = Append(st.s.transcript, Entry(k, m))
    BY <1>2, TranscriptAddFields DEF Own
  <2> HIDE DEF s1
  <2> QED
    BY <1>2, <2>1 DEF ServerAt13, Read7
<1> HIDE DEF s1
<1>5. IsStep(st1) /\ st1.s = s1 /\ SameStep(st, st1, {"s"})
  BY <1>4, NewSessionOfStep
<1> HIDE DEF st1
<1>6. /\ Speaking(k, "server", u) /\ SameStep(st1, u, {"response", "build"}) /\ u.s = s1
      /\ u.build = TRUE
  <2>1. s1.ver = k.ver /\ s1.send_msg_seq \in Nat
    BY <1>2, <1>4 DEF Own, ServerAt13, Same, SessionFields
  <2> QED
    BY <1>5, <2>1, SpeakStart
<1> HIDE DEF u
<1>7. /\ IsStep(v) /\ SameStep(u, v, {"s", "response"}) /\ Same(u.s, v.s, {"send_seq"})
      /\ Flight(k, "server", v.s.send_msg_seq, v.response) /\ AckOnce(Range(v.response))
  <2>1. s1.send_epoch = 2 /\ s1.send_seq = 5
    BY <1>2, <1>4 DEF ServerAt13, Same, SessionFields
  <2>2. <<u.s.send_epoch, u.s.send_seq>> = AckNumber("server")
    BY <1>6, <2>1 DEF AckNumber
  <2> QED
    BY <1>6, <2>2, SpeakAck
<1> HIDE DEF v
<1>8. /\ IsStep(w) /\ SameStep(v, w, {"s"}) /\ Same(v.s, w.s, {"send_epoch", "send_seq"})
      /\ w.s.send_epoch = 3 /\ w.s.send_seq = 0
  BY <1>7, NewEpochFields
<1> HIDE DEF w
<1>10. w.s.transcript = Read7(k) /\ w.s.send_msg_seq = 5
  <2>1. s1.send_msg_seq = 5
    BY <1>2, <1>4 DEF ServerAt13, Same, SessionFields
  <2> QED
    BY <1>4, <1>6, <1>7, <1>8, <2>1 DEF Same, SessionFields
<1>11. /\ IsStep(w) /\ SameStep(u, w, {"s", "response"})
       /\ Same(s1, w.s, {"send_epoch", "send_seq", "send_msg_seq", "transcript"})
       /\ Flight(k, "server", w.s.send_msg_seq, w.response) /\ AckOnce(Range(w.response))
  <2>1. w.s.send_msg_seq = v.s.send_msg_seq /\ w.response = v.response
    BY <1>8 DEF Same, SameStep, SessionFields, StepFields
  <2>2. Same(s1, w.s, {"send_epoch", "send_seq", "send_msg_seq", "transcript"})
    BY <1>6, <1>7, <1>8 DEF Same
  <2>3. SameStep(u, w, {"s", "response"})
    BY <1>7, <1>8 DEF SameStep
  <2> QED
    BY <1>7, <1>8, <2>1, <2>2, <2>3
<1>12. /\ IsStep(a) /\ SameStep(w, a, {"s", "done"}) /\ a.done = TRUE
       /\ Same(w.s, a.s, {"handshake_done", "phase"}) /\ a.s.handshake_done = TRUE
  BY <1>3, <1>11, ServerDoneFields
<1> HIDE DEF a
<1>13. /\ a.ok = TRUE /\ a.build = TRUE /\ a.got_shd = st.got_shd /\ a.response = w.response
       /\ a.pending = st.pending
  <2>1. /\ a.ok = w.ok /\ a.build = w.build /\ a.got_shd = w.got_shd /\ a.response = w.response
        /\ a.pending = w.pending
    BY <1>12 DEF SameStep, StepFields
  <2>2. /\ w.ok = st.ok /\ w.build = u.build /\ w.got_shd = st.got_shd
        /\ w.pending = st.pending
    BY <1>5, <1>6, <1>11 DEF SameStep, StepFields
  <2> QED
    BY <1>6, <2>1, <2>2
<1>14. Collected(a, t)
  <2>1. st.s.recv_msg_seq \in Nat /\ m.mseq = st.s.recv_msg_seq
    BY <1>1, <1>2 DEF ServerAt13
  <2> QED
    BY <1>12, <1>13, <2>1, CollectNext DEF a
<1>15. /\ t.response = w.response /\ t.build = TRUE /\ t.done = TRUE /\ t.ok = TRUE
       /\ t.got_shd = st.got_shd /\ IsStep(t) /\ t.pending = st.pending
  BY <1>12, <1>13, <1>14 DEF Collected, SameStep, StepFields
<1>16. Same(st.s, t.s, {"send_epoch", "send_seq", "send_msg_seq", "transcript", "handshake_done",
                        "phase", "recv_msg_seq"})
  BY <1>4, <1>11, <1>12, <1>14 DEF Same, Collected
<1>17. /\ t.s.send_msg_seq = w.s.send_msg_seq /\ t.s.transcript = w.s.transcript
       /\ t.s.send_epoch = w.s.send_epoch /\ t.s.send_seq = w.s.send_seq
       /\ t.s.handshake_done = TRUE /\ a.s.recv_msg_seq = w.s.recv_msg_seq
       /\ t.s.recv_msg_seq = a.s.recv_msg_seq + 1
  BY <1>12, <1>14 DEF Collected, Same, SessionFields
<1>18. w.s.recv_msg_seq = st.s.recv_msg_seq
  BY <1>4, <1>11 DEF Same, SessionFields
<1>19. /\ t.s.role = st.s.role /\ t.s.ver = st.s.ver /\ t.s.require_cookie = st.s.require_cookie
       /\ t.s.app_keys = st.s.app_keys /\ t.s.client_random = st.s.client_random
       /\ t.s.server_random = st.s.server_random /\ t.s.cipher_suite = st.s.cipher_suite
       /\ t.s.ks_pub = st.s.ks_pub /\ t.s.keys = st.s.keys /\ t.s.last_sent = st.s.last_sent
  BY <1>16 DEF Same, SessionFields
<1>20. Own(k, "server", t.s)
  BY <1>2, <1>15, <1>19 DEF Own, IsStep
<1>21. ServerAt13(k, t.s, 2, 0)
  BY <1>2, <1>8, <1>10, <1>17, <1>18, <1>19 DEF ServerAt13
<1>22. At(k, "server", t.s, 2, 0)
  BY <1>20, <1>21, 12 # 13 DEF At
<1>23. Answers(k, "server", t)
  BY <1>11, <1>15, <1>17 DEF Answers
<1> QED
  BY <1>15, <1>17, <1>19, <1>22, <1>23 DEF Reaches

-----------------------------------------------------------------------------
(***************************************************************************)
(* The next message in order, at every stage.  A step that started at      *)
(* stage p has at most n messages of the peer to handle.                   *)
(***************************************************************************)
Within(k, e, p, n) ==
  LET c == Cookies(k)
  IN  IF k.ver = 12
      THEN IF e = "client"
           THEN /\ p = -1 => n <= 1
                /\ p \in 0 .. 3 => n <= c + 4
                /\ n <= c + 5
           ELSE /\ p = -1 => n <= 1
                /\ p = 0 => n <= c + 1
                /\ n <= c + 3
      ELSE IF e = "client" THEN n <= 5
           ELSE /\ p = 0 => n <= 1
                /\ n <= 2

\* One message further.
Advances(k, e, st, t, p) ==
  /\ Reaches(k, e, st, t, p + 1)
  /\ Silent(st, t) \/ Answers(k, e, t)
  /\ t.s.recv_msg_seq = st.s.recv_msg_seq + 1
  /\ st.s.send_msg_seq <= t.s.send_msg_seq
  /\ k.ver = 12 /\ e = "client" => /\ p = 3 => t.got_shd = TRUE
                                   /\ p # -1 => Silent(st, t)

LEMMA ClientCollects12 ==
  ASSUME NEW k \in Environments, k.ver = 12, NEW st, IsStep(st), st.ok = TRUE,
         NEW p \in Int, At(k, "client", st.s, p, 0), NEW p0 \in -1 .. 6, p0 <= p, p0 # 4,
         NEW n \in Nat, Within(k, "client", p0, n), st.s.recv_msg_seq < n,
         NEW m, m = MessageOf(k, "server", st.s.recv_msg_seq),
         NEW t, t = collect_message(st, m, InputOf(k))
  PROVE  Advances(k, "client", st, t, p) \/ Refuses(k, "client", st, t)
<1>2. /\ Cookies(k) \in {0, 1} /\ k.usable \in BOOLEAN /\ k.trusted \in BOOLEAN
      /\ k.ver = 13 => Cookies(k) = 0
  BY EnvironmentFacts
<1>3. Own(k, "client", st.s) /\ ClientAt12(k, st.s, p, 0)
  BY 12 # 13 DEF At
<1>4. p \in {-1, 0, 1, 2, 3, 5}
  <2>1. /\ p \in -1 .. 6 /\ (p <= 4 => st.s.recv_msg_seq = Cookies(k) + p)
        /\ (p >= 5 => st.s.recv_msg_seq = Cookies(k) + p - 1)
    BY <1>2, <1>3 DEF ClientAt12
  <2>2. (p0 \in 0 .. 3 => n <= Cookies(k) + 4) /\ n <= Cookies(k) + 5 /\ (p0 = -1 => n <= 1)
    BY DEF Within
  <2>3. p # 6
    BY <1>2, <2>1, <2>2
  <2>4. p # 4
    BY <1>2, <2>1, <2>2
  <2> QED
    BY <2>1, <2>3, <2>4
<1>5. CASE p = -1
  <2>1. At(k, "client", st.s, -1, 0)
    BY <1>5
  <2>2. m = HVR(k) /\ Cookies(k) = 1
    BY <1>2, <1>3, <1>5, Messages12 DEF ClientAt12
  <2>3. Reaches(k, "client", st, t, 0) /\ Answers(k, "client", t)
    BY <1>2, <2>1, <2>2, ClientHelloVerify
  <2>4. t.s.recv_msg_seq = st.s.recv_msg_seq + 1 /\ st.s.send_msg_seq <= t.s.send_msg_seq
    BY <1>2, <1>3, <1>5, <2>3 DEF Reaches, At, ClientAt12
  <2> QED
    BY <1>5, <2>3, <2>4 DEF Advances
<1>6. CASE p = 0
  <2>1. At(k, "client", st.s, 0, 0)
    BY <1>6
  <2>2. m = SH(k)
    BY <1>2, <1>3, <1>6, Messages12 DEF ClientAt12
  <2>3. Reaches(k, "client", st, t, 1) /\ Silent(st, t)
    BY <1>2, <2>1, <2>2, ClientServerHello12
  <2>4. t.s.recv_msg_seq = st.s.recv_msg_seq + 1 /\ st.s.send_msg_seq <= t.s.send_msg_seq
    BY <1>2, <1>3, <1>6, <2>3 DEF Reaches, At, ClientAt12
  <2> QED
    BY <1>6, <2>3, <2>4 DEF Advances
<1>7. CASE p = 1 /\ k.trusted = TRUE
  <2>1. At(k, "client", st.s, 1, 0)
    BY <1>7
  <2>2. m = Crt12(k)
    BY <1>2, <1>3, <1>7, Messages12 DEF ClientAt12
  <2>3. Reaches(k, "client", st, t, 2) /\ Silent(st, t)
    BY <1>2, <2>1, <2>2, <1>7, ClientCertificate12
  <2>4. t.s.recv_msg_seq = st.s.recv_msg_seq + 1 /\ st.s.send_msg_seq <= t.s.send_msg_seq
    BY <1>2, <1>3, <1>7, <2>3 DEF Reaches, At, ClientAt12
  <2> QED
    BY <1>7, <2>3, <2>4 DEF Advances
<1>8. CASE p = 1 /\ k.trusted = FALSE
  <2>1. /\ st.s.recv_msg_seq = Cookies(k) + 1 /\ st.s.send_msg_seq = Cookies(k) + 1
        /\ st.s.handshake_done = FALSE
    BY <1>2, <1>3, <1>8 DEF ClientAt12
  <2>2. m = Crt12(k)
    BY <2>1, Messages12
  <2>3. m.type = "CERTIFICATE" /\ m.mseq = st.s.recv_msg_seq
    BY <2>1, <2>2 DEF Crt12, HandshakeMessage
  <2>4. /\ st.s.recv_msg_seq \in Nat /\ st.s.recv_msg_seq >= Cookies(k) + 1
        /\ st.s.send_msg_seq \in Nat /\ st.s.send_msg_seq <= Cookies(k) + 1
    BY <1>2, <2>1
  <2> QED
    BY <1>3, <1>8, <2>1, <2>3, <2>4, ClientRefuses
<1>9. CASE p = 2
  <2>1. At(k, "client", st.s, 2, 0)
    BY <1>9
  <2>2. m = SKE(k)
    BY <1>2, <1>3, <1>9, Messages12 DEF ClientAt12
  <2>3. Reaches(k, "client", st, t, 3) /\ Silent(st, t)
    BY <1>2, <2>1, <2>2, ClientServerKeyExchange
  <2>4. t.s.recv_msg_seq = st.s.recv_msg_seq + 1 /\ st.s.send_msg_seq <= t.s.send_msg_seq
    BY <1>2, <1>3, <1>9, <2>3 DEF Reaches, At, ClientAt12
  <2> QED
    BY <1>9, <2>3, <2>4 DEF Advances
<1>10. CASE p = 3
  <2>1. At(k, "client", st.s, 3, 0)
    BY <1>10
  <2>2. m = SHD(k)
    BY <1>2, <1>3, <1>10, Messages12 DEF ClientAt12
  <2>3. Reaches(k, "client", st, t, 4) /\ Silent(st, t) /\ t.got_shd = TRUE
    BY <1>2, <2>1, <2>2, ClientServerHelloDone
  <2>4. t.s.recv_msg_seq = st.s.recv_msg_seq + 1 /\ st.s.send_msg_seq <= t.s.send_msg_seq
    BY <1>2, <1>3, <1>10, <2>3 DEF Reaches, At, ClientAt12
  <2> QED
    BY <1>10, <2>3, <2>4 DEF Advances
<1>11. CASE p = 5
  <2>1. At(k, "client", st.s, 5, 0)
    BY <1>11
  <2>2. m = ServerFinished12(k)
    BY <1>2, <1>3, <1>11, Messages12 DEF ClientAt12
  <2>3. Reaches(k, "client", st, t, 6) /\ Silent(st, t)
    BY <1>2, <2>1, <2>2, ClientFinishes12
  <2>4. t.s.recv_msg_seq = st.s.recv_msg_seq + 1 /\ st.s.send_msg_seq <= t.s.send_msg_seq
    BY <1>2, <1>3, <1>11, <2>3 DEF Reaches, At, ClientAt12
  <2> QED
    BY <1>11, <2>3, <2>4 DEF Advances
<1> QED
  BY <1>2, <1>4, <1>5, <1>6, <1>7, <1>8, <1>9, <1>10, <1>11

LEMMA ServerCollects12 ==
  ASSUME NEW k \in Environments, k.ver = 12, NEW st, IsStep(st), st.ok = TRUE,
         NEW p \in Int, At(k, "server", st.s, p, 0), NEW p0 \in -1 .. 6, p0 <= p,
         NEW n \in Nat, Within(k, "server", p0, n), st.s.recv_msg_seq < n,
         NEW m, m = MessageOf(k, "client", st.s.recv_msg_seq),
         NEW t, t = collect_message(st, m, InputOf(k))
  PROVE  Advances(k, "server", st, t, p) \/ Refuses(k, "server", st, t)
<1>2. /\ Cookies(k) \in {0, 1} /\ k.usable \in BOOLEAN /\ k.trusted \in BOOLEAN
      /\ k.ver = 13 => Cookies(k) = 0
  BY EnvironmentFacts
<1>3. Own(k, "server", st.s) /\ ServerAt12(k, st.s, p, 0)
  BY 12 # 13 DEF At
<1>4. p \in {-1, 0, 1, 2}
  BY <1>2, <1>3 DEF ServerAt12, Within
<1>5. CASE p = -1
  <2>1. At(k, "server", st.s, -1, 0)
    BY <1>5
  <2>2. m = HandshakeMessage("CLIENT_HELLO", 0, FirstHello(k)) /\ Cookies(k) = 1
    BY <1>2, <1>3, <1>5, Messages12 DEF ServerAt12
  <2>3. Reaches(k, "server", st, t, 0) /\ Answers(k, "server", t)
    BY <1>2, <2>1, <2>2, ServerHelloVerify
  <2>4. t.s.recv_msg_seq = st.s.recv_msg_seq + 1 /\ st.s.send_msg_seq <= t.s.send_msg_seq
    BY <1>2, <1>3, <1>5, <2>3 DEF Reaches, At, ServerAt12
  <2> QED
    BY <1>5, <2>3, <2>4 DEF Advances
<1>6. CASE p = 0 /\ k.usable = TRUE
  <2>1. At(k, "server", st.s, 0, 0)
    BY <1>6
  <2>2. m = CH(k)
    BY <1>2, <1>3, <1>6, Messages12 DEF ServerAt12
  <2>3. Reaches(k, "server", st, t, 1) /\ Answers(k, "server", t)
    BY <1>2, <2>1, <2>2, <1>6, ServerFlight12
  <2>4. t.s.recv_msg_seq = st.s.recv_msg_seq + 1 /\ st.s.send_msg_seq <= t.s.send_msg_seq
    BY <1>2, <1>3, <1>6, <2>3 DEF Reaches, At, ServerAt12
  <2> QED
    BY <1>6, <2>3, <2>4 DEF Advances
<1>7. CASE p = 0 /\ k.usable = FALSE
  <2>1. m = CH(k)
    BY <1>2, <1>3, <1>7, Messages12 DEF ServerAt12
  <2> QED
    BY <1>2, <1>7, <2>1, ServerRefuses
<1>8. CASE p = 1
  <2>1. At(k, "server", st.s, 1, 0)
    BY <1>8
  <2>2. m = CKE(k)
    BY <1>2, <1>3, <1>8, Messages12 DEF ServerAt12
  <2>3. Reaches(k, "server", st, t, 2) /\ Silent(st, t)
    BY <1>2, <2>1, <2>2, ServerClientKeyExchange
  <2>4. t.s.recv_msg_seq = st.s.recv_msg_seq + 1 /\ st.s.send_msg_seq <= t.s.send_msg_seq
    BY <1>2, <1>3, <1>8, <2>3 DEF Reaches, At, ServerAt12
  <2> QED
    BY <1>8, <2>3, <2>4 DEF Advances
<1>9. CASE p = 2
  <2>1. At(k, "server", st.s, 2, 0)
    BY <1>9
  <2>2. m = ClientFinished12(k)
    BY <1>2, <1>3, <1>9, Messages12 DEF ServerAt12
  <2>3. Reaches(k, "server", st, t, 3) /\ Answers(k, "server", t)
    BY <1>2, <2>1, <2>2, ServerFinishes12
  <2>4. t.s.recv_msg_seq = st.s.recv_msg_seq + 1 /\ st.s.send_msg_seq <= t.s.send_msg_seq
    BY <1>2, <1>3, <1>9, <2>3 DEF Reaches, At, ServerAt12
  <2> QED
    BY <1>9, <2>3, <2>4 DEF Advances
<1> QED
  BY <1>2, <1>4, <1>5, <1>6, <1>7, <1>8, <1>9

LEMMA ClientCollects13 ==
  ASSUME NEW k \in Environments, k.ver = 13, NEW st, IsStep(st), st.ok = TRUE,
         NEW p \in Int, At(k, "client", st.s, p, 0), NEW p0 \in -1 .. 6, p0 <= p,
         NEW n \in Nat, Within(k, "client", p0, n), st.s.recv_msg_seq < n,
         NEW m, m = MessageOf(k, "server", st.s.recv_msg_seq),
         NEW t, t = collect_message(st, m, InputOf(k))
  PROVE  Advances(k, "client", st, t, p) \/ Refuses(k, "client", st, t)
<1>2. /\ Cookies(k) \in {0, 1} /\ k.usable \in BOOLEAN /\ k.trusted \in BOOLEAN
      /\ k.ver = 13 => Cookies(k) = 0
  BY EnvironmentFacts
<1>3. Own(k, "client", st.s) /\ ClientAt13(k, st.s, p, 0)
  BY 12 # 13 DEF At
<1>4. p \in {0, 1, 2, 3, 4}
  <2>1. p \in 0 .. 5 /\ st.s.recv_msg_seq = p /\ n <= 5
    BY <1>3, 12 # 13 DEF ClientAt13, Within
  <2> QED
    BY <2>1
<1>5. CASE p = 0
  <2>1. At(k, "client", st.s, 0, 0)
    BY <1>5
  <2>2. m = SH(k)
    BY <1>2, <1>3, <1>5, Messages13 DEF ClientAt13
  <2>3. Reaches(k, "client", st, t, 1) /\ Silent(st, t)
    BY <1>2, <2>1, <2>2, ClientServerHello13
  <2>4. t.s.recv_msg_seq = st.s.recv_msg_seq + 1 /\ st.s.send_msg_seq <= t.s.send_msg_seq
    BY <1>2, <1>3, <1>5, <2>3, 12 # 13 DEF Reaches, At, ClientAt13
  <2> QED
    BY <1>5, <2>3, <2>4 DEF Advances
<1>6. CASE p = 1
  <2>1. At(k, "client", st.s, 1, 0)
    BY <1>6
  <2>2. m = EE(k)
    BY <1>2, <1>3, <1>6, Messages13 DEF ClientAt13
  <2>3. Reaches(k, "client", st, t, 2) /\ Silent(st, t)
    BY <1>2, <2>1, <2>2, ClientEncryptedExtensions
  <2>4. t.s.recv_msg_seq = st.s.recv_msg_seq + 1 /\ st.s.send_msg_seq <= t.s.send_msg_seq
    BY <1>2, <1>3, <1>6, <2>3, 12 # 13 DEF Reaches, At, ClientAt13
  <2> QED
    BY <1>6, <2>3, <2>4 DEF Advances
<1>7. CASE p = 2 /\ k.trusted = TRUE
  <2>1. At(k, "client", st.s, 2, 0)
    BY <1>7
  <2>2. m = Crt13(k)
    BY <1>2, <1>3, <1>7, Messages13 DEF ClientAt13
  <2>3. Reaches(k, "client", st, t, 3) /\ Silent(st, t)
    BY <1>2, <2>1, <2>2, <1>7, ClientCertificate13
  <2>4. t.s.recv_msg_seq = st.s.recv_msg_seq + 1 /\ st.s.send_msg_seq <= t.s.send_msg_seq
    BY <1>2, <1>3, <1>7, <2>3, 12 # 13 DEF Reaches, At, ClientAt13
  <2> QED
    BY <1>7, <2>3, <2>4 DEF Advances
<1>8. CASE p = 2 /\ k.trusted = FALSE
  <2>1. st.s.recv_msg_seq = 2 /\ st.s.send_msg_seq = 1 /\ st.s.handshake_done = FALSE
    BY <1>3, <1>8 DEF ClientAt13
  <2>2. m = Crt13(k)
    BY <2>1, Messages13
  <2>3. m.type = "CERTIFICATE" /\ m.mseq = st.s.recv_msg_seq
    BY <2>1, <2>2, MessageTypes
  <2>4. /\ st.s.recv_msg_seq \in Nat /\ st.s.recv_msg_seq >= Cookies(k) + 1
        /\ st.s.send_msg_seq \in Nat /\ st.s.send_msg_seq <= Cookies(k) + 1
    BY <1>2, <2>1
  <2> QED
    BY <1>3, <1>8, <2>1, <2>3, <2>4, ClientRefuses
<1>9. CASE p = 3
  <2>1. At(k, "client", st.s, 3, 0)
    BY <1>9
  <2>2. m = CV(k)
    BY <1>2, <1>3, <1>9, Messages13 DEF ClientAt13
  <2>3. Reaches(k, "client", st, t, 4) /\ Silent(st, t)
    BY <1>2, <2>1, <2>2, ClientCertificateVerify
  <2>4. t.s.recv_msg_seq = st.s.recv_msg_seq + 1 /\ st.s.send_msg_seq <= t.s.send_msg_seq
    BY <1>2, <1>3, <1>9, <2>3, 12 # 13 DEF Reaches, At, ClientAt13
  <2> QED
    BY <1>9, <2>3, <2>4 DEF Advances
<1>10. CASE p = 4
  <2>1. At(k, "client", st.s, 4, 0)
    BY <1>10
  <2>2. m = ServerFinished13(k)
    BY <1>2, <1>3, <1>10, Messages13 DEF ClientAt13
  <2>3. Reaches(k, "client", st, t, 5) /\ Answers(k, "client", t)
    BY <1>2, <2>1, <2>2, ClientFinishes13
  <2>4. t.s.recv_msg_seq = st.s.recv_msg_seq + 1 /\ st.s.send_msg_seq <= t.s.send_msg_seq
    BY <1>2, <1>3, <1>10, <2>3, 12 # 13 DEF Reaches, At, ClientAt13
  <2> QED
    BY <1>10, <2>3, <2>4 DEF Advances
<1> QED
  BY <1>2, <1>4, <1>5, <1>6, <1>7, <1>8, <1>9, <1>10

LEMMA ServerCollects13 ==
  ASSUME NEW k \in Environments, k.ver = 13, NEW st, IsStep(st), st.ok = TRUE,
         NEW p \in Int, At(k, "server", st.s, p, 0), NEW p0 \in -1 .. 6, p0 <= p,
         NEW n \in Nat, Within(k, "server", p0, n), st.s.recv_msg_seq < n,
         NEW m, m = MessageOf(k, "client", st.s.recv_msg_seq),
         NEW t, t = collect_message(st, m, InputOf(k))
  PROVE  Advances(k, "server", st, t, p) \/ Refuses(k, "server", st, t)
<1>2. /\ Cookies(k) \in {0, 1} /\ k.usable \in BOOLEAN /\ k.trusted \in BOOLEAN
      /\ k.ver = 13 => Cookies(k) = 0
  BY EnvironmentFacts
<1>3. Own(k, "server", st.s) /\ ServerAt13(k, st.s, p, 0)
  BY 12 # 13 DEF At
<1>4. p \in {0, 1}
  <2>1. p \in 0 .. 2 /\ st.s.recv_msg_seq = p /\ n <= 2
    BY <1>3, 12 # 13 DEF ServerAt13, Within
  <2> QED
    BY <2>1
<1>5. CASE p = 0 /\ k.usable = TRUE
  <2>1. At(k, "server", st.s, 0, 0)
    BY <1>5
  <2>2. m = CH(k)
    BY <1>2, <1>3, <1>5, Messages13 DEF ServerAt13
  <2>3. Reaches(k, "server", st, t, 1) /\ Answers(k, "server", t)
    BY <1>2, <2>1, <2>2, <1>5, ServerFlight13
  <2>4. t.s.recv_msg_seq = st.s.recv_msg_seq + 1 /\ st.s.send_msg_seq <= t.s.send_msg_seq
    BY <1>2, <1>3, <1>5, <2>3, 12 # 13 DEF Reaches, At, ServerAt13
  <2> QED
    BY <1>5, <2>3, <2>4 DEF Advances
<1>6. CASE p = 0 /\ k.usable = FALSE
  <2>1. m = CH(k)
    BY <1>3, <1>6, Messages13 DEF ServerAt13
  <2> QED
    BY <1>6, <2>1, ServerRefuses
<1>7. CASE p = 1
  <2>1. At(k, "server", st.s, 1, 0)
    BY <1>7
  <2>2. m = ClientFinished13(k)
    BY <1>2, <1>3, <1>7, Messages13 DEF ServerAt13
  <2>3. Reaches(k, "server", st, t, 2) /\ Answers(k, "server", t)
    BY <1>2, <2>1, <2>2, ServerFinishes13
  <2>4. t.s.recv_msg_seq = st.s.recv_msg_seq + 1 /\ st.s.send_msg_seq <= t.s.send_msg_seq
    BY <1>2, <1>3, <1>7, <2>3, 12 # 13 DEF Reaches, At, ServerAt13
  <2> QED
    BY <1>7, <2>3, <2>4 DEF Advances
<1> QED
  BY <1>2, <1>4, <1>5, <1>6, <1>7

LEMMA NextMessage ==
  ASSUME NEW k \in Environments, NEW e \in Endpoint, NEW st, IsStep(st), st.ok = TRUE,
         NEW p \in Int, At(k, e, st.s, p, 0), NEW p0 \in -1 .. 6, p0 <= p,
         k.ver = 12 /\ e = "client" => p0 # 4,
         NEW n \in Nat, Within(k, e, p0, n), st.s.recv_msg_seq < n,
         NEW m, m = MessageOf(k, Peer(e), st.s.recv_msg_seq),
         NEW t, t = collect_message(st, m, InputOf(k))
  PROVE  Advances(k, e, st, t, p) \/ Refuses(k, e, st, t)
<1>1. k.ver \in {12, 13}
  BY EnvironmentFacts
<1>2. CASE e = "client" /\ k.ver = 12
  <2>1. Peer(e) = "server"
    BY <1>2 DEF Peer
  <2> QED
    BY <1>2, <2>1, ClientCollects12
<1>3. CASE e = "server" /\ k.ver = 12
  <2>1. Peer(e) = "client"
    BY <1>3 DEF Peer
  <2> QED
    BY <1>3, <2>1, ServerCollects12
<1>4. CASE e = "client" /\ k.ver = 13
  <2>1. Peer(e) = "server"
    BY <1>4 DEF Peer
  <2> QED
    BY <1>4, <2>1, ClientCollects13
<1>5. CASE e = "server" /\ k.ver = 13
  <2>1. Peer(e) = "client"
    BY <1>5 DEF Peer
  <2> QED
    BY <1>5, <2>1, ServerCollects13
<1> QED
  BY <1>1, <1>2, <1>3, <1>4, <1>5 DEF Endpoint

\* The stage at which an endpoint is done.
FinalStage(k, e) ==
  IF k.ver = 12 THEN IF e = "client" THEN 6 ELSE 3
  ELSE IF e = "client" THEN 5 ELSE 2

LEMMA StageFacts ==
  ASSUME NEW k \in Environments, NEW e \in Endpoint, NEW s, NEW p \in Int, NEW d, At(k, e, s, p, d)
  PROVE  /\ p \in -Cookies(k) .. FinalStage(k, e) /\ p \in -1 .. 6 /\ Own(k, e, s)
         /\ p = FinalStage(k, e) => s.handshake_done = TRUE
         /\ p # FinalStage(k, e) => s.handshake_done = FALSE /\ d = 0
         /\ s.recv_msg_seq \in Nat /\ s.send_msg_seq \in Nat
<1>1. k.ver \in {12, 13} /\ Cookies(k) \in {0, 1} /\ (k.ver = 13 => Cookies(k) = 0)
  BY EnvironmentFacts
<1>2. CASE e = "client" /\ k.ver = 12
  <2>1. Own(k, e, s) /\ ClientAt12(k, s, p, d) /\ FinalStage(k, e) = 6
    BY <1>2 DEF At, FinalStage
  <2>2. p \in -1 .. 6 /\ s.recv_msg_seq \in Nat
    BY <1>1, <2>1 DEF ClientAt12
  <2>3. s.send_msg_seq \in Nat
    BY <1>1, <2>1, <2>2 DEF ClientAt12
  <2> QED
    BY <1>1, <2>1, <2>2, <2>3 DEF ClientAt12
<1>3. CASE e = "server" /\ k.ver = 12
  <2>1. Own(k, e, s) /\ ServerAt12(k, s, p, d) /\ FinalStage(k, e) = 3
    BY <1>3 DEF At, FinalStage
  <2>2. p \in -1 .. 6 /\ s.recv_msg_seq \in Nat
    BY <1>1, <2>1 DEF ServerAt12
  <2>3. s.send_msg_seq \in Nat
    BY <1>1, <2>1, <2>2 DEF ServerAt12
  <2> QED
    BY <1>1, <2>1, <2>2, <2>3 DEF ServerAt12
<1>4. CASE e = "client" /\ k.ver = 13
  <2>1. Own(k, e, s) /\ ClientAt13(k, s, p, d) /\ FinalStage(k, e) = 5
    BY <1>4, 12 # 13 DEF At, FinalStage
  <2> QED
    BY <1>1, <1>4, <2>1 DEF ClientAt13
<1>5. CASE e = "server" /\ k.ver = 13
  <2>1. Own(k, e, s) /\ ServerAt13(k, s, p, d) /\ FinalStage(k, e) = 2
    BY <1>5, 12 # 13 DEF At, FinalStage
  <2> QED
    BY <1>1, <1>5, <2>1 DEF ServerAt13
<1> QED
  BY <1>1, <1>2, <1>3, <1>4, <1>5 DEF Endpoint

-----------------------------------------------------------------------------
(***************************************************************************)
(* A step that started with session s0 at stage p0, in the middle.         *)
(***************************************************************************)
MidAt(k, e, s0, p0, st, p) ==
  /\ At(k, e, st.s, p, 0)
  /\ st.s.last_sent = s0.last_sent
  /\ st.build \in BOOLEAN /\ st.got_shd \in BOOLEAN
  /\ st.s.handshake_done = TRUE => st.done = TRUE
  /\ st.s.handshake_done = FALSE => st.done = FALSE
  /\ st.build = TRUE => Answers(k, e, st)
  /\ k.ver = 12 /\ e = "client" => /\ p = 4 => st.got_shd = TRUE
                                   /\ p # 4 => st.got_shd = FALSE
                                   /\ st.build = TRUE => p = 0 /\ p0 = -1

Mid(k, e, s0, p0, n, st) ==
  /\ IsStep(st) /\ st.ok \in BOOLEAN
  /\ st.s.send_msg_seq \in Nat /\ s0.send_msg_seq <= st.s.send_msg_seq
  /\ st.s.recv_msg_seq <= n
  /\ st.ok = FALSE => Failed(k, e, st.s)
  /\ st.ok = TRUE => \E p \in p0 .. 6 : MidAt(k, e, s0, p0, st, p)

\* The hypotheses about the start of the step.
Starts(k, e, s0, p0, n) ==
  /\ k \in Environments /\ e \in Endpoint /\ p0 \in -1 .. 6 /\ n \in Nat
  /\ k.ver = 12 /\ e = "client" => p0 # 4
  /\ p0 = -1 => Cookies(k) = 1
  /\ Within(k, e, p0, n) /\ s0.send_msg_seq \in Nat

LEMMA FlightStays ==
  ASSUME NEW k, NEW e, NEW n \in Nat, NEW n2 \in Nat, n <= n2, NEW q, Flight(k, e, n, q)
  PROVE  Flight(k, e, n2, q)
BY RecordStays DEF Flight

\* The fields of a session that no stage speaks about.
Aside == {"retransmit_requested", "recv_epoch", "received_records", "last_sent"}

LEMMA AsideFields ==
  ASSUME NEW k, NEW e, NEW s, NEW s2, IsSession(s2), Same(s, s2, Aside)
  PROVE  /\ \A p, d : At(k, e, s, p, d) => At(k, e, s2, p, d)
         /\ Failed(k, e, s) => Failed(k, e, s2)
         /\ s2.send_msg_seq = s.send_msg_seq /\ s2.recv_msg_seq = s.recv_msg_seq
         /\ s2.handshake_done = s.handshake_done
<1>1. /\ s2.role = s.role /\ s2.ver = s.ver /\ s2.require_cookie = s.require_cookie
      /\ s2.recv_msg_seq = s.recv_msg_seq /\ s2.send_msg_seq = s.send_msg_seq
      /\ s2.client_random = s.client_random /\ s2.app_keys = s.app_keys /\ s2.ks_pub = s.ks_pub
      /\ s2.transcript = s.transcript /\ s2.server_random = s.server_random
      /\ s2.cipher_suite = s.cipher_suite /\ s2.have_server_cert = s.have_server_cert
      /\ s2.keys = s.keys /\ s2.send_epoch = s.send_epoch /\ s2.send_seq = s.send_seq
      /\ s2.handshake_done = s.handshake_done
  BY DEF Same, SessionFields, Aside
<1>2. ASSUME NEW p, NEW d, At(k, e, s, p, d) PROVE At(k, e, s2, p, d)
  <2>1. Own(k, e, s2)
    BY <1>1, <1>2 DEF At, Own
  <2>2. ClientAt12(k, s, p, d) => ClientAt12(k, s2, p, d)
    BY <1>1 DEF ClientAt12
  <2>3. ServerAt12(k, s, p, d) => ServerAt12(k, s2, p, d)
    BY <1>1 DEF ServerAt12
  <2>4. ClientAt13(k, s, p, d) => ClientAt13(k, s2, p, d)
    BY <1>1 DEF ClientAt13
  <2>5. ServerAt13(k, s, p, d) => ServerAt13(k, s2, p, d)
    BY <1>1 DEF ServerAt13
  <2> QED
    BY <1>2, <2>1, <2>2, <2>3, <2>4, <2>5 DEF At
<1>3. Failed(k, e, s) => Failed(k, e, s2)
  BY <1>1 DEF Failed
<1> QED
  BY <1>1, <1>2, <1>3

\* t differs from st in what was received, not in what was handled.
Quieter == {"s", "events", "pending"}

LEMMA MidStays ==
  ASSUME NEW k, NEW e, NEW s0, NEW p0, NEW n, NEW st, Mid(k, e, s0, p0, n, st),
         NEW t, IsStep(t), SameStep(st, t, Quieter), Same(st.s, t.s, Aside \ {"last_sent"})
  PROVE  Mid(k, e, s0, p0, n, t)
<1>1. /\ t.ok = st.ok /\ t.build = st.build /\ t.got_shd = st.got_shd /\ t.done = st.done
      /\ t.response = st.response
  BY DEF SameStep, StepFields, Quieter
<1>2. Same(st.s, t.s, Aside) /\ IsSession(t.s)
  BY DEF Same, Aside, IsStep
<1>3. /\ t.s.last_sent = st.s.last_sent /\ t.s.handshake_done = st.s.handshake_done
      /\ t.s.send_msg_seq = st.s.send_msg_seq /\ t.s.recv_msg_seq = st.s.recv_msg_seq
  BY DEF Same, SessionFields, Aside
<1>4. Answers(k, e, st) => Answers(k, e, t)
  BY <1>1, <1>3 DEF Answers
<1>5. Failed(k, e, st.s) => Failed(k, e, t.s)
  BY <1>2, AsideFields
<1>6. ASSUME NEW p, MidAt(k, e, s0, p0, st, p) PROVE MidAt(k, e, s0, p0, t, p)
  <2>1. At(k, e, t.s, p, 0)
    BY <1>2, <1>6, AsideFields DEF MidAt
  <2> QED
    BY <1>1, <1>3, <1>4, <1>6, <2>1 DEF MidAt
<1> QED
  BY <1>1, <1>3, <1>5, <1>6 DEF Mid

LEMMA AdvanceKeeps ==
  ASSUME NEW k, NEW e, NEW s0, NEW p0, NEW n, Starts(k, e, s0, p0, n),
         NEW st, NEW p \in p0 .. 6, MidAt(k, e, s0, p0, st, p), st.s.recv_msg_seq < n,
         NEW t, Advances(k, e, st, t, p)
  PROVE  p + 1 \in p0 .. 6 /\ MidAt(k, e, s0, p0, t, p + 1)
<1>1. k \in Environments /\ e \in Endpoint /\ p0 \in -1 .. 6 /\ n \in Nat /\ p \in Int /\ p + 1 \in Int
  BY DEF Starts
<1>2. At(k, e, st.s, p, 0) /\ At(k, e, t.s, p + 1, 0)
  BY DEF MidAt, Advances, Reaches
<1>3. /\ p + 1 \in -1 .. 6 /\ p + 1 <= FinalStage(k, e) /\ FinalStage(k, e) \in Int
      /\ st.s.send_msg_seq \in Nat /\ t.s.send_msg_seq \in Nat
  <2>1. FinalStage(k, e) \in Int
    BY DEF FinalStage
  <2>2. p + 1 \in -Cookies(k) .. FinalStage(k, e) /\ p + 1 \in -1 .. 6 /\ t.s.send_msg_seq \in Nat
    BY <1>1, <1>2, StageFacts
  <2>3. st.s.send_msg_seq \in Nat
    BY <1>1, <1>2, StageFacts
  <2>4. Cookies(k) \in Int
    BY <1>1, EnvironmentFacts
  <2> QED
    BY <2>1, <2>2, <2>3, <2>4
<1>4. st.s.handshake_done = FALSE
  <2>1. p # FinalStage(k, e)
    BY <1>1, <1>3
  <2> QED
    BY <1>1, <1>2, <2>1, StageFacts
<1>6. t.build \in BOOLEAN /\ (t.build = TRUE => Answers(k, e, t))
  <2>1. CASE Answers(k, e, t)
    BY <2>1 DEF Answers
  <2>2. CASE Silent(st, t)
    <3>1. t.build = st.build /\ t.response = st.response /\ st.build \in BOOLEAN
      BY <2>2 DEF Silent, MidAt
    <3>2. ASSUME st.build = TRUE PROVE Answers(k, e, t)
      <4>1. Answers(k, e, st)
        BY <3>2 DEF MidAt
      <4>2. Flight(k, e, st.s.send_msg_seq, t.response)
        BY <3>1, <4>1 DEF Answers
      <4>3. Flight(k, e, t.s.send_msg_seq, t.response)
        BY <1>3, <4>2, FlightStays DEF Advances
      <4> QED
        BY <1>4, <3>1, <3>2, <4>1, <4>3 DEF Answers
    <3> QED
      BY <3>1, <3>2
  <2> QED
    BY <2>1, <2>2 DEF Advances
<1>7. t.got_shd \in BOOLEAN /\ t.s.last_sent = s0.last_sent
  BY DEF Advances, Reaches, MidAt
<1>8. /\ t.s.handshake_done = TRUE => t.done = TRUE
      /\ t.s.handshake_done = FALSE => t.done = FALSE
  BY <1>4 DEF Advances, Reaches, MidAt
<1>9. ASSUME k.ver = 12, e = "client"
      PROVE  /\ p + 1 = 4 => t.got_shd = TRUE
             /\ p + 1 # 4 => t.got_shd = FALSE
             /\ t.build = TRUE => p + 1 = 0 /\ p0 = -1
  <2>1. p # 4
    <3>1. FinalStage(k, e) = 6
      BY <1>9 DEF FinalStage
    <3>2. ClientAt12(k, st.s, p, 0) /\ ClientAt12(k, t.s, p + 1, 0)
      BY <1>2, <1>9 DEF At
    <3>3. t.s.recv_msg_seq = st.s.recv_msg_seq + 1 /\ Cookies(k) \in {0, 1}
      BY <1>1, EnvironmentFacts DEF Advances
    <3> QED
      BY <1>1, <3>2, <3>3 DEF ClientAt12
  <2>2. (p = 3 => t.got_shd = TRUE) /\ (p # -1 => Silent(st, t))
    BY <1>9 DEF Advances
  <2>3. p + 1 = 4 => t.got_shd = TRUE
    BY <1>1, <2>2
  <2>4. p + 1 # 4 => t.got_shd = FALSE
    BY <1>1, <1>9, <2>1 DEF Advances, Reaches, MidAt
  <2>5. ASSUME t.build = TRUE PROVE p + 1 = 0 /\ p0 = -1
    <3>1. CASE p = -1
      BY <1>1, <3>1
    <3>2. CASE p # -1
      <4>1. st.build = TRUE
        BY <2>2, <2>5, <3>2 DEF Silent
      <4>2. p = 0 /\ p0 = -1 /\ Cookies(k) = 1 /\ n <= 1
        BY <1>9, <4>1 DEF MidAt, Starts, Within
      <4>3. st.s.recv_msg_seq = 1
        BY <1>2, <1>9, <4>2 DEF At, ClientAt12
      <4> QED
        BY <1>1, <4>2, <4>3
    <3> QED
      BY <3>1, <3>2
  <2> QED
    BY <2>3, <2>4, <2>5
<1>10. p + 1 \in p0 .. 6
  BY <1>1, <1>3
<1> QED
  BY <1>2, <1>6, <1>7, <1>8, <1>9, <1>10 DEF MidAt

\* A message that arrives again, too early, or in order.
LEMMA CollectKeeps ==
  ASSUME NEW k, NEW e, NEW s0, NEW p0, NEW n, Starts(k, e, s0, p0, n),
         NEW st, Mid(k, e, s0, p0, n, st),
         NEW i \in 0 .. n - 1, NEW m, m = MessageOf(k, Peer(e), i), m.mseq = i,
         NEW t, t = collect_message(st, m, InputOf(k))
  PROVE  Mid(k, e, s0, p0, n, t) /\ t.pending = st.pending
<1>1. /\ k \in Environments /\ e \in Endpoint /\ p0 \in -1 .. 6 /\ n \in Nat
      /\ k.ver = 12 /\ e = "client" => p0 # 4
      /\ Within(k, e, p0, n) /\ s0.send_msg_seq \in Nat
  BY DEF Starts
<1>2. CASE st.ok = FALSE
  BY <1>2 DEF collect_message
<1>3. ASSUME st.ok = TRUE PROVE Mid(k, e, s0, p0, n, t) /\ t.pending = st.pending
  <2>1. PICK p \in p0 .. 6 : MidAt(k, e, s0, p0, st, p)
    BY <1>3 DEF Mid
  <2>2. /\ IsStep(st) /\ At(k, e, st.s, p, 0) /\ p \in Int /\ p0 <= p
        /\ st.s.recv_msg_seq \in Nat /\ st.s.recv_msg_seq <= n
        /\ st.s.send_msg_seq \in Nat /\ s0.send_msg_seq <= st.s.send_msg_seq
    <3>1. IsStep(st) /\ At(k, e, st.s, p, 0)
      BY <2>1 DEF Mid, MidAt
    <3>2. p \in Int /\ p0 <= p
      BY <1>1
    <3>3. st.s.recv_msg_seq \in Nat
      BY <1>1, <3>1, <3>2, StageFacts
    <3> QED
      BY <3>1, <3>2, <3>3 DEF Mid
  <2>3. CASE m.mseq < st.s.recv_msg_seq
    <3>1. t = [st EXCEPT !.s.retransmit_requested = TRUE]
      <4>1. Seen(st.s, m) /\ ~Early(st.s, m)
        BY <1>1, <2>2, <2>3 DEF Seen, Early
      <4> QED
        BY <1>3, <4>1 DEF collect_message
    <3>2. /\ IsStep(t) /\ SameStep(st, t, {"s"}) /\ Same(st.s, t.s, {"retransmit_requested"})
      BY <2>2, <3>1 DEF IsStep, IsSession, SameStep, StepFields, Same, SessionFields
    <3>3. /\ SameStep(st, t, Quieter) /\ Same(st.s, t.s, Aside \ {"last_sent"})
          /\ t.pending = st.pending
      BY <3>2 DEF SameStep, StepFields, Quieter, Same, Aside
    <3> QED
      BY <3>2, <3>3, MidStays
  <2>4. CASE m.mseq > st.s.recv_msg_seq
    <3>1. ~Seen(st.s, m) /\ Early(st.s, m)
      BY <1>1, <2>2, <2>4 DEF Seen, Early
    <3>2. t = st
      BY <1>3, <3>1 DEF collect_message
    <3> QED
      BY <3>2
  <2>5. CASE m.mseq = st.s.recv_msg_seq
    <3>1. st.s.recv_msg_seq < n /\ m = MessageOf(k, Peer(e), st.s.recv_msg_seq)
      BY <1>1, <2>2, <2>5
    <3>2. Advances(k, e, st, t, p) \/ Refuses(k, e, st, t)
      BY <1>1, <1>3, <2>2, <3>1, NextMessage
    <3>3. CASE Refuses(k, e, st, t)
      BY <2>2, <3>3 DEF Refuses, Mid
    <3>4. CASE Advances(k, e, st, t, p)
      <4>1. p + 1 \in p0 .. 6 /\ MidAt(k, e, s0, p0, t, p + 1)
        BY <2>1, <3>1, <3>4, AdvanceKeeps
      <4>2. /\ IsStep(t) /\ t.ok = TRUE /\ t.pending = st.pending
            /\ t.s.recv_msg_seq = st.s.recv_msg_seq + 1
            /\ st.s.send_msg_seq <= t.s.send_msg_seq /\ t.s.send_msg_seq \in Nat
        <5>1. At(k, e, t.s, p + 1, 0) /\ p + 1 \in Int
          BY <2>2, <3>4 DEF Advances, Reaches
        <5>2. t.s.send_msg_seq \in Nat
          BY <1>1, <5>1, StageFacts
        <5> QED
          BY <3>4, <5>2 DEF Advances, Reaches
      <4>3. s0.send_msg_seq <= t.s.send_msg_seq /\ t.s.recv_msg_seq <= n
        BY <1>1, <2>2, <3>1, <4>2
      <4> QED
        BY <4>1, <4>2, <4>3 DEF Mid
    <3> QED
      BY <3>2, <3>3, <3>4
  <2> QED
    BY <1>1, <2>2, <2>3, <2>4, <2>5
<1> QED
  BY <1>2, <1>3 DEF Mid

-----------------------------------------------------------------------------
(***************************************************************************)
(* Folds over records: parsing, collecting, the retry rounds.              *)
(***************************************************************************)
ParseStep(a, r, t) == parse_record(a, r)
CollectStep(a, r, in) == collect_handshake(a, r, in)
RetryStep(a, r, in) == retry_pending(a, in)

Parses == INSTANCE FoldSteps WITH op <- ParseStep
Collects == INSTANCE FoldSteps WITH op <- CollectStep
Retries == INSTANCE FoldSteps WITH op <- RetryStep

\* r holds the states along the way.
ParseRun(r, st, q, n) ==
  /\ r[0] = st
  /\ \A i \in 1 .. n : r[i] = parse_record(r[i - 1], q[i])
  /\ FoldLeft(parse_record, st, q) = r[n]

LEMMA ParseSteps ==
  ASSUME NEW st, NEW q, NEW n \in Nat, DOMAIN q = 1 .. n
  PROVE  \E r : ParseRun(r, st, q, n)
<1>1. FoldLeft(parse_record, st, q) = Parses!Fold(0, st, q)
  BY DEF ParseStep, Parses!Fold, FoldLeft, MapThenFoldSet, Max,
         Parses!FoldLeft, Parses!MapThenFoldSet, Parses!Max
<1>2. PICK r : Parses!IsRun(r, 0, st, q, n)
  BY Parses!Steps
<1> QED
  BY <1>1, <1>2 DEF ParseStep, ParseRun, Parses!IsRun

CollectAll(st, q, in) == FoldLeft(LAMBDA acc, r : collect_handshake(acc, r, in), st, q)

CollectRun(r, st, q, in, n) ==
  /\ r[0] = st
  /\ \A i \in 1 .. n : r[i] = collect_handshake(r[i - 1], q[i], in)
  /\ CollectAll(st, q, in) = r[n]

LEMMA CollectSteps ==
  ASSUME NEW st, NEW q, NEW in, NEW n \in Nat, DOMAIN q = 1 .. n
  PROVE  \E r : CollectRun(r, st, q, in, n)
<1>1. CollectAll(st, q, in) = Collects!Fold(in, st, q)
  BY DEF CollectAll, CollectStep, Collects!Fold, FoldLeft, MapThenFoldSet, Max,
         Collects!FoldLeft, Collects!MapThenFoldSet, Collects!Max
<1>2. PICK r : Collects!IsRun(r, in, st, q, n)
  BY Collects!Steps
<1> QED
  BY <1>1, <1>2 DEF CollectStep, CollectRun, Collects!IsRun

RetryAll(st, in) ==
  FoldLeft(LAMBDA a, round : retry_pending(a, in), st, [i \in 1 .. PendingRounds |-> i])

RetryRun(r, st, in, n) ==
  /\ r[0] = st
  /\ \A i \in 1 .. n : r[i] = retry_pending(r[i - 1], in)
  /\ RetryAll(st, in) = r[n]

LEMMA RetrySteps ==
  ASSUME NEW st, NEW in
  PROVE  \E r : RetryRun(r, st, in, PendingRounds)
<1> DEFINE q == [i \in 1 .. PendingRounds |-> i]
<1>1. RetryAll(st, in) = Retries!Fold(in, st, q)
  BY DEF RetryAll, RetryStep, Retries!Fold, FoldLeft, MapThenFoldSet, Max,
         Retries!FoldLeft, Retries!MapThenFoldSet, Retries!Max
<1>2. DOMAIN q = 1 .. PendingRounds /\ PendingRounds \in Nat
  BY PendingRoundsAssumption
<1> HIDE DEF q
<1>3. PICK r : Retries!IsRun(r, in, st, q, PendingRounds)
  BY <1>2, Retries!Steps
<1> QED
  BY <1>1, <1>3 DEF RetryStep, RetryRun, Retries!IsRun

\* Nothing happens without a step.
LEMMA SeqDomain ==
  ASSUME NEW q, IsSeq(q)
  PROVE  /\ Len(q) \in Nat /\ DOMAIN q = 1 .. Len(q)
         /\ \A i \in 1 .. Len(q) : q[i] \in Range(q)
BY DEF IsSeq, Range

(***************************************************************************)
(* Parsing changes the receive epoch and sorts the records of a datagram.  *)
(***************************************************************************)
Sorted == {"s", "events", "pending"}

Parsed(st, R, t) ==
  /\ DOMAIN t = DOMAIN st /\ \A f \in DOMAIN st \ Sorted : t[f] = st[f]
  /\ IsSession(t.s) /\ Same(st.s, t.s, {"recv_epoch"})
  /\ IsSeq(t.events) /\ IsSeq(t.pending)
  /\ Range(t.events) \subseteq R /\ Range(t.pending) \subseteq R

LEMMA OpenedParsed ==
  ASSUME NEW st, Sorted \subseteq DOMAIN st, NEW R, NEW a, Parsed(st, R, a), NEW r \in R
  PROVE  /\ Parsed(st, R, Opened(a, r)) /\ Parsed(st, R, Unopened(a, r))
         /\ \A n : Parsed(st, R, [a EXCEPT !.s.recv_epoch = n])
<1>1. /\ IsSeq(Append(a.events, r)) /\ Range(Append(a.events, r)) = Range(a.events) \cup {r}
      /\ IsSeq(Append(a.pending, r)) /\ Range(Append(a.pending, r)) = Range(a.pending) \cup {r}
  BY AppendRange DEF Parsed
<1>2. Parsed(st, R, Opened(a, r))
  <2> DEFINE t == Opened(a, r)
  <2>1. /\ DOMAIN t = DOMAIN a /\ \A f \in DOMAIN a \ {"events"} : t[f] = a[f]
        /\ "events" \in DOMAIN a => t.events = Append(a.events, r)
    BY DEF Opened
  <2> HIDE DEF t
  <2>2. "events" \in DOMAIN a /\ "s" \in DOMAIN a /\ "pending" \in DOMAIN a
    BY DEF Parsed, Sorted
  <2>3. t.s = a.s /\ t.pending = a.pending
    BY <2>1, <2>2
  <2> QED
    BY <1>1, <2>1, <2>2, <2>3 DEF Parsed, Sorted, t
<1>3. Parsed(st, R, Unopened(a, r))
  <2> DEFINE t == Unopened(a, r)
  <2>1. /\ DOMAIN t = DOMAIN a /\ \A f \in DOMAIN a \ {"pending"} : t[f] = a[f]
        /\ "pending" \in DOMAIN a => t.pending = Append(a.pending, r)
    BY DEF Unopened
  <2> HIDE DEF t
  <2>2. "events" \in DOMAIN a /\ "s" \in DOMAIN a /\ "pending" \in DOMAIN a
    BY DEF Parsed, Sorted
  <2>3. t.s = a.s /\ t.events = a.events
    BY <2>1, <2>2
  <2> QED
    BY <1>1, <2>1, <2>2, <2>3 DEF Parsed, Sorted, t
<1>4. ASSUME NEW n PROVE Parsed(st, R, [a EXCEPT !.s.recv_epoch = n])
  <2> DEFINE s2 == [a.s EXCEPT !.recv_epoch = n]
             t == [a EXCEPT !.s = s2]
  <2>1. IsSession(s2) /\ Same(st.s, s2, {"recv_epoch"})
    BY DEF Parsed, IsSession, Same, SessionFields
  <2>2. "events" \in DOMAIN a /\ "s" \in DOMAIN a /\ "pending" \in DOMAIN a
    BY DEF Parsed, Sorted
  <2> HIDE DEF s2
  <2>3. /\ DOMAIN t = DOMAIN a /\ \A f \in DOMAIN a \ {"s"} : t[f] = a[f]
        /\ t.s = s2
    BY <2>2
  <2> HIDE DEF t
  <2>4. t.events = a.events /\ t.pending = a.pending
    BY <2>2, <2>3
  <2>5. Parsed(st, R, t)
    BY <2>1, <2>2, <2>3, <2>4 DEF Parsed, Sorted
  <2> QED
    BY <2>5 DEF t, s2
<1> QED
  BY <1>2, <1>3, <1>4

LEMMA RecordParsed ==
  ASSUME NEW st, Sorted \subseteq DOMAIN st, NEW R, NEW a, Parsed(st, R, a), NEW r \in R
  PROVE  Parsed(st, R, parse_record(a, r))
<1> DEFINE b == [a EXCEPT !.s.recv_epoch = r.epoch + 1]
<1>1. Parsed(st, R, Opened(a, r)) /\ Parsed(st, R, Unopened(a, r)) /\ Parsed(st, R, b)
  BY OpenedParsed
<1> HIDE DEF b
<1>2. Parsed(st, R, Opened(b, r))
  BY <1>1, OpenedParsed
<1>3. parse_dtls13_record(a, r) \in {Opened(a, r), Unopened(a, r)}
  BY DEF parse_dtls13_record
<1>4. parse_dtls12_record(a, r) \in {a, Opened(b, r), Opened(a, r), Unopened(a, r)}
  <2>1. CASE r.epoch # a.s.recv_epoch
    BY <2>1 DEF parse_dtls12_record
  <2>2. CASE r.epoch = a.s.recv_epoch /\ r.ct = "ccs"
    BY <2>2 DEF parse_dtls12_record, b
  <2>3. CASE r.epoch = a.s.recv_epoch /\ r.ct # "ccs"
    BY <2>3 DEF parse_dtls12_record
  <2> QED
    BY <2>1, <2>2, <2>3
<1>5. parse_record(a, r) \in {a, Opened(b, r), Opened(a, r), Unopened(a, r)}
  BY <1>3, <1>4 DEF parse_record
<1> QED
  BY <1>1, <1>2, <1>5

LEMMA DatagramParsed ==
  ASSUME NEW st, Sorted \subseteq DOMAIN st, IsSession(st.s), NEW dg, IsSeq(dg)
  PROVE  Parsed(st, Range(dg), parse_datagram(st, dg))
<1> DEFINE z == [st EXCEPT !.events = <<>>, !.pending = <<>>]
           R == Range(dg)
           n == Len(dg)
<1>1. Parsed(st, R, z)
  <2>1. /\ DOMAIN z = DOMAIN st /\ \A f \in DOMAIN st \ {"events", "pending"} : z[f] = st[f]
        /\ z.events = <<>> /\ z.pending = <<>> /\ z.s = st.s
    BY DEF Sorted
  <2> DEFINE v == <<>>
  <2>2. IsSeq(v) /\ Range(v) = {} /\ z.events = v /\ z.pending = v
    BY <2>1, NothingInEmpty
  <2> HIDE DEF z, R, v
  <2> QED
    BY <2>1, <2>2 DEF Parsed, Same, Sorted
<1>2. n \in Nat /\ DOMAIN dg = 1 .. n /\ \A i \in 1 .. n : dg[i] \in R
  BY SeqDomain
<1> HIDE DEF z, R, n
<1>3. PICK r : ParseRun(r, z, dg, n)
  BY <1>2, ParseSteps
<1> DEFINE K == {i \in Nat : i \in 0 .. n => Parsed(st, R, r[i])}
<1>4. 0 \in K
  BY <1>1, <1>3 DEF ParseRun
<1>5. ASSUME NEW i \in Nat, i \in K PROVE i + 1 \in K
  <2>1. CASE i + 1 \in 0 .. n
    <3> DEFINE j == i + 1
    <3>1. Parsed(st, R, r[i]) /\ j \in 1 .. n /\ j - 1 = i
      BY <1>2, <1>5, <2>1
    <3>2. r[j] = parse_record(r[j - 1], dg[j])
      <4> HIDE DEF j
      <4> QED
        BY <1>3, <3>1 DEF ParseRun
    <3>3. Parsed(st, R, r[j])
      <4> HIDE DEF j
      <4> QED
        BY <1>2, <3>1, <3>2, RecordParsed
    <3> QED
      BY <3>3
  <2> QED
    BY <2>1
<1> HIDE DEF K
<1>6. n \in K
  BY <1>2, <1>4, <1>5, Parses!NatSetInduction
<1>7. Parsed(st, R, r[n])
  BY <1>2, <1>6 DEF K
<1> QED
  BY <1>3, <1>7 DEF parse_datagram, ParseRun, z, R

(***************************************************************************)
(* A whole step.                                                           *)
(***************************************************************************)
\* The handshake records of R are messages the peer has sent.
Legible(k, e, n, R) ==
  \A r \in R : r.ct = "handshake" =>
    /\ r.payload.mseq \in 0 .. n - 1
    /\ r.payload = MessageOf(k, Peer(e), r.payload.mseq)

Unread(k, e, n, st) == IsSeq(st.pending) /\ Legible(k, e, n, Range(st.pending))

LEMMA RecordKeeps ==
  ASSUME NEW k, NEW e, NEW s0, NEW p0, NEW n, Starts(k, e, s0, p0, n),
         NEW st, Mid(k, e, s0, p0, n, st),
         NEW R, Legible(k, e, n, R), NEW r \in R,
         NEW t, t = collect_handshake(st, r, InputOf(k))
  PROVE  Mid(k, e, s0, p0, n, t) /\ t.pending = st.pending
<1>1. CASE r.ct = "handshake"
  <2> DEFINE m == r.payload
             i == m.mseq
  <2>1. i \in 0 .. n - 1 /\ m = MessageOf(k, Peer(e), i) /\ m.mseq = i
    BY <1>1 DEF Legible
  <2>2. t = collect_message(st, m, InputOf(k))
    BY <1>1 DEF collect_handshake
  <2> HIDE DEF m, i
  <2> QED
    BY <2>1, <2>2, CollectKeeps
<1>2. CASE r.ct # "handshake"
  BY <1>2 DEF collect_handshake
<1> QED
  BY <1>1, <1>2

LEMMA CollectAllKeeps ==
  ASSUME NEW k, NEW e, NEW s0, NEW p0, NEW n, Starts(k, e, s0, p0, n),
         NEW st, Mid(k, e, s0, p0, n, st),
         NEW q, IsSeq(q), Legible(k, e, n, Range(q)),
         NEW t, t = CollectAll(st, q, InputOf(k))
  PROVE  Mid(k, e, s0, p0, n, t) /\ t.pending = st.pending
<1> DEFINE R == Range(q)
           l == Len(q)
           Ok(u) == Mid(k, e, s0, p0, n, u) /\ u.pending = st.pending
<1>1. l \in Nat /\ DOMAIN q = 1 .. l /\ \A i \in 1 .. l : q[i] \in R
  BY SeqDomain
<1>2. Legible(k, e, n, R)
  OBVIOUS
<1> HIDE DEF R, l
<1>3. PICK r : CollectRun(r, st, q, InputOf(k), l)
  BY <1>1, CollectSteps
<1>4. ASSUME NEW a, Ok(a), NEW x \in R PROVE Ok(collect_handshake(a, x, InputOf(k)))
  BY <1>2, <1>4, RecordKeeps
<1>5. Ok(st)
  OBVIOUS
<1> HIDE DEF Ok
<1> DEFINE K == {i \in Nat : i \in 0 .. l => Ok(r[i])}
<1>6. 0 \in K
  BY <1>3, <1>5 DEF CollectRun
<1>7. ASSUME NEW i \in Nat, i \in K PROVE i + 1 \in K
  <2>1. CASE i + 1 \in 0 .. l
    <3> DEFINE j == i + 1
    <3>1. Ok(r[i]) /\ j \in 1 .. l /\ j - 1 = i
      BY <1>1, <1>7, <2>1
    <3>2. r[j] = collect_handshake(r[j - 1], q[j], InputOf(k))
      <4> HIDE DEF j
      <4> QED
        BY <1>3, <3>1 DEF CollectRun
    <3>3. Ok(r[j])
      <4> HIDE DEF j
      <4> QED
        BY <1>1, <1>4, <3>1, <3>2
    <3> QED
      BY <3>3
  <2> QED
    BY <2>1
<1> HIDE DEF K
<1>8. l \in K
  BY <1>1, <1>6, <1>7, Parses!NatSetInduction
<1>9. Ok(r[l])
  BY <1>1, <1>8 DEF K
<1> QED
  BY <1>3, <1>9 DEF CollectRun, Ok

LEMMA FeedKeeps ==
  ASSUME NEW k, NEW e, NEW s0, NEW p0, NEW n, Starts(k, e, s0, p0, n),
         NEW st, Mid(k, e, s0, p0, n, st), IsSeq(st.events), Legible(k, e, n, Range(st.events)),
         NEW t, t = feed(st, InputOf(k))
  PROVE  Mid(k, e, s0, p0, n, t) /\ t.pending = st.pending
<1> DEFINE u == note_records(st)
           v == IF st.s.ver = 13 THEN u ELSE st
<1>1. IsStep(st)
  BY DEF Mid
<1>2. /\ IsStep(u) /\ SameStep(st, u, {"s"}) /\ Same(st.s, u.s, {"received_records"})
  BY <1>1 DEF note_records, IsStep, IsSession, SameStep, StepFields, Same, SessionFields
<1> HIDE DEF u
<1>3. /\ SameStep(st, u, Quieter) /\ Same(st.s, u.s, Aside \ {"last_sent"})
      /\ u.pending = st.pending
  BY <1>2 DEF SameStep, StepFields, Quieter, Same, Aside
<1>4. Mid(k, e, s0, p0, n, u)
  BY <1>2, <1>3, MidStays
<1>5. Mid(k, e, s0, p0, n, v) /\ v.pending = st.pending
  BY <1>3, <1>4
<1>6. t = CollectAll(v, st.events, InputOf(k))
  BY DEF feed, CollectAll, u
<1> HIDE DEF v
<1> QED
  BY <1>5, <1>6, CollectAllKeeps

\* A round of parsing and feeding.
LEMMA RoundKeeps ==
  ASSUME NEW k, NEW e, NEW s0, NEW p0, NEW n, Starts(k, e, s0, p0, n),
         NEW st, Mid(k, e, s0, p0, n, st),
         NEW dg, IsSeq(dg), Legible(k, e, n, Range(dg)),
         NEW t, t = feed(parse_datagram(st, dg), InputOf(k))
  PROVE  Mid(k, e, s0, p0, n, t) /\ Unread(k, e, n, t)
<1> DEFINE u == parse_datagram(st, dg)
<1>1. IsStep(st) /\ Sorted \subseteq DOMAIN st /\ IsSession(st.s)
  BY DEF Mid, IsStep, StepFields, Sorted
<1>2. Parsed(st, Range(dg), u)
  BY <1>1, DatagramParsed
<1> HIDE DEF u
<1>3. /\ IsStep(u) /\ SameStep(st, u, Quieter) /\ Same(st.s, u.s, Aside \ {"last_sent"})
  BY <1>1, <1>2 DEF Parsed, IsStep, SameStep, StepFields, Quieter, Sorted, Same, Aside
<1>4. Mid(k, e, s0, p0, n, u)
  BY <1>3, MidStays
<1>5. /\ IsSeq(u.events) /\ Legible(k, e, n, Range(u.events))
      /\ IsSeq(u.pending) /\ Legible(k, e, n, Range(u.pending))
  BY <1>2 DEF Parsed, Legible
<1>6. t = feed(u, InputOf(k))
  BY DEF u
<1> QED
  BY <1>4, <1>5, <1>6, FeedKeeps DEF Unread

LEMMA RetryKeeps ==
  ASSUME NEW k, NEW e, NEW s0, NEW p0, NEW n, Starts(k, e, s0, p0, n),
         NEW st, Mid(k, e, s0, p0, n, st), Unread(k, e, n, st),
         NEW t, t = retry_pending(st, InputOf(k))
  PROVE  Mid(k, e, s0, p0, n, t) /\ Unread(k, e, n, t)
<1>1. CASE st.ok /\ st.pending # <<>>
  <2>1. t = feed(parse_datagram(st, st.pending), InputOf(k))
    BY <1>1 DEF retry_pending
  <2> QED
    BY <2>1, RoundKeeps DEF Unread
<1>2. CASE ~(st.ok /\ st.pending # <<>>)
  BY <1>2 DEF retry_pending
<1> QED
  BY <1>1, <1>2

LEMMA RetryAllKeeps ==
  ASSUME NEW k, NEW e, NEW s0, NEW p0, NEW n, Starts(k, e, s0, p0, n),
         NEW st, Mid(k, e, s0, p0, n, st), Unread(k, e, n, st),
         NEW t, t = RetryAll(st, InputOf(k))
  PROVE  Mid(k, e, s0, p0, n, t)
<1> DEFINE l == PendingRounds
           Ok(u) == Mid(k, e, s0, p0, n, u) /\ Unread(k, e, n, u)
<1>1. l \in Nat
  BY PendingRoundsAssumption
<1>2. PICK r : RetryRun(r, st, InputOf(k), l)
  BY RetrySteps
<1>3. ASSUME NEW a, Ok(a) PROVE Ok(retry_pending(a, InputOf(k)))
  BY <1>3, RetryKeeps
<1>4. Ok(st)
  OBVIOUS
<1> HIDE DEF l, Ok
<1> DEFINE K == {i \in Nat : i \in 0 .. l => Ok(r[i])}
<1>5. 0 \in K
  BY <1>2, <1>4 DEF RetryRun
<1>6. ASSUME NEW i \in Nat, i \in K PROVE i + 1 \in K
  <2>1. CASE i + 1 \in 0 .. l
    <3> DEFINE j == i + 1
    <3>1. Ok(r[i]) /\ j \in 1 .. l /\ j - 1 = i
      BY <1>1, <1>6, <2>1
    <3>2. r[j] = retry_pending(r[j - 1], InputOf(k))
      <4> HIDE DEF j
      <4> QED
        BY <1>2, <3>1 DEF RetryRun
    <3>3. Ok(r[j])
      <4> HIDE DEF j
      <4> QED
        BY <1>3, <3>1, <3>2
    <3> QED
      BY <3>3
  <2> QED
    BY <2>1
<1> HIDE DEF K
<1>7. l \in K
  BY <1>1, <1>5, <1>6, Parses!NatSetInduction
<1>8. Ok(r[l])
  BY <1>1, <1>7 DEF K
<1> QED
  BY <1>2, <1>8 DEF RetryRun, Ok

\* What a step on a datagram makes of a session at stage p0.
LEMMA ConsumeKeeps ==
  ASSUME NEW k, NEW e, NEW s0, NEW p0, NEW n, Starts(k, e, s0, p0, n),
         At(k, e, s0, p0, 0), s0.handshake_done = FALSE, s0.recv_msg_seq <= n,
         NEW dg, IsSeq(dg), Legible(k, e, n, Range(dg)),
         NEW t, t = consume(s0, dg, InputOf(k))
  PROVE  Mid(k, e, s0, p0, n, t)
<1> DEFINE start == [s |-> s0, events |-> <<>>, pending |-> <<>>, response |-> <<>>,
                     build |-> FALSE, got_shd |-> FALSE, done |-> FALSE, ok |-> TRUE]
           u == feed(parse_datagram(start, dg), InputOf(k))
<1>1. IsSession(s0) /\ s0.send_msg_seq \in Nat /\ p0 \in -1 .. 6
  BY DEF At, Own, Starts
<1>2. MidAt(k, e, s0, p0, start, p0)
  BY <1>1 DEF MidAt, Starts
<1>3. IsStep(start)
  BY <1>1 DEF IsStep, StepFields
<1>4. Mid(k, e, s0, p0, n, start)
  <2>1. p0 \in p0 .. 6 /\ s0.send_msg_seq <= s0.send_msg_seq
    BY <1>1
  <2> QED
    BY <1>1, <1>2, <1>3, <2>1 DEF Mid
<1> HIDE DEF start
<1>5. Mid(k, e, s0, p0, n, u) /\ Unread(k, e, n, u)
  BY <1>4, RoundKeeps
<1>6. t = RetryAll(u, InputOf(k))
  BY DEF consume, RetryAll, start
<1> HIDE DEF u
<1> QED
  BY <1>5, <1>6, RetryAllKeeps

(***************************************************************************)
(* What a handshake step leaves behind.                                    *)
(***************************************************************************)
\* What was sent last is as before, or a new flight.
Resent(k, e, s0, t) ==
  \/ t.s.last_sent = s0.last_sent
  \/ /\ Flight(k, e, t.s.send_msg_seq, t.s.last_sent) /\ AckOnce(Range(t.s.last_sent))
     /\ t.s.handshake_done = FALSE => NoAck(Range(t.s.last_sent))
     /\ t.out = t.s.last_sent

Stepped(k, e, s0, p0, n, t) ==
  /\ t.ok \in BOOLEAN /\ IsSession(t.s)
  /\ t.s.send_msg_seq \in Nat /\ s0.send_msg_seq <= t.s.send_msg_seq
  /\ t.s.recv_msg_seq <= n
  /\ t.ok = FALSE => Failed(k, e, t.s)
  /\ t.ok = TRUE =>
       /\ \E p \in p0 .. 6 : At(k, e, t.s, p, 0) /\ (k.ver = 12 /\ e = "client" => p # 4)
       /\ t.s.handshake_done = TRUE => t.done = TRUE
       /\ t.s.handshake_done = FALSE => t.done = FALSE
       /\ Resent(k, e, s0, t)
       /\ t.out = t.s.last_sent \/ t.out = <<>>

\* The end of a step that is not in the middle of a flight of the peer.
LEMMA FinishSteps ==
  ASSUME NEW k, NEW e, NEW s0, NEW p0 \in -1 .. 6, NEW n, NEW st, IsStep(st), st.ok \in BOOLEAN,
         st.s.send_msg_seq \in Nat, s0.send_msg_seq <= st.s.send_msg_seq,
         st.s.recv_msg_seq <= n,
         st.ok = FALSE => Failed(k, e, st.s),
         st.ok = TRUE =>
           /\ \E p \in p0 .. 6 : At(k, e, st.s, p, 0) /\ (k.ver = 12 /\ e = "client" => p # 4)
           /\ st.s.last_sent = s0.last_sent /\ st.build \in BOOLEAN
           /\ st.s.handshake_done = TRUE => st.done = TRUE
           /\ st.s.handshake_done = FALSE => st.done = FALSE
           /\ st.build = TRUE => Answers(k, e, st),
         NEW t, t = finish_step(st)
  PROVE  Stepped(k, e, s0, p0, n, t)
<1>1. /\ IsSession(t.s) /\ Same(st.s, t.s, {"last_sent", "retransmit_requested"})
      /\ t.s.last_sent = IF st.build THEN st.response ELSE st.s.last_sent
      /\ t.out = t.s.last_sent \/ t.out = <<>>
      /\ st.build => t.out = st.response
      /\ t.done = st.done /\ t.ok = st.ok
  BY FinishStepFields
<1>2. Same(st.s, t.s, Aside)
  BY <1>1 DEF Same, Aside
<1>3. /\ \A p, d : At(k, e, st.s, p, d) => At(k, e, t.s, p, d)
      /\ Failed(k, e, st.s) => Failed(k, e, t.s)
      /\ t.s.send_msg_seq = st.s.send_msg_seq /\ t.s.recv_msg_seq = st.s.recv_msg_seq
      /\ t.s.handshake_done = st.s.handshake_done
  BY <1>1, <1>2, AsideFields
<1>4. ASSUME st.ok = TRUE PROVE Resent(k, e, s0, t)
  <2>1. CASE st.build = TRUE
    BY <1>1, <1>3, <1>4, <2>1 DEF Answers, Resent
  <2>2. CASE st.build = FALSE
    BY <1>1, <1>4, <2>2 DEF Resent
  <2> QED
    BY <1>4, <2>1, <2>2
<1>5. ASSUME st.ok = TRUE
      PROVE  \E p \in p0 .. 6 : At(k, e, t.s, p, 0) /\ (k.ver = 12 /\ e = "client" => p # 4)
  BY <1>3, <1>5
<1> QED
  BY <1>1, <1>3, <1>4, <1>5 DEF Stepped

LEMMA HandshakeSteps ==
  ASSUME NEW k, NEW e, NEW s0, NEW p0, NEW n, Starts(k, e, s0, p0, n),
         At(k, e, s0, p0, 0), s0.handshake_done = FALSE, s0.recv_msg_seq <= n,
         NEW dg, IsSeq(dg), Legible(k, e, n, Range(dg)),
         NEW t, t = dtls_handshake_step(s0, dg, InputOf(k))
  PROVE  Stepped(k, e, s0, p0, n, t)
<1> DEFINE st == consume(s0, dg, InputOf(k))
           u == client_flight12(start_response(st))
<1>1. Mid(k, e, s0, p0, n, st)
  BY ConsumeKeeps
<1>2. s0.role = e /\ k \in Environments /\ e \in Endpoint /\ p0 \in -1 .. 6
  BY DEF At, Own, Starts
<1>3. t = IF e = "server" THEN finish_step(st)
          ELSE finish_step(IF st.ok /\ ~st.build /\ st.got_shd /\ st.s.ver = 12 THEN u ELSE st)
  BY <1>2 DEF dtls_handshake_step, server_step, client_step
<1> HIDE DEF st, u
<1>4. /\ IsStep(st) /\ st.ok \in BOOLEAN
      /\ st.s.send_msg_seq \in Nat /\ s0.send_msg_seq <= st.s.send_msg_seq
      /\ st.s.recv_msg_seq <= n
      /\ st.ok = FALSE => Failed(k, e, st.s)
  BY <1>1 DEF Mid
<1>5. ASSUME st.ok = TRUE, NEW p \in p0 .. 6, MidAt(k, e, s0, p0, st, p),
             k.ver = 12 /\ e = "client" => p # 4, t = finish_step(st)
      PROVE  Stepped(k, e, s0, p0, n, t)
  <2>1. /\ At(k, e, st.s, p, 0)
        /\ st.s.last_sent = s0.last_sent /\ st.build \in BOOLEAN
        /\ st.s.handshake_done = TRUE => st.done = TRUE
        /\ st.s.handshake_done = FALSE => st.done = FALSE
        /\ st.build = TRUE => Answers(k, e, st)
    BY <1>5 DEF MidAt
  <2>2. \E q \in p0 .. 6 : At(k, e, st.s, q, 0) /\ (k.ver = 12 /\ e = "client" => q # 4)
    BY <1>5, <2>1
  <2> QED
    BY <1>2, <1>4, <1>5, <2>1, <2>2, FinishSteps
<1>6. CASE st.ok = FALSE
  <2>1. t = finish_step(st)
    BY <1>3, <1>6
  <2> QED
    BY <1>2, <1>4, <1>6, <2>1, FinishSteps
<1>7. ASSUME st.ok = TRUE PROVE Stepped(k, e, s0, p0, n, t)
  <2>1. PICK p \in p0 .. 6 : MidAt(k, e, s0, p0, st, p)
    BY <1>1, <1>7 DEF Mid
  <2>2. At(k, e, st.s, p, 0) /\ st.s.ver = k.ver
    BY <2>1 DEF MidAt, At, Own
  <2>3. CASE e = "server"
    <3>1. t = finish_step(st) /\ e # "client"
      BY <1>3, <2>3
    <3> QED
      BY <1>5, <1>7, <2>1, <3>1
  <2>4. CASE e = "client" /\ k.ver # 12
    <3>1. t = finish_step(st)
      BY <1>3, <2>2, <2>4
    <3> QED
      BY <1>5, <1>7, <2>1, <2>4, <3>1
  <2>5. CASE e = "client" /\ k.ver = 12 /\ p # 4
    <3>1. st.got_shd = FALSE
      BY <2>1, <2>5 DEF MidAt
    <3>2. t = finish_step(st)
      BY <1>3, <2>5, <3>1
    <3> QED
      BY <1>5, <1>7, <2>1, <2>5, <3>2
  <2>6. CASE e = "client" /\ k.ver = 12 /\ p = 4
    <3>1. st.got_shd = TRUE /\ st.build = FALSE
      <4>1. st.got_shd = TRUE /\ (st.build = TRUE => p = 0) /\ st.build \in BOOLEAN
        BY <2>1, <2>6 DEF MidAt
      <4> QED
        BY <2>6, <4>1
    <3>2. t = finish_step(u)
      BY <1>3, <1>7, <2>2, <2>6, <3>1
    <3>3. /\ IsStep(u) /\ u.ok = TRUE /\ At(k, e, u.s, 5, 0)
          /\ u.s.last_sent = st.s.last_sent /\ u.done = st.done
          /\ u.build = TRUE /\ Flight(k, e, u.s.send_msg_seq, u.response)
          /\ NoAck(Range(u.response))
      <4>1. At(k, "client", st.s, 4, 0)
        BY <2>2, <2>6
      <4> QED
        BY <1>2, <1>4, <1>7, <2>6, <4>1, ClientFlight12 DEF u
    <3>4. Cookies(k) \in {0, 1}
      BY <1>2, EnvironmentFacts
    <3>5. /\ ClientAt12(k, st.s, 4, 0) /\ ClientAt12(k, u.s, 5, 0)
      BY <2>2, <2>6, <3>3 DEF At
    <3>6. /\ u.s.send_msg_seq = Cookies(k) + 3 /\ u.s.recv_msg_seq = Cookies(k) + 4
          /\ u.s.handshake_done = FALSE
      BY <3>4, <3>5 DEF ClientAt12
    <3>7. /\ st.s.send_msg_seq = Cookies(k) + 1 /\ st.s.recv_msg_seq = Cookies(k) + 4
          /\ st.s.handshake_done = FALSE
      BY <3>4, <3>5 DEF ClientAt12
    <3>8. /\ u.s.send_msg_seq \in Nat /\ s0.send_msg_seq <= u.s.send_msg_seq
          /\ u.s.recv_msg_seq <= n
      <4>1. s0.send_msg_seq \in Nat
        BY DEF Starts
      <4> QED
        BY <1>4, <3>4, <3>6, <3>7, <4>1
    <3>9. Answers(k, e, u)
      BY <3>3 DEF Answers, AckOnce, NoAck
    <3>10. st.done = FALSE /\ st.s.last_sent = s0.last_sent
      BY <2>1, <3>7 DEF MidAt
    <3>11. \E q \in p0 .. 6 : At(k, e, u.s, q, 0) /\ (k.ver = 12 /\ e = "client" => q # 4)
      <4>1. 5 \in p0 .. 6
        BY <1>2, <2>6
      <4> QED
        BY <3>3, <4>1
    <3>12. /\ u.s.last_sent = s0.last_sent /\ u.build \in BOOLEAN /\ u.ok \in BOOLEAN
           /\ u.done = FALSE
      BY <3>3, <3>10
    <3> QED
      BY <1>2, <3>2, <3>3, <3>6, <3>8, <3>9, <3>11, <3>12, FinishSteps
  <2> QED
    BY <1>2, <2>3, <2>4, <2>5, <2>6 DEF Endpoint
<1> QED
  BY <1>4, <1>6, <1>7

-----------------------------------------------------------------------------
(***************************************************************************)
(* The two sides.                                                          *)
(***************************************************************************)
\* What is known of the session of an endpoint, at any moment.
Known(k, e, s) ==
  \/ Failed(k, e, s)
  \/ e = "client" /\ s = Started(k, e)
  \/ \E p \in -1 .. 6, d \in Nat : At(k, e, s, p, d)

\* How far the peer is follows from how much it has handled.
LEMMA PeerWithin ==
  ASSUME NEW k \in Environments, NEW e \in Endpoint, NEW s, NEW p \in -1 .. 6, At(k, e, s, p, 0),
         NEW s2, Known(k, Peer(e), s2), s2.recv_msg_seq <= s.send_msg_seq
  PROVE  Within(k, e, p, s2.send_msg_seq) /\ s2.send_msg_seq \in Nat
<1>1. /\ k.ver \in {12, 13} /\ Cookies(k) \in {0, 1} /\ (k.ver = 13 => Cookies(k) = 0)
  BY EnvironmentFacts
<1>2. CASE e = "client" /\ k.ver = 12
  <2>1. ClientAt12(k, s, p, 0) /\ Peer(e) = "server" /\ "server" # "client"
    BY <1>2 DEF At, Peer
  <2>2. /\ p = -1 => Cookies(k) = 1 /\ s.send_msg_seq = 1
        /\ p \in 0 .. 3 => s.send_msg_seq = Cookies(k) + 1
    BY <1>1, <2>1 DEF ClientAt12
  <2>3. CASE Failed(k, "server", s2)
    <3>1. s2.send_msg_seq \in Nat /\ s2.send_msg_seq <= Cookies(k)
      BY <2>3 DEF Failed
    <3> QED
      BY <1>1, <1>2, <2>1, <3>1 DEF Within
  <2>4. ASSUME NEW q \in -1 .. 6, NEW d, At(k, "server", s2, q, d)
        PROVE  Within(k, e, p, s2.send_msg_seq) /\ s2.send_msg_seq \in Nat
    <3>1. ServerAt12(k, s2, q, d)
      BY <1>2, <2>1, <2>4 DEF At
    <3>2. /\ q \in -1 .. 3 /\ s2.recv_msg_seq = Cookies(k) + q
          /\ q = -1 => s2.send_msg_seq = 0
          /\ q = 0 => s2.send_msg_seq = Cookies(k)
          /\ q \in {1, 2} => s2.send_msg_seq = Cookies(k) + 4
          /\ q = 3 => s2.send_msg_seq = Cookies(k) + 5
      BY <1>1, <3>1 DEF ServerAt12
    <3>3. s2.send_msg_seq \in Nat /\ s2.send_msg_seq <= Cookies(k) + 5
      BY <1>1, <3>2
    <3>4. p = -1 => s2.send_msg_seq <= 1
      BY <1>1, <2>2, <3>2
    <3>5. p \in 0 .. 3 => s2.send_msg_seq <= Cookies(k) + 4
      BY <1>1, <2>2, <3>2
    <3> QED
      BY <1>2, <3>3, <3>4, <3>5 DEF Within
  <2> QED
    BY <2>1, <2>3, <2>4 DEF Known
<1>3. CASE e = "server" /\ k.ver = 12
  <2>1. ServerAt12(k, s, p, 0) /\ Peer(e) = "client"
    BY <1>3 DEF At, Peer
  <2>2. /\ p = -1 => Cookies(k) = 1 /\ s.send_msg_seq = 0
        /\ p = 0 => s.send_msg_seq = Cookies(k)
    BY <1>1, <2>1 DEF ServerAt12
  <2>3. CASE Failed(k, "client", s2)
    <3>1. /\ s2.send_msg_seq \in Nat /\ s2.send_msg_seq <= Cookies(k) + 1
          /\ s2.recv_msg_seq \in Nat /\ s2.recv_msg_seq >= Cookies(k) + 1
      BY <2>3 DEF Failed
    <3>2. p # -1
      BY <1>1, <2>2, <3>1
    <3> QED
      BY <1>1, <1>3, <3>1, <3>2 DEF Within
  <2>4. ASSUME NEW q \in -1 .. 6, NEW d, At(k, "client", s2, q, d)
        PROVE  Within(k, e, p, s2.send_msg_seq) /\ s2.send_msg_seq \in Nat
    <3>1. ClientAt12(k, s2, q, d)
      BY <1>3, <2>4 DEF At
    <3>2. /\ q <= 4 => s2.recv_msg_seq = Cookies(k) + q
          /\ q >= 5 => s2.recv_msg_seq = Cookies(k) + q - 1 /\ s2.send_msg_seq = Cookies(k) + 3
          /\ q = -1 => s2.send_msg_seq = 1
          /\ q \in 0 .. 4 => s2.send_msg_seq = Cookies(k) + 1
      BY <3>1 DEF ClientAt12
    <3>3. s2.send_msg_seq \in Nat /\ s2.send_msg_seq <= Cookies(k) + 3
      BY <1>1, <3>2
    <3>4. p = -1 => q = -1
      BY <1>1, <2>2, <3>2
    <3>5. p = 0 => q <= 0
      BY <1>1, <2>2, <3>2
    <3>6. p = -1 => s2.send_msg_seq <= 1
      BY <3>2, <3>4
    <3>7. p = 0 => s2.send_msg_seq <= Cookies(k) + 1
      BY <1>1, <3>2, <3>5
    <3> QED
      BY <1>1, <1>3, <3>3, <3>6, <3>7, "client" # "server" DEF Within
  <2>5. CASE s2 = Started(k, "client")
    <3>1. s2.send_msg_seq = 0
      <4>1. Started(k, "client").send_msg_seq = 0
        BY DEF Started, NewSession
      <4> QED
        BY <2>5, <4>1
    <3> QED
      BY <1>1, <1>3, <3>1 DEF Within
  <2> QED
    BY <2>1, <2>3, <2>4, <2>5 DEF Known
<1>4. CASE e = "client" /\ k.ver = 13
  <2>1. Peer(e) = "server" /\ "server" # "client" /\ Cookies(k) = 0 /\ 12 # 13
    BY <1>1, <1>4 DEF Peer
  <2>2. CASE Failed(k, "server", s2)
    <3>1. s2.send_msg_seq \in Nat /\ s2.send_msg_seq <= Cookies(k)
      BY <2>2 DEF Failed
    <3> QED
      BY <1>4, <2>1, <3>1 DEF Within
  <2>3. ASSUME NEW q \in -1 .. 6, NEW d, At(k, "server", s2, q, d)
        PROVE  Within(k, e, p, s2.send_msg_seq) /\ s2.send_msg_seq \in Nat
    <3>1. ServerAt13(k, s2, q, d)
      BY <1>4, <2>1, <2>3 DEF At
    <3>2. s2.send_msg_seq \in Nat /\ s2.send_msg_seq <= 5
      BY <3>1 DEF ServerAt13
    <3> QED
      BY <1>4, <2>1, <3>2 DEF Within
  <2> QED
    BY <2>1, <2>2, <2>3 DEF Known
<1>5. CASE e = "server" /\ k.ver = 13
  <2>1. Peer(e) = "client" /\ Cookies(k) = 0 /\ 12 # 13
    BY <1>1, <1>5 DEF Peer
  <2>2. ServerAt13(k, s, p, 0)
    BY <1>5, <2>1 DEF At
  <2>3. p = 0 => s.send_msg_seq = 0
    BY <2>2 DEF ServerAt13
  <2>4. p \in 0 .. 2
    BY <2>2 DEF ServerAt13
  <2>5. CASE Failed(k, "client", s2)
    <3>1. /\ s2.send_msg_seq \in Nat /\ s2.send_msg_seq <= Cookies(k) + 1
          /\ s2.recv_msg_seq \in Nat /\ s2.recv_msg_seq >= Cookies(k) + 1
      BY <2>5 DEF Failed
    <3> QED
      BY <1>5, <2>1, <3>1 DEF Within
  <2>6. ASSUME NEW q \in -1 .. 6, NEW d, At(k, "client", s2, q, d)
        PROVE  Within(k, e, p, s2.send_msg_seq) /\ s2.send_msg_seq \in Nat
    <3>1. ClientAt13(k, s2, q, d)
      BY <1>5, <2>1, <2>6 DEF At
    <3>2. /\ q \in 0 .. 5 /\ s2.recv_msg_seq = q
          /\ q <= 4 => s2.send_msg_seq = 1
          /\ q = 5 => s2.send_msg_seq = 2
      BY <3>1 DEF ClientAt13
    <3>3. s2.send_msg_seq \in Nat /\ s2.send_msg_seq <= 2
      BY <3>2
    <3>4. p = 0 => s2.send_msg_seq <= 1
      BY <2>3, <3>2
    <3> QED
      BY <1>5, <2>1, <2>4, <3>3, <3>4, "client" # "server" DEF Within
  <2>7. CASE s2 = Started(k, "client")
    <3>1. s2.send_msg_seq = 0
      <4>1. Started(k, "client").send_msg_seq = 0
        BY DEF Started, NewSession
      <4> QED
        BY <2>7, <4>1
    <3> QED
      BY <1>5, <2>1, <3>1 DEF Within
  <2> QED
    BY <2>1, <2>5, <2>6, <2>7 DEF Known
<1> QED
  BY <1>1, <1>2, <1>3, <1>4, <1>5 DEF Endpoint

\* What a session that is done knows about the other one.
Agree(s, s2) ==
  /\ s.keys # NoKey /\ s.keys = s2.keys
  /\ s.cipher_suite = s2.cipher_suite
  /\ s2.handshake_done = TRUE => s.app_keys = s2.app_keys /\ s.transcript = s2.transcript

LEMMA DoneAgree ==
  ASSUME NEW k \in Environments, NEW e \in Endpoint,
         NEW s, NEW p \in -1 .. 6, NEW d, At(k, e, s, p, d), s.handshake_done = TRUE,
         NEW s2, Known(k, Peer(e), s2), s.recv_msg_seq <= s2.send_msg_seq
  PROVE  k.usable /\ k.trusted /\ Agree(s, s2)
<1>1. /\ k.ver \in {12, 13} /\ Cookies(k) \in {0, 1} /\ (k.ver = 13 => Cookies(k) = 0)
  BY EnvironmentFacts
<1>2. Keys12(k) # NoKey /\ Keys13(k) # NoKey
  BY DEF Keys12, Keys13, NoKey
<1>3. CASE e = "client" /\ k.ver = 12
  <2>1. ClientAt12(k, s, p, d) /\ Peer(e) = "server" /\ "server" # "client"
    BY <1>3 DEF At, Peer
  <2>2. /\ s.recv_msg_seq = Cookies(k) + 5 /\ s.keys = Keys12(k) /\ s.cipher_suite = Suite(k)
        /\ s.app_keys = NoKey /\ s.transcript = Heard8(k) /\ k.trusted
    <3>1. p = 6
      BY <2>1 DEF ClientAt12
    <3> QED
      BY <1>1, <2>1, <3>1 DEF ClientAt12
  <2>3. ~Failed(k, "server", s2)
    <3>1. ASSUME Failed(k, "server", s2) PROVE FALSE
      <4>1. s2.send_msg_seq \in Nat /\ s2.send_msg_seq <= Cookies(k)
        BY <3>1 DEF Failed
      <4> QED
        BY <1>1, <2>2, <4>1
    <3> QED
      BY <3>1
  <2>4. PICK q \in -1 .. 6, d2 \in Nat : At(k, "server", s2, q, d2)
    BY <2>1, <2>3 DEF Known
  <2>5. ServerAt12(k, s2, q, d2)
    BY <1>3, <2>1, <2>4 DEF At
  <2>6. q = 3
    <3>1. /\ q \in -1 .. 3
          /\ q = -1 => s2.send_msg_seq = 0
          /\ q = 0 => s2.send_msg_seq = Cookies(k)
          /\ q \in {1, 2} => s2.send_msg_seq = Cookies(k) + 4
      BY <1>1, <2>5 DEF ServerAt12
    <3> QED
      BY <1>1, <2>2, <3>1
  <2>7. /\ s2.keys = Keys12(k) /\ s2.cipher_suite = Suite(k) /\ s2.app_keys = NoKey
        /\ s2.transcript = Heard8(k) /\ k.usable
    BY <2>5, <2>6 DEF ServerAt12
  <2> QED
    BY <1>2, <2>2, <2>7 DEF Agree
<1>4. CASE e = "server" /\ k.ver = 12
  <2>1. ServerAt12(k, s, p, d) /\ Peer(e) = "client" /\ "server" # "client"
    BY <1>4 DEF At, Peer
  <2>2. /\ s.recv_msg_seq = Cookies(k) + 3 /\ s.keys = Keys12(k) /\ s.cipher_suite = Suite(k)
        /\ s.app_keys = NoKey /\ s.transcript = Heard8(k) /\ k.usable
    <3>1. p = 3
      BY <2>1 DEF ServerAt12
    <3> QED
      BY <1>1, <2>1, <3>1 DEF ServerAt12
  <2>3. ~Failed(k, "client", s2)
    <3>1. ASSUME Failed(k, "client", s2) PROVE FALSE
      <4>1. s2.send_msg_seq \in Nat /\ s2.send_msg_seq <= Cookies(k) + 1
        BY <3>1 DEF Failed
      <4> QED
        BY <1>1, <2>2, <4>1
    <3> QED
      BY <3>1
  <2>4. s2 # Started(k, "client")
    <3>1. Started(k, "client").send_msg_seq = 0
      BY DEF Started, NewSession
    <3> QED
      BY <1>1, <2>2, <3>1
  <2>5. PICK q \in -1 .. 6, d2 \in Nat : At(k, "client", s2, q, d2)
    BY <2>1, <2>3, <2>4 DEF Known
  <2>6. ClientAt12(k, s2, q, d2)
    BY <1>4, <2>5 DEF At
  <2>7. q \in {5, 6}
    <3>1. /\ q = -1 => s2.send_msg_seq = 1
          /\ q \in 0 .. 4 => s2.send_msg_seq = Cookies(k) + 1
      BY <2>6 DEF ClientAt12
    <3> QED
      BY <1>1, <2>2, <3>1
  <2>8. /\ s2.keys = Keys12(k) /\ s2.cipher_suite = Suite(k) /\ s2.app_keys = NoKey
        /\ k.trusted /\ (s2.handshake_done = TRUE => s2.transcript = Heard8(k))
    BY <2>6, <2>7 DEF ClientAt12
  <2> QED
    BY <1>2, <2>2, <2>8 DEF Agree
<1>5. CASE e = "client" /\ k.ver = 13
  <2>1. ClientAt13(k, s, p, d) /\ Peer(e) = "server" /\ "server" # "client" /\ 12 # 13
    BY <1>5, 12 # 13 DEF At, Peer
  <2>2. /\ s.recv_msg_seq = 5 /\ s.keys = Keys13(k) /\ s.cipher_suite = Suite(k)
        /\ s.app_keys = AppKeys(k) /\ s.transcript = Read7(k) /\ k.trusted
    <3>1. p = 5
      BY <2>1 DEF ClientAt13
    <3> QED
      BY <2>1, <3>1 DEF ClientAt13
  <2>3. ~Failed(k, "server", s2)
    <3>1. ASSUME Failed(k, "server", s2) PROVE FALSE
      <4>1. s2.send_msg_seq \in Nat /\ s2.send_msg_seq <= Cookies(k)
        BY <2>1, <3>1 DEF Failed
      <4> QED
        BY <1>1, <1>5, <2>2, <4>1
    <3> QED
      BY <3>1
  <2>4. PICK q \in -1 .. 6, d2 \in Nat : At(k, "server", s2, q, d2)
    BY <2>1, <2>3 DEF Known
  <2>5. ServerAt13(k, s2, q, d2)
    BY <1>5, <2>1, <2>4 DEF At
  <2>6. q \in {1, 2}
    <3>1. q \in 0 .. 2 /\ (q = 0 => s2.send_msg_seq = 0)
      BY <2>5 DEF ServerAt13
    <3> QED
      BY <2>2, <3>1
  <2>7. /\ s2.keys = Keys13(k) /\ s2.cipher_suite = Suite(k) /\ s2.app_keys = AppKeys(k)
        /\ k.usable /\ (s2.handshake_done = TRUE => s2.transcript = Read7(k))
    BY <2>5, <2>6 DEF ServerAt13
  <2> QED
    BY <1>2, <2>2, <2>7 DEF Agree
<1>6. CASE e = "server" /\ k.ver = 13
  <2>1. ServerAt13(k, s, p, d) /\ Peer(e) = "client" /\ "server" # "client" /\ 12 # 13
    BY <1>6, 12 # 13 DEF At, Peer
  <2>2. /\ s.recv_msg_seq = 2 /\ s.keys = Keys13(k) /\ s.cipher_suite = Suite(k)
        /\ s.app_keys = AppKeys(k) /\ s.transcript = Read7(k) /\ k.usable
    <3>1. p = 2
      BY <2>1 DEF ServerAt13
    <3> QED
      BY <2>1, <3>1 DEF ServerAt13
  <2>3. ~Failed(k, "client", s2)
    <3>1. ASSUME Failed(k, "client", s2) PROVE FALSE
      <4>1. s2.send_msg_seq \in Nat /\ s2.send_msg_seq <= Cookies(k) + 1
        BY <3>1 DEF Failed
      <4> QED
        BY <1>1, <1>6, <2>2, <4>1
    <3> QED
      BY <3>1
  <2>4. s2 # Started(k, "client")
    <3>1. Started(k, "client").send_msg_seq = 0
      BY DEF Started, NewSession
    <3> QED
      BY <2>2, <3>1
  <2>5. PICK q \in -1 .. 6, d2 \in Nat : At(k, "client", s2, q, d2)
    BY <2>1, <2>3, <2>4 DEF Known
  <2>6. ClientAt13(k, s2, q, d2)
    BY <1>6, <2>1, <2>5 DEF At
  <2>7. q = 5
    <3>1. q \in 0 .. 5 /\ (q <= 4 => s2.send_msg_seq = 1)
      BY <2>6 DEF ClientAt13
    <3> QED
      BY <2>2, <3>1
  <2>8. /\ s2.keys = Keys13(k) /\ s2.cipher_suite = Suite(k) /\ s2.app_keys = AppKeys(k)
        /\ k.trusted /\ s2.transcript = Read7(k)
    BY <2>6, <2>7 DEF ClientAt13
  <2> QED
    BY <1>2, <2>2, <2>8 DEF Agree
<1> QED
  BY <1>1, <1>3, <1>4, <1>5, <1>6 DEF Endpoint

\* Application data is sent at the last stage only, and numbered one after another.
LEMMA DataStage ==
  ASSUME NEW k \in Environments, NEW e \in Endpoint, NEW s, NEW p \in -1 .. 6, NEW d \in Nat,
         At(k, e, s, p, d), s.handshake_done = TRUE,
         NEW s2, s2 = [s EXCEPT !.send_seq = @ + 1]
  PROVE  At(k, e, s2, p, d + 1) /\ <<s.send_epoch, s.send_seq>> = DataNumber(k, d + 1)
<1>1. /\ s2.role = s.role /\ s2.ver = s.ver /\ s2.require_cookie = s.require_cookie
      /\ s2.recv_msg_seq = s.recv_msg_seq /\ s2.send_msg_seq = s.send_msg_seq
      /\ s2.client_random = s.client_random /\ s2.app_keys = s.app_keys /\ s2.ks_pub = s.ks_pub
      /\ s2.transcript = s.transcript /\ s2.server_random = s.server_random
      /\ s2.cipher_suite = s.cipher_suite /\ s2.have_server_cert = s.have_server_cert
      /\ s2.keys = s.keys /\ s2.send_epoch = s.send_epoch
      /\ s2.handshake_done = s.handshake_done /\ s2.send_seq = s.send_seq + 1 /\ IsSession(s2)
  BY DEF At, Own, IsSession, SessionFields
<1>2. Own(k, e, s2) /\ k.ver \in {12, 13} /\ Cookies(k) \in {0, 1}
  BY <1>1, EnvironmentFacts DEF At, Own
<1>3. CASE e = "client" /\ k.ver = 12
  <2>1. ClientAt12(k, s, p, d)
    BY <1>3 DEF At
  <2>2. p = 6
    BY <2>1 DEF ClientAt12
  <2>3. s.send_epoch = 1 /\ s.send_seq = 1 + d /\ s2.send_seq = 1 + (d + 1)
    BY <2>1, <2>2 DEF ClientAt12
  <2>4. ClientAt12(k, s2, p, d + 1)
    BY <1>1, <2>1, <2>2, <2>3 DEF ClientAt12
  <2> QED
    BY <1>2, <1>3, <2>3, <2>4 DEF At, DataNumber
<1>4. CASE e = "server" /\ k.ver = 12
  <2>1. ServerAt12(k, s, p, d) /\ "server" # "client"
    BY <1>4 DEF At
  <2>2. p = 3
    BY <2>1 DEF ServerAt12
  <2>3. s.send_epoch = 1 /\ s.send_seq = 1 + d /\ s2.send_seq = 1 + (d + 1)
    BY <2>1, <2>2 DEF ServerAt12
  <2>4. ServerAt12(k, s2, p, d + 1)
    BY <1>1, <2>1, <2>2, <2>3 DEF ServerAt12
  <2> QED
    BY <1>2, <1>4, <2>1, <2>3, <2>4 DEF At, DataNumber
<1>5. CASE e = "client" /\ k.ver = 13
  <2>1. ClientAt13(k, s, p, d) /\ 12 # 13
    BY <1>5, 12 # 13 DEF At
  <2>2. p = 5
    BY <2>1 DEF ClientAt13
  <2>3. s.send_epoch = 3 /\ s.send_seq = d /\ s2.send_seq = d + 1 /\ d + 1 - 1 = d
    BY <2>1, <2>2 DEF ClientAt13
  <2>4. ClientAt13(k, s2, p, d + 1)
    BY <1>1, <2>1, <2>2, <2>3 DEF ClientAt13
  <2> QED
    BY <1>2, <1>5, <2>1, <2>3, <2>4 DEF At, DataNumber
<1>6. CASE e = "server" /\ k.ver = 13
  <2>1. ServerAt13(k, s, p, d) /\ 12 # 13 /\ "server" # "client"
    BY <1>6, 12 # 13 DEF At
  <2>2. p = 2
    BY <2>1 DEF ServerAt13
  <2>3. s.send_epoch = 3 /\ s.send_seq = d /\ s2.send_seq = d + 1 /\ d + 1 - 1 = d
    BY <2>1, <2>2 DEF ServerAt13
  <2>4. ServerAt13(k, s2, p, d + 1)
    BY <1>1, <2>1, <2>2, <2>3 DEF ServerAt13
  <2> QED
    BY <1>2, <1>6, <2>1, <2>3, <2>4 DEF At, DataNumber
<1> QED
  BY <1>2, <1>3, <1>4, <1>5, <1>6 DEF Endpoint

-----------------------------------------------------------------------------
(***************************************************************************)
(* What recv() returns of a datagram.                                      *)
(***************************************************************************)
KeepStep(a, r, t) == keep_application(a, r)

Keeps == INSTANCE FoldSteps WITH op <- KeepStep

KeepRun(r, base, q, n) ==
  /\ r[0] = base
  /\ \A i \in 1 .. n : r[i] = keep_application(r[i - 1], q[i])
  /\ FoldLeft(keep_application, base, q) = r[n]

LEMMA KeepSteps ==
  ASSUME NEW base, NEW q, NEW n \in Nat, DOMAIN q = 1 .. n
  PROVE  \E r : KeepRun(r, base, q, n)
<1>1. FoldLeft(keep_application, base, q) = Keeps!Fold(0, base, q)
  BY DEF KeepStep, Keeps!Fold, FoldLeft, MapThenFoldSet, Max,
         Keeps!FoldLeft, Keeps!MapThenFoldSet, Keeps!Max
<1>2. PICK r : Keeps!IsRun(r, 0, base, q, n)
  BY Keeps!Steps
<1> QED
  BY <1>1, <1>2 DEF KeepStep, KeepRun, Keeps!IsRun

\* Records that are no application data leave nothing.
LEMMA NothingKept ==
  ASSUME NEW base, NEW q, IsSeq(q), NoData(Range(q))
  PROVE  FoldLeft(keep_application, base, q) = base
<1> DEFINE l == Len(q)
           R == Range(q)
<1>1. l \in Nat /\ DOMAIN q = 1 .. l /\ \A i \in 1 .. l : q[i] \in R
  BY SeqDomain
<1>2. NoData(R)
  OBVIOUS
<1> HIDE DEF l, R
<1>3. PICK r : KeepRun(r, base, q, l)
  BY <1>1, KeepSteps
<1> DEFINE K == {i \in Nat : i \in 0 .. l => r[i] = base}
<1>4. 0 \in K
  BY <1>3 DEF KeepRun
<1>5. ASSUME NEW i \in Nat, i \in K PROVE i + 1 \in K
  <2>1. CASE i + 1 \in 0 .. l
    <3> DEFINE j == i + 1
    <3>1. r[i] = base /\ j \in 1 .. l /\ j - 1 = i
      BY <1>1, <1>5, <2>1
    <3>2. r[j] = base
      <4> HIDE DEF j
      <4>1. r[j] = keep_application(r[j - 1], q[j])
        BY <1>3, <3>1 DEF KeepRun
      <4>2. q[j].ct # "data"
        BY <1>1, <1>2, <3>1 DEF NoData
      <4> QED
        BY <3>1, <4>1, <4>2 DEF keep_application
    <3> QED
      BY <3>2
  <2> QED
    BY <2>1
<1> HIDE DEF K
<1>6. l \in K
  BY <1>1, <1>4, <1>5, Parses!NatSetInduction
<1>7. r[l] = base
  BY <1>1, <1>6 DEF K
<1> QED
  BY <1>3, <1>7 DEF KeepRun

\* One record gives at most one payload.
LEMMA OneKept ==
  ASSUME NEW base, NEW x, NEW q, q = <<>> \/ q = Append(<<>>, x)
  PROVE  \/ FoldLeft(keep_application, base, q) = base
         \/ x.ct = "data" /\ FoldLeft(keep_application, base, q) = Append(base, x.payload)
<1>1. CASE q = <<>>
  <2> DEFINE v == <<>>
  <2>1. IsSeq(v) /\ Range(v) = {} /\ q = v
    BY <1>1, NothingInEmpty
  <2> HIDE DEF v
  <2>2. IsSeq(q) /\ NoData(Range(q))
    BY <2>1 DEF NoData
  <2> QED
    BY <2>2, NothingKept
<1>2. CASE q = Append(<<>>, x)
  <2>1. DOMAIN q = 1 .. 1 /\ q[1] = x /\ 1 \in Nat
    BY <1>2
  <2>2. PICK r : KeepRun(r, base, q, 1)
    BY <2>1, KeepSteps
  <2>3. r[1] = keep_application(r[1 - 1], q[1]) /\ r[0] = base
    BY <2>2 DEF KeepRun
  <2>4. FoldLeft(keep_application, base, q) = r[1]
    BY <2>2 DEF KeepRun
  <2>5. r[1] = keep_application(base, x)
    BY <2>1, <2>3
  <2> QED
    BY <2>4, <2>5 DEF keep_application
<1> QED
  BY <1>1, <1>2

LEMMA RecordOpened ==
  ASSUME NEW a, "events" \in DOMAIN a, "pending" \in DOMAIN a, "s" \in DOMAIN a, NEW r
  PROVE  parse_record(a, r).events \in {a.events, Append(a.events, r)}
<1> DEFINE b == [a EXCEPT !.s.recv_epoch = r.epoch + 1]
<1>1. b.events = a.events /\ "events" \in DOMAIN b
  OBVIOUS
<1> HIDE DEF b
<1>2. Opened(b, r).events = Append(a.events, r)
  BY <1>1 DEF Opened
<1>3. Opened(a, r).events = Append(a.events, r) /\ Unopened(a, r).events = a.events
  BY DEF Opened, Unopened
<1>4. parse_dtls13_record(a, r) \in {Opened(a, r), Unopened(a, r)}
  BY DEF parse_dtls13_record
<1>5. parse_dtls12_record(a, r) \in {a, Opened(b, r), Opened(a, r), Unopened(a, r)}
  <2>1. CASE r.epoch # a.s.recv_epoch
    BY <2>1 DEF parse_dtls12_record
  <2>2. CASE r.epoch = a.s.recv_epoch /\ r.ct = "ccs"
    BY <2>2 DEF parse_dtls12_record, b
  <2>3. CASE r.epoch = a.s.recv_epoch /\ r.ct # "ccs"
    BY <2>3 DEF parse_dtls12_record
  <2> QED
    BY <2>1, <2>2, <2>3
<1>6. parse_record(a, r) \in {a, Opened(b, r), Opened(a, r), Unopened(a, r)}
  BY <1>4, <1>5 DEF parse_record
<1> QED
  BY <1>2, <1>3, <1>6

LEMMA Delivers ==
  ASSUME NEW s, IsSession(s), NEW base, NEW dg, IsSeq(dg), NoData(Range(dg)) \/ Len(dg) = 1,
         NEW st, st = parse_datagram([s |-> s, events |-> <<>>, pending |-> <<>>], dg)
  PROVE  /\ IsSession(st.s) /\ Same(s, st.s, Aside) /\ st.s.last_sent = s.last_sent
         /\ \/ FoldLeft(keep_application, base, st.events) = base
            \/ \E r \in Range(dg) :
                 /\ r.ct = "data"
                 /\ FoldLeft(keep_application, base, st.events) = Append(base, r.payload)
<1> DEFINE z == [s |-> s, events |-> <<>>, pending |-> <<>>]
           y == [z EXCEPT !.events = <<>>, !.pending = <<>>]
<1>1. Sorted \subseteq DOMAIN z /\ IsSession(z.s) /\ z.s = s
  BY DEF Sorted
<1>2. "events" \in DOMAIN y /\ "pending" \in DOMAIN y /\ "s" \in DOMAIN y /\ y.events = <<>>
  OBVIOUS
<1>4. st = parse_datagram(z, dg)
  OBVIOUS
<1>5. st = FoldLeft(parse_record, y, dg)
  BY DEF parse_datagram
<1> HIDE DEF z, y
<1>6. Parsed(z, Range(dg), st)
  BY <1>1, <1>4, DatagramParsed
<1>7. IsSession(st.s) /\ Same(s, st.s, Aside) /\ st.s.last_sent = s.last_sent
  BY <1>1, <1>6 DEF Parsed, Same, Aside, SessionFields
<1>8. CASE NoData(Range(dg))
  <2>1. IsSeq(st.events) /\ NoData(Range(st.events))
    BY <1>6, <1>8 DEF Parsed, NoData
  <2> QED
    BY <1>7, <2>1, NothingKept
<1>9. CASE Len(dg) = 1
  <2>1. DOMAIN dg = 1 .. 1 /\ dg[1] \in Range(dg) /\ 1 \in Nat
    BY <1>9, SeqDomain
  <2>2. PICK r : ParseRun(r, y, dg, 1)
    BY <2>1, ParseSteps
  <2>3. r[1] = parse_record(r[1 - 1], dg[1]) /\ r[0] = y /\ st = r[1]
    BY <1>5, <2>2 DEF ParseRun
  <2>4. st = parse_record(y, dg[1])
    BY <2>3
  <2>5. st.events \in {y.events, Append(y.events, dg[1])}
    BY <1>2, <2>4, RecordOpened
  <2>6. st.events = <<>> \/ st.events = Append(<<>>, dg[1])
    BY <1>2, <2>5
  <2>7. \/ FoldLeft(keep_application, base, st.events) = base
        \/ /\ dg[1].ct = "data"
           /\ FoldLeft(keep_application, base, st.events) = Append(base, dg[1].payload)
    BY <2>6, OneKept
  <2> QED
    BY <1>7, <2>1, <2>7
<1> QED
  BY <1>8, <1>9

-----------------------------------------------------------------------------
(***************************************************************************)
(* One endpoint acts.                                                      *)
(***************************************************************************)
LEMMA Peers ==
  ASSUME NEW e \in Endpoint
  PROVE  /\ Peer(e) \in Endpoint /\ Peer(e) # e /\ Peer(Peer(e)) = e
         /\ \A g \in Endpoint : g = e \/ g = Peer(e)
BY DEF Peer, Endpoint

LEMMA KnownNats ==
  ASSUME NEW k \in Environments, NEW e \in Endpoint, NEW s, Known(k, e, s)
  PROVE  s.recv_msg_seq \in Nat /\ s.send_msg_seq \in Nat
<1>1. CASE Failed(k, e, s)
  BY <1>1 DEF Failed
<1>2. CASE s = Started(k, e)
  BY <1>2 DEF Started, NewSession
<1>3. ASSUME NEW p \in -1 .. 6, NEW d, At(k, e, s, p, d)
      PROVE  s.recv_msg_seq \in Nat /\ s.send_msg_seq \in Nat
  <2>1. p \in Int
    OBVIOUS
  <2> QED
    BY <1>3, <2>1, StageFacts
<1> QED
  BY <1>1, <1>2, <1>3 DEF Known

LEMMA RestingKnown ==
  ASSUME NEW k \in Environments, NEW e \in Endpoint, Resting(k, e), AppData(e)
  PROVE  Known(k, e, sess[e])
<1>1. Len(appSent[e]) \in Nat
  BY DEF AppData
<1> QED
  BY <1>1 DEF Resting, Known

LEMMA FlightDatagrams ==
  ASSUME NEW e, NEW q, IsSeq(q), NEW R, Range(q) \subseteq R, NoData(Range(q)) \/ Len(q) = 1,
         NEW dg \in Datagrams(e, q)
  PROVE  IsSeq(dg) /\ Range(dg) \subseteq R /\ (NoData(Range(dg)) \/ Len(dg) = 1)
<1>1. CASE dg = q
  BY <1>1
<1>2. ASSUME NEW r \in Range(q), dg = <<r>>
      PROVE  IsSeq(dg) /\ Range(dg) \subseteq R /\ (NoData(Range(dg)) \/ Len(dg) = 1)
  <2>1. dg \in Seq({r}) /\ Len(dg) = 1 /\ DOMAIN dg = 1 .. 1 /\ dg[1] = r
    BY <1>2
  <2>2. Range(dg) \subseteq {r}
    BY <2>1 DEF Range
  <2> QED
    BY <2>1, <2>2 DEF IsSeq
<1> QED
  BY <1>1, <1>2 DEF Datagrams

LEMMA TransmitNet ==
  ASSUME NEW e \in Endpoint, NEW q, NEW taken, Transmit(e, q, taken)
  PROVE  net'[Peer(e)] = net[Peer(e)] \cup Datagrams(e, q) /\ net'[e] = net[e] \ taken
BY DEF Transmit, SetNet, net, Peer, Endpoint

LEMMA UnderwaySends ==
  ASSUME NEW e \in Endpoint, NEW q, NEW taken, Transmit(e, q, taken), DOMAIN sent = Endpoint,
         Underway(e), Underway(Peer(e)), IsSeq(q), NoData(Range(q)) \/ Len(q) = 1
  PROVE  /\ \A g \in Endpoint : Underway(g)'
         /\ DOMAIN sent' = Endpoint
         /\ sent'[e] = sent[e] \cup Range(q) /\ sent'[Peer(e)] = sent[Peer(e)]
<1>1. /\ DOMAIN sent' = Endpoint
      /\ sent'[e] = sent[e] \cup Range(q) /\ sent'[Peer(e)] = sent[Peer(e)]
  BY Peers DEF Transmit
<1>2. net'[Peer(e)] = net[Peer(e)] \cup Datagrams(e, q) /\ net'[e] = net[e] \ taken
  BY TransmitNet
<1>3. Peer(Peer(e)) = e
  BY Peers
<1>4. ASSUME NEW dg \in net'[e]
      PROVE  /\ IsSeq(dg) /\ Range(dg) \subseteq sent'[Peer(e)]
             /\ NoData(Range(dg)) \/ Len(dg) = 1
  BY <1>1, <1>2, <1>4 DEF Underway
<1>5. ASSUME NEW dg \in net'[Peer(e)]
      PROVE  /\ IsSeq(dg) /\ Range(dg) \subseteq sent'[e]
             /\ NoData(Range(dg)) \/ Len(dg) = 1
  <2>1. CASE dg \in net[Peer(e)]
    BY <1>1, <1>3, <2>1 DEF Underway
  <2>2. CASE dg \in Datagrams(e, q)
    <3> DEFINE R == sent'[e]
    <3>1. Range(q) \subseteq R
      BY <1>1
    <3> HIDE DEF R
    <3>2. IsSeq(dg) /\ Range(dg) \subseteq R /\ (NoData(Range(dg)) \/ Len(dg) = 1)
      BY <2>2, <3>1, FlightDatagrams
    <3> QED
      BY <3>2 DEF R
  <2> QED
    BY <1>2, <1>5, <2>1, <2>2
<1>6. Underway(e)' /\ Underway(Peer(e))'
  BY <1>3, <1>4, <1>5 DEF Underway
<1> QED
  BY <1>1, <1>6, Peers

\* Nothing about g changes.
Bystander(g) ==
  /\ sess'[g] = sess[g] /\ status'[g] = status[g] /\ reason'[g] = reason[g]
  /\ sent'[g] = sent[g] /\ appSent'[g] = appSent[g] /\ delivered'[g] = delivered[g]

LEMMA BystanderKeeps ==
  ASSUME NEW k, NEW g, env' = env, Bystander(g),
         Resting(k, g), LastFlightSent(g), SentRecords(k, g), AppData(g)
  PROVE  Resting(k, g)' /\ LastFlightSent(g)' /\ SentRecords(k, g)' /\ AppData(g)'
<1>1. Resting(k, g)'
  BY DEF Bystander, Resting, Done
<1>2. LastFlightSent(g)'
  BY DEF Bystander, LastFlightSent
<1>3. SentRecords(k, g)'
  BY DEF Bystander, SentRecords, Done
<1>4. AppData(g)'
  BY DEF Bystander, AppData
<1> QED
  BY <1>1, <1>2, <1>3, <1>4

LEMMA OneActs ==
  ASSUME NEW k \in Environments, NEW e \in Endpoint, Inv(k), env' = env, Shapes',
         Bystander(Peer(e)), \A g \in Endpoint : Underway(g)',
         Resting(k, e)', LastFlightSent(e)', SentRecords(k, e)', AppData(e)',
         sess'[e].send_msg_seq \in Nat, sess[e].send_msg_seq <= sess'[e].send_msg_seq,
         sess'[e].recv_msg_seq <= sess[Peer(e)].send_msg_seq
  PROVE  Inv(k)'
<1> DEFINE f == Peer(e)
<1>1. f \in Endpoint /\ f # e /\ Peer(f) = e /\ \A g \in Endpoint : g = e \/ g = f
  BY Peers
<1>2. Bystander(f)
  OBVIOUS
<1>3. f = Peer(e)
  OBVIOUS
<1> HIDE DEF f
<1>4. Resting(k, f)' /\ LastFlightSent(f)' /\ SentRecords(k, f)' /\ AppData(f)'
  BY <1>1, <1>2, BystanderKeeps DEF Inv
<1>5. Known(k, e, sess[e]) /\ Known(k, f, sess[f])
  BY <1>1, RestingKnown DEF Inv
<1>6. /\ sess[e].recv_msg_seq \in Nat /\ sess[e].send_msg_seq \in Nat
      /\ sess[f].recv_msg_seq \in Nat /\ sess[f].send_msg_seq \in Nat
  BY <1>1, <1>5, KnownNats
<1>7. sess'[f] = sess[f]
  BY <1>2 DEF Bystander
<1>8. Follows(e)'
  BY <1>3, <1>7 DEF Follows
<1>9. Follows(f)'
  <2>1. sess[f].recv_msg_seq <= sess[e].send_msg_seq
    BY <1>1 DEF Inv, Follows
  <2>2. sess[f].recv_msg_seq <= sess'[e].send_msg_seq
    BY <1>6, <2>1
  <2> QED
    BY <1>1, <1>7, <2>2 DEF Follows
<1>10. (env = k)'
  BY DEF Inv
<1>11. /\ \A g \in Endpoint : Resting(k, g)'
       /\ \A g \in Endpoint : LastFlightSent(g)'
       /\ \A g \in Endpoint : SentRecords(k, g)'
       /\ \A g \in Endpoint : Follows(g)'
       /\ \A g \in Endpoint : AppData(g)'
  BY <1>1, <1>4, <1>8, <1>9
<1> QED
  BY <1>10, <1>11 DEF Inv

-----------------------------------------------------------------------------
(***************************************************************************)
(* The invariant is inductive.                                             *)
(***************************************************************************)
LEMMA InitInv == Init => IInv
<1> SUFFICES ASSUME Init PROVE Inv(env)
  BY DEF Init, IInv
<1> DEFINE k == env
           s(e) == Started(k, e)
<1>1. k \in Environments /\ \A e \in Endpoint : sess[e] = s(e)
  BY DEF Init, Started
<1>2. /\ status["client"] = "idle" /\ status["server"] = "handshake"
      /\ DOMAIN status = Endpoint
      /\ \A e \in Endpoint : reason[e] = "none" /\ sent[e] = {}
  BY DEF Init, Endpoint
<1>3. \A e \in Endpoint : net[e] = {}
  BY DEF Init, net, Endpoint
<1>4. ASSUME NEW e \in Endpoint
      PROVE  appSent[e] \in Seq(Endpoint \X Nat) /\ Len(appSent[e]) = 0 /\ appSent[e] = <<>>
             /\ IsSeq(delivered[e])
  <2>1. appSent[e] = <<>> /\ delivered[e] = <<>>
    BY DEF Init
  <2>2. IsSeq(delivered[e])
    BY <2>1, NothingInEmpty
  <2> QED
    BY <2>1, <2>2
<1>5. k.max_app \in Nat /\ k.ver \in {12, 13} /\ Cookies(k) \in {0, 1}
      /\ (k.ver = 13 => Cookies(k) = 0)
  <2>1. k \in Environment
    BY <1>1, EnvironmentsAssumption
  <2>2. k.max_app \in 0 .. MaxApp
    BY <2>1 DEF Environment
  <2> QED
    BY <1>1, <2>2, EnvironmentFacts, BoundsAssumption
<1> HIDE DEF k
<1>6. Shapes
  <2>1. status \in [Endpoint -> {"idle", "handshake", "open", "closed"}]
    BY DEF Init, Endpoint
  <2>2. /\ PerEndpoint(reason) /\ PerEndpoint(sess) /\ PerEndpoint(sent)
        /\ PerEndpoint(appSent) /\ PerEndpoint(delivered)
    BY DEF Init, PerEndpoint
  <2> QED
    BY <2>1, <2>2 DEF Shapes
<1>7. ASSUME NEW e \in Endpoint
      PROVE  /\ IsSession(s(e)) /\ s(e).role = e /\ s(e).ver = k.ver
             /\ s(e).require_cookie = k.require_cookie
             /\ s(e).cipher_suite = k.suite[e] /\ s(e).ks_pub = <<e, 0>> /\ s(e).app_keys = NoKey
             /\ s(e).send_msg_seq = 0 /\ s(e).recv_msg_seq = 0
             /\ s(e).last_sent = <<>> /\ s(e).transcript = <<>> /\ s(e).handshake_done = FALSE
  BY DEF Started, NewSession, IsSession, SessionFields
<1> HIDE DEF s
<1>8. \E p \in -1 .. 6 : At(k, "server", sess["server"], p, 0)
  <2> DEFINE z == s("server")
             p == -Cookies(k)
  <2>1. "server" \in Endpoint /\ "server" # "client"
    BY DEF Endpoint
  <2>2. /\ IsSession(z) /\ z.role = "server" /\ z.ver = k.ver
        /\ z.require_cookie = k.require_cookie
        /\ z.cipher_suite = k.suite["server"] /\ z.ks_pub = <<"server", 0>> /\ z.app_keys = NoKey
        /\ z.send_msg_seq = 0 /\ z.recv_msg_seq = 0
        /\ z.transcript = <<>> /\ z.handshake_done = FALSE
    BY <1>7, <2>1
  <2> HIDE DEF z
  <2>3. Own(k, "server", z)
    BY <2>2 DEF Own
  <2>4. /\ p \in {-1, 0} /\ p \in -1 .. 6 /\ (p = 0 => Cookies(k) = 0) /\ Cookies(k) + p = 0
        /\ p \in -Cookies(k) .. 3
    BY <1>5
  <2> HIDE DEF p
  <2>5. CASE k.ver = 12
    <3>1. ServerAt12(k, z, p, 0)
      BY <1>5, <2>2, <2>4 DEF ServerAt12
    <3> QED
      BY <1>1, <2>1, <2>3, <2>4, <2>5, <3>1 DEF At, z
  <2>6. CASE k.ver = 13
    <3>1. p = 0
      BY <1>5, <2>4, <2>6
    <3>2. ServerAt13(k, z, 0, 0)
      BY <2>2 DEF ServerAt13
    <3> QED
      BY <1>1, <2>1, <2>3, <2>4, <2>6, <3>1, <3>2, 12 # 13 DEF At, z
  <2> QED
    BY <1>5, <2>5, <2>6
<1>9. \A e \in Endpoint : Resting(k, e)
  <2>1. Resting(k, "client")
    BY <1>1, <1>2, <1>4 DEF Resting, Endpoint, s
  <2>2. Resting(k, "server")
    <3>1. sess["server"].handshake_done = FALSE
      BY <1>1, <1>7 DEF Endpoint
    <3>2. reason["server"] = "none" /\ Len(appSent["server"]) = 0
      BY <1>2, <1>4 DEF Endpoint
    <3> QED
      BY <1>2, <1>8, <3>1, <3>2 DEF Resting, Done
  <2> QED
    BY <2>1, <2>2 DEF Endpoint
<1>10. ASSUME NEW e \in Endpoint PROVE LastFlightSent(e)
  <2> DEFINE v == <<>>
  <2>1. IsSeq(v) /\ Range(v) = {} /\ sess[e].last_sent = v
    BY <1>1, <1>7, NothingInEmpty
  <2> HIDE DEF v
  <2> QED
    BY <2>1 DEF LastFlightSent, NoData
<1>11. ASSUME NEW e \in Endpoint PROVE SentRecords(k, e)
  BY <1>2 DEF SentRecords, AckOnce
<1>12. ASSUME NEW e \in Endpoint PROVE Underway(e)
  BY <1>3 DEF Underway
<1>13. ASSUME NEW e \in Endpoint PROVE Follows(e)
  <2>1. Peer(e) \in Endpoint
    BY Peers
  <2>2. sess[e].recv_msg_seq = 0
    BY <1>1, <1>7
  <2>3. sess[Peer(e)].send_msg_seq = 0
    BY <1>1, <1>7, <2>1
  <2> QED
    BY <2>2, <2>3 DEF Follows
<1>14. ASSUME NEW e \in Endpoint PROVE AppData(e)
  BY <1>4, <1>5 DEF AppData, k
<1> QED
  BY <1>6, <1>9, <1>10, <1>11, <1>12, <1>13, <1>14 DEF Inv, k

\* A session in a loop, or open.
LEMMA Awake ==
  ASSUME NEW k, NEW e, Resting(k, e), status[e] \in {"handshake", "open"}
  PROVE  /\ reason[e] # "step"
         /\ \E p \in -1 .. 6 :
              At(k, e, sess[e], p, Len(appSent[e])) /\ (k.ver = 12 /\ e = "client" => p # 4)
         /\ status[e] = "open" => Done(e)
         /\ status[e] = "handshake" => ~Done(e)
BY DEF Resting

\* Only the network changes.
LEMMA NetKeeps ==
  ASSUME NEW k, Inv(k), UNCHANGED <<env, sess, status, reason, sent, appSent, delivered>>,
         \A g \in Endpoint : Underway(g)'
  PROVE  Inv(k)'
<1>1. /\ env' = env /\ sess' = sess /\ status' = status /\ reason' = reason /\ sent' = sent
      /\ appSent' = appSent /\ delivered' = delivered
  OBVIOUS
<1>2. Shapes'
  BY <1>1 DEF Inv, Shapes
<1>3. ASSUME NEW g \in Endpoint
      PROVE  /\ Resting(k, g)' /\ LastFlightSent(g)' /\ SentRecords(k, g)' /\ AppData(g)'
             /\ Follows(g)'
  <2>1. Bystander(g)
    BY <1>1 DEF Bystander
  <2>2. Follows(g)'
    BY <1>1 DEF Inv, Follows
  <2> QED
    BY <1>1, <2>1, <2>2, BystanderKeeps DEF Inv
<1> QED
  BY <1>1, <1>2, <1>3 DEF Inv

LEMMA CloseKeeps ==
  ASSUME NEW k \in Environments, Inv(k), NEW e \in Endpoint, NEW why, why # "step",
         status[e] \in {"handshake", "open"}, Close(e, why),
         UNCHANGED <<env, sess, toClient, toServer, sent, appSent, delivered>>
  PROVE  Inv(k)'
<1>1. /\ env' = env /\ sess' = sess /\ sent' = sent /\ appSent' = appSent
      /\ delivered' = delivered /\ net' = net
  BY DEF net
<1>2. /\ status' = [status EXCEPT ![e] = "closed"] /\ reason' = [reason EXCEPT ![e] = why]
      /\ status \in [Endpoint -> {"idle", "handshake", "open", "closed"}]
      /\ PerEndpoint(reason)
  BY DEF Close, Inv, Shapes
<1>3. Shapes'
  BY <1>1, <1>2 DEF Inv, Shapes, PerEndpoint
<1>4. status'[e] = "closed" /\ reason'[e] = why
  BY <1>2 DEF PerEndpoint
<1>5. Bystander(Peer(e))
  BY <1>1, <1>2, Peers DEF Bystander, PerEndpoint
<1>6. \A g \in Endpoint : Underway(g)'
  BY <1>1 DEF Inv, Underway
<1>7. Resting(k, e)
  BY DEF Inv
<1>8. Resting(k, e)'
  BY <1>1, <1>4, <1>7, Awake DEF Resting
<1>9. LastFlightSent(e)' /\ SentRecords(k, e)' /\ AppData(e)'
  <2>1. LastFlightSent(e) /\ SentRecords(k, e) /\ AppData(e) /\ reason[e] # "step"
    BY <1>7, Awake DEF Inv
  <2> QED
    BY <1>1, <1>4, <2>1 DEF LastFlightSent, SentRecords, AppData, Done
<1>10. Known(k, e, sess[e])
  BY <1>7, RestingKnown DEF Inv
<1>11. sess[e].send_msg_seq \in Nat /\ sess[e].send_msg_seq <= sess[e].send_msg_seq
  BY <1>10, KnownNats
<1>12. sess[e].recv_msg_seq <= sess[Peer(e)].send_msg_seq
  BY DEF Inv, Follows
<1> QED
  BY <1>1, <1>3, <1>5, <1>6, <1>8, <1>9, <1>11, <1>12, OneActs

LEMMA TimeoutKeeps ==
  ASSUME NEW k \in Environments, Inv(k), NEW e \in Endpoint, Timeout(e)
  PROVE  Inv(k)'
<1>1. status[e] = "handshake" /\ UNCHANGED <<env, sess, appSent, delivered>>
  BY DEF Timeout, WaitExpires, appVars
<1>2. CASE Close(e, "retries_exhausted") /\ UNCHANGED <<toClient, toServer, sent>>
  BY <1>1, <1>2, CloseKeeps
<1>3. CASE Transmit(e, sess[e].last_sent, {}) /\ UNCHANGED <<status, reason>>
  <2> DEFINE q == sess[e].last_sent
  <2>1. Resting(k, e) /\ LastFlightSent(e) /\ PerEndpoint(sent) /\ DOMAIN sent = Endpoint
    BY DEF Inv, Shapes, PerEndpoint
  <2>2. IsSeq(q) /\ Range(q) \subseteq sent[e] /\ NoData(Range(q))
    BY <1>1, <2>1, Awake DEF LastFlightSent
  <2>3. Underway(e) /\ Underway(Peer(e))
    BY Peers DEF Inv
  <2>4. Transmit(e, q, {})
    BY <1>3
  <2> HIDE DEF q
  <2>5. \A g \in Endpoint : Underway(g)'
    BY <2>1, <2>2, <2>3, <2>4, UnderwaySends
  <2>6. sent' = sent
    <3>1. sent' = [sent EXCEPT ![e] = @ \cup Range(q)]
      BY <2>4 DEF Transmit
    <3>2. sent[e] \cup Range(q) = sent[e]
      BY <2>2
    <3> QED
      BY <2>1, <3>1, <3>2 DEF PerEndpoint
  <2> QED
    BY <1>1, <1>3, <2>5, <2>6, NetKeeps
<1> QED
  BY <1>2, <1>3 DEF Timeout

LEMMA ClosingKeeps ==
  ASSUME NEW k \in Environments, Inv(k), NEW e \in Endpoint,
         HandshakeDeadline(e) \/ SocketError(e) \/ CloseOpen(e)
  PROVE  Inv(k)'
<1>1. /\ UNCHANGED <<env, sess, toClient, toServer, sent, appSent, delivered>>
      /\ status[e] \in {"handshake", "open"}
      /\ Close(e, "deadline") \/ Close(e, "socket") \/ Close(e, "closed_by_user")
  BY DEF HandshakeDeadline, SocketError, CloseOpen, netVars, appVars
<1> QED
  BY <1>1, CloseKeeps

LEMMA LoseKeeps ==
  ASSUME NEW k \in Environments, Inv(k), NEW e \in Endpoint, NEW dg, Lose(e, dg)
  PROVE  Inv(k)'
<1>1. /\ UNCHANGED <<env, sess, status, reason, sent, appSent, delivered>>
      /\ toClient' = net'["client"] /\ toServer' = net'["server"]
  BY DEF Lose, connVars, appVars, net
<1>2. \A g \in Endpoint : net'[g] \subseteq net[g]
  BY DEF Lose, SetNet, net, Endpoint
<1>3. \A g \in Endpoint : Underway(g)'
  BY <1>1, <1>2 DEF Inv, Underway
<1> QED
  BY <1>1, <1>3, NetKeeps

LEMMA RecvKeeps ==
  ASSUME NEW k \in Environments, Inv(k), NEW e \in Endpoint, NEW dg \in net[e], Recv(e, dg)
  PROVE  Inv(k)'
<1> DEFINE s == sess[e]
           st == parse_datagram([s |-> s, events |-> <<>>, pending |-> <<>>], dg)
           base == delivered[e]
           got == FoldLeft(keep_application, base, st.events)
<1>1. PICK taken \in SUBSET {dg} :
        /\ status[e] = "open"
        /\ SetNet([net EXCEPT ![e] = @ \ taken])
        /\ sess' = [sess EXCEPT ![e] = st.s]
        /\ delivered' = [delivered EXCEPT ![e] = got]
        /\ UNCHANGED <<env, status, reason, retries, sent, appSent>>
  BY DEF Recv
<1>2. /\ Resting(k, e) /\ LastFlightSent(e) /\ SentRecords(k, e) /\ AppData(e)
      /\ Underway(e) /\ Follows(e) /\ Shapes
  BY DEF Inv
<1>3. IsSeq(dg) /\ (NoData(Range(dg)) \/ Len(dg) = 1)
  BY <1>2 DEF Underway
<1>4. PICK p \in -1 .. 6 :
        At(k, e, s, p, Len(appSent[e])) /\ (k.ver = 12 /\ e = "client" => p # 4)
  BY <1>1, <1>2, Awake
<1>5. IsSession(s) /\ reason[e] # "step"
  BY <1>1, <1>2, <1>4, Awake DEF At, Own
<1> DEFINE s2 == st.s
<1>6. /\ IsSession(s2) /\ Same(s, s2, Aside) /\ s2.last_sent = s.last_sent
      /\ \/ got = base
         \/ \E r \in Range(dg) : r.ct = "data" /\ got = Append(base, r.payload)
  <2>1. st = parse_datagram([s |-> s, events |-> <<>>, pending |-> <<>>], dg)
    OBVIOUS
  <2>2. got = FoldLeft(keep_application, base, st.events)
    OBVIOUS
  <2> HIDE DEF s, st, base, got
  <2> QED
    BY <1>3, <1>5, <2>1, <2>2, Delivers
<1>7. IsSeq(got)
  <2>1. IsSeq(base)
    BY <1>2 DEF AppData
  <2> HIDE DEF got, base
  <2> QED
    BY <1>6, <2>1, AppendRange
<1>8. /\ sess' = [sess EXCEPT ![e] = s2] /\ delivered' = [delivered EXCEPT ![e] = got]
      /\ s = sess[e]
  BY <1>1
<1> HIDE DEF s, s2, st, got, base
<1>9. s2.last_sent = s.last_sent
  BY <1>6
<1>10. /\ \A q, d : At(k, e, s, q, d) => At(k, e, s2, q, d)
       /\ s2.send_msg_seq = s.send_msg_seq /\ s2.recv_msg_seq = s.recv_msg_seq
       /\ s2.handshake_done = s.handshake_done
  BY <1>6, AsideFields
<1>11. sess'[e] = s2 /\ delivered'[e] = got
  BY <1>2, <1>8 DEF Shapes, PerEndpoint
<1>12. Shapes'
  BY <1>1, <1>2, <1>8 DEF Shapes, PerEndpoint
<1>13. Bystander(Peer(e))
  BY <1>1, <1>2, <1>8, Peers DEF Bystander, Shapes, PerEndpoint
<1>14. \A g \in Endpoint : Underway(g)'
  <2>1. \A g \in Endpoint : net'[g] \subseteq net[g]
    BY <1>1 DEF SetNet, net, Endpoint
  <2> QED
    BY <1>1, <2>1 DEF Inv, Underway
<1>15. Resting(k, e)'
  <2>1. At(k, e, s2, p, Len(appSent[e]))
    BY <1>4, <1>10
  <2>2. s2.handshake_done = TRUE \/ s2.handshake_done
    BY <1>1, <1>2, <1>8, <1>10, Awake DEF Done
  <2>3. reason'[e] # "step" /\ status'[e] = "open" /\ appSent' = appSent
    BY <1>1, <1>5
  <2>4. \E q \in -1 .. 6 :
          At(k, e, sess'[e], q, Len(appSent'[e])) /\ (k.ver = 12 /\ e = "client" => q # 4)
    BY <1>4, <1>11, <2>1, <2>3
  <2> QED
    BY <1>11, <2>2, <2>3, <2>4 DEF Resting, Done
<1>16. LastFlightSent(e)'
  BY <1>1, <1>2, <1>5, <1>8, <1>9, <1>11 DEF LastFlightSent
<1>17. SentRecords(k, e)'
  BY <1>1, <1>2, <1>8, <1>10, <1>11 DEF SentRecords, Done
<1>18. AppData(e)'
  BY <1>1, <1>2, <1>7, <1>11 DEF AppData
<1>19. Known(k, e, sess[e])
  BY <1>2, RestingKnown
<1>20. /\ sess'[e].send_msg_seq \in Nat /\ sess[e].send_msg_seq <= sess'[e].send_msg_seq
       /\ sess'[e].recv_msg_seq <= sess[Peer(e)].send_msg_seq
  <2>1. sess[e].send_msg_seq \in Nat
    BY <1>19, KnownNats
  <2> QED
    BY <1>2, <1>8, <1>10, <1>11, <2>1 DEF Follows
<1> QED
  BY <1>1, <1>12, <1>13, <1>14, <1>15, <1>16, <1>17, <1>18, <1>20, OneActs

\* The record that send() makes.
Numbered(e, d, n, data) == n = d + 1 /\ data = <<e, n>>

DataStep(s, data) == protect([s |-> s, response |-> <<>>], "data", data)

DataFlight(k, e, n, q) == \E r : q = Append(<<>>, r) /\ DataRecord(k, e, n, r)

LEMMA DataStepFields ==
  ASSUME NEW s, IsSession(s), NEW data
  PROVE  /\ DataStep(s, data).s.send_msg_seq = s.send_msg_seq
         /\ DataStep(s, data).s.recv_msg_seq = s.recv_msg_seq
         /\ DataStep(s, data).s.handshake_done = s.handshake_done
         /\ DataStep(s, data).s.last_sent = s.last_sent
BY DEF DataStep, protect, IsSession, SessionFields

LEMMA DataSent ==
  ASSUME NEW k \in Environments, NEW e \in Endpoint, NEW s, NEW p \in -1 .. 6, NEW d \in Nat,
         At(k, e, s, p, d), s.handshake_done = TRUE, NEW data, NEW n, Numbered(e, d, n, data),
         NEW st, st = DataStep(s, data)
  PROVE  /\ At(k, e, st.s, p, n)
         /\ DataFlight(k, e, n, st.response)
<1> DEFINE s2 == [s EXCEPT !.send_seq = @ + 1]
           key == TrafficKey(s.role, s, s.send_epoch)
           r == Record("data", s.send_epoch, s.send_seq, key, data)
<1>1. IsSession(s) /\ n = d + 1 /\ data = <<e, d + 1>>
  BY DEF At, Own, Numbered
<1>2. st.s = s2 /\ st.response = Append(<<>>, r)
  BY DEF protect, DataStep
<1>3. At(k, e, s2, p, d + 1) /\ <<s.send_epoch, s.send_seq>> = DataNumber(k, d + 1)
  <2>1. s2 = [s EXCEPT !.send_seq = @ + 1]
    OBVIOUS
  <2> HIDE DEF s2
  <2> QED
    BY <2>1, DataStage
<1> HIDE DEF s2, key
<1>4. /\ r = Record(r.ct, r.epoch, r.seq, r.key, r.payload) /\ r.ct = "data"
      /\ r.payload = <<e, d + 1>> /\ Nonce(r) = <<s.send_epoch, s.send_seq>>
  BY <1>1 DEF Record, Nonce
<1> HIDE DEF r
<1>5. DataRecord(k, e, d + 1, r)
  <2>1. d + 1 \in 1 .. d + 1
    OBVIOUS
  <2> QED
    BY <1>3, <1>4, <2>1 DEF DataRecord, IsRecord
<1> QED
  BY <1>1, <1>2, <1>3, <1>5 DEF DataFlight

LEMMA SendKeeps ==
  ASSUME NEW k \in Environments, Inv(k), NEW e \in Endpoint, Send(e)
  PROVE  Inv(k)'
<1> DEFINE s == sess[e]
           app == appSent[e]
           d == Len(app)
           data == <<e, d + 1>>
           st == protect([s |-> s, response |-> <<>>], "data", data)
           q == st.response
<1>1. /\ status[e] = "open" /\ d < env.max_app
      /\ sess' = [sess EXCEPT ![e] = st.s]
      /\ Transmit(e, q, {})
      /\ appSent' = [appSent EXCEPT ![e] = Append(app, data)]
      /\ UNCHANGED <<env, status, reason, delivered>>
  BY DEF Send
<1>2. /\ Resting(k, e) /\ LastFlightSent(e) /\ SentRecords(k, e) /\ AppData(e)
      /\ Underway(e) /\ Underway(Peer(e)) /\ Follows(e) /\ Shapes
  BY Peers DEF Inv
<1>3. PICK p \in -1 .. 6 : At(k, e, s, p, d) /\ (k.ver = 12 /\ e = "client" => p # 4)
  BY <1>1, <1>2, Awake
<1>4. /\ app \in Seq(Endpoint \X Nat) /\ d <= env.max_app /\ IsSeq(delivered[e])
      /\ \A i \in 1 .. d : app[i] = <<e, i>>
  BY <1>2 DEF AppData
<1>5. d \in Nat /\ reason[e] # "step"
  BY <1>1, <1>2, <1>4, Awake
<1>6. s.handshake_done = TRUE
  <2>1. Done(e) /\ p \in Int
    BY <1>1, <1>2, Awake
  <2>2. s.handshake_done
    BY <2>1 DEF Done
  <2> HIDE DEF s, d
  <2>3. s.handshake_done \in BOOLEAN
    BY <1>3, <2>1, StageFacts
  <2> QED
    BY <2>2, <2>3
<1> DEFINE s2 == st.s
<1>7. /\ At(k, e, s2, p, d + 1)
      /\ s2.send_msg_seq = s.send_msg_seq /\ s2.recv_msg_seq = s.recv_msg_seq
      /\ s2.handshake_done = s.handshake_done /\ s2.last_sent = s.last_sent
      /\ DataFlight(k, e, d + 1, q)
  <2>1. st = DataStep(s, data)
    BY DEF DataStep
  <2> DEFINE n == d + 1
  <2>3. Numbered(e, d, n, data)
    BY DEF Numbered
  <2>2. At(k, e, s, p, d) /\ d \in Nat
    BY <1>3, <1>5
  <2> HIDE DEF s, d, data, st, n
  <2>4. At(k, e, st.s, p, n) /\ DataFlight(k, e, n, st.response)
    BY <1>6, <2>1, <2>2, <2>3, DataSent
  <2>5. IsSession(s)
    BY <2>2 DEF At, Own
  <2>6. /\ st.s.send_msg_seq = s.send_msg_seq /\ st.s.recv_msg_seq = s.recv_msg_seq
        /\ st.s.handshake_done = s.handshake_done /\ st.s.last_sent = s.last_sent
    BY <2>1, <2>5, DataStepFields
  <2> QED
    BY <2>4, <2>6 DEF n
<1>8. /\ sess' = [sess EXCEPT ![e] = s2] /\ s = sess[e]
      /\ appSent' = [appSent EXCEPT ![e] = Append(app, data)] /\ app = appSent[e]
  BY <1>1
<1> HIDE DEF s2, st, q, s
<1>9. PICK r : q = Append(<<>>, r) /\ DataRecord(k, e, d + 1, r)
  BY <1>7 DEF DataFlight
<1>10. IsSeq(q) /\ Range(q) = {r} /\ Len(q) = 1
  <2> DEFINE v == <<>>
  <2>1. IsSeq(v) /\ Range(v) = {} /\ Len(v) = 0 /\ q = Append(v, r)
    BY <1>9, NothingInEmpty
  <2> HIDE DEF v
  <2>2. /\ IsSeq(Append(v, r)) /\ Range(Append(v, r)) = Range(v) \cup {r}
        /\ Len(Append(v, r)) = Len(v) + 1
    BY <2>1, AppendRange
  <2> QED
    BY <2>1, <2>2
<1>11. /\ s2.send_msg_seq = s.send_msg_seq /\ s2.recv_msg_seq = s.recv_msg_seq
       /\ s2.handshake_done = s.handshake_done /\ s2.last_sent = s.last_sent
  BY <1>7
<1>12. Append(app, data) \in Seq(Endpoint \X Nat) /\ Len(Append(app, data)) = d + 1
       /\ \A i \in 1 .. d + 1 : Append(app, data)[i] = <<e, i>>
  <2> HIDE DEF app
  <2>1. data \in Endpoint \X Nat
    BY <1>5
  <2>2. Append(app, data) \in Seq(Endpoint \X Nat) /\ Len(Append(app, data)) = d + 1
    BY <1>4, <2>1
  <2>3. \A i \in 1 .. d : Append(app, data)[i] = <<e, i>>
    BY <1>4
  <2>4. Append(app, data)[d + 1] = <<e, d + 1>>
    BY <1>4
  <2> QED
    BY <1>5, <2>2, <2>3, <2>4
<1> DEFINE app2 == Append(app, data)
<1>13. sess'[e] = s2 /\ appSent'[e] = app2
  BY <1>2, <1>8 DEF Shapes, PerEndpoint
<1>14. Len(app2) = d + 1 /\ app2 \in Seq(Endpoint \X Nat) /\ \A i \in 1 .. Len(app2) : app2[i] = <<e, i>>
  BY <1>12
<1> HIDE DEF app2, app, d
<1>15. /\ \A g \in Endpoint : Underway(g)'
       /\ DOMAIN sent' = Endpoint
       /\ sent'[e] = sent[e] \cup {r} /\ sent'[Peer(e)] = sent[Peer(e)]
  <2>1. DOMAIN sent = Endpoint
    BY <1>2 DEF Shapes, PerEndpoint
  <2> QED
    BY <1>1, <1>2, <1>10, <2>1, UnderwaySends
<1>16. Shapes'
  BY <1>1, <1>2, <1>8 DEF Shapes, PerEndpoint, Transmit
<1>17. Bystander(Peer(e))
  BY <1>1, <1>2, <1>8, <1>15, Peers DEF Bystander, Shapes, PerEndpoint
<1>18. Resting(k, e)'
  <2>1. reason'[e] # "step" /\ status'[e] = "open" /\ s2.handshake_done
    BY <1>1, <1>5, <1>6, <1>11
  <2>2. \E x \in -1 .. 6 :
          At(k, e, sess'[e], x, Len(appSent'[e])) /\ (k.ver = 12 /\ e = "client" => x # 4)
    BY <1>3, <1>7, <1>13, <1>14
  <2> QED
    BY <1>13, <2>1, <2>2 DEF Resting, Done
<1>19. LastFlightSent(e)'
  BY <1>1, <1>2, <1>5, <1>8, <1>11, <1>13, <1>15 DEF LastFlightSent
<1>20. SentRecords(k, e)'
  <2>1. r.ct = "data" /\ s2.handshake_done
    BY <1>6, <1>9, <1>11 DEF DataRecord
  <2>2. ASSUME NEW x \in sent[e]
        PROVE  HandshakeRecord(k, e, s2.send_msg_seq, x) \/ DataRecord(k, e, d + 1, x)
    <3>1. CASE HandshakeRecord(k, e, s.send_msg_seq, x)
      BY <1>11, <3>1
    <3>2. CASE DataRecord(k, e, d, x)
      <4>1. \A i \in 1 .. d : i \in 1 .. d + 1
        BY <1>5
      <4> QED
        BY <3>2, <4>1 DEF DataRecord
    <3> QED
      BY <1>2, <1>8, <3>1, <3>2 DEF SentRecords, d
  <2>3. AckOnce(sent'[e])
    BY <1>2, <1>15, <2>1 DEF SentRecords, AckOnce
  <2> QED
    BY <1>9, <1>13, <1>14, <1>15, <2>1, <2>2, <2>3 DEF SentRecords, Done
<1>21. AppData(e)'
  <2>1. k.max_app \in Nat
    <3>1. k \in Environment
      BY EnvironmentsAssumption
    <3>2. k.max_app \in 0 .. MaxApp
      BY <3>1 DEF Environment
    <3> QED
      BY <3>2, BoundsAssumption
  <2>2. env = k
    BY DEF Inv
  <2>3. d + 1 <= env.max_app
    BY <1>1, <1>5, <2>1, <2>2
  <2> QED
    BY <1>1, <1>4, <1>13, <1>14, <2>3 DEF AppData
<1>22. Known(k, e, sess[e])
  BY <1>2, RestingKnown
<1>23. /\ sess'[e].send_msg_seq \in Nat /\ sess[e].send_msg_seq <= sess'[e].send_msg_seq
       /\ sess'[e].recv_msg_seq <= sess[Peer(e)].send_msg_seq
  <2>1. sess[e].send_msg_seq \in Nat
    BY <1>22, KnownNats
  <2> QED
    BY <1>2, <1>8, <1>11, <1>13, <2>1 DEF Follows
<1> QED
  BY <1>1, <1>15, <1>16, <1>17, <1>18, <1>19, <1>20, <1>21, <1>23, OneActs

LEMMA ConnectKeeps ==
  ASSUME NEW k \in Environments, Inv(k), Connect
  PROVE  Inv(k)'
<1> DEFINE e == "client"
           t == client_first_step(Started(k, "client"))
           s2 == t.s
           q == t.out
<1>0. e \in Endpoint /\ Peer(e) = "server" /\ e = "client"
  BY DEF Endpoint, Peer
<1>1. /\ Resting(k, e) /\ LastFlightSent(e) /\ SentRecords(k, e) /\ AppData(e)
      /\ Underway(e) /\ Underway(Peer(e)) /\ Follows(e) /\ Shapes
  BY <1>0, Peers DEF Inv
<1>2. /\ status[e] = "idle" /\ status' = [status EXCEPT ![e] = "handshake"]
      /\ sess' = [sess EXCEPT ![e] = client_first_step(sess[e]).s]
      /\ Transmit(e, client_first_step(sess[e]).out, {})
      /\ UNCHANGED <<env, reason, appSent, delivered>>
  BY DEF Connect, StartConnect, appVars
<1>3. sess[e] = Started(k, e) /\ appSent[e] = <<>> /\ reason[e] # "step"
  BY <1>1, <1>2 DEF Resting
<1>4. sess' = [sess EXCEPT ![e] = s2] /\ Transmit(e, q, {})
  BY <1>2, <1>3
<1>5. /\ At(k, e, s2, IF Cookies(k) = 1 THEN -1 ELSE 0, 0)
      /\ s2.send_msg_seq = 1 /\ s2.recv_msg_seq = 0 /\ s2.last_sent = q
      /\ Flight(k, e, 1, q) /\ NoAck(Range(q)) /\ s2.handshake_done = FALSE
  <2> HIDE DEF t
  <2>1. t = client_first_step(Started(k, "client"))
    BY DEF t
  <2> QED
    BY <2>1, ClientStarts
<1> HIDE DEF t, s2, q, e
<1>6. PICK p \in -1 .. 6 : At(k, e, s2, p, 0) /\ p # 4
  BY <1>5
<1>7. IsSeq(q) /\ NoData(Range(q))
  BY <1>5, FlightNoData DEF Flight
<1>8. /\ \A g \in Endpoint : Underway(g)'
      /\ DOMAIN sent' = Endpoint
      /\ sent'[e] = sent[e] \cup Range(q) /\ sent'[Peer(e)] = sent[Peer(e)]
  <2>1. DOMAIN sent = Endpoint
    BY <1>1 DEF Shapes, PerEndpoint
  <2> QED
    BY <1>0, <1>1, <1>4, <1>7, <2>1, UnderwaySends
<1>9. sess'[e] = s2 /\ status'[e] = "handshake"
  BY <1>0, <1>1, <1>2, <1>4 DEF Shapes, PerEndpoint
<1>10. Shapes'
  BY <1>0, <1>1, <1>2, <1>4 DEF Shapes, PerEndpoint, Transmit
<1>11. Bystander(Peer(e))
  BY <1>0, <1>1, <1>2, <1>4, <1>8, Peers DEF Bystander, Shapes, PerEndpoint
<1>12. Resting(k, e)'
  <2>1. Len(appSent'[e]) = 0
    <3>1. appSent'[e] = <<>>
      BY <1>2, <1>3
    <3> QED
      BY <3>1
  <2>2. \E x \in -1 .. 6 :
          At(k, e, sess'[e], x, Len(appSent'[e])) /\ (k.ver = 12 /\ e = "client" => x # 4)
    BY <1>6, <1>9, <2>1
  <2>3. reason'[e] # "step"
    BY <1>2, <1>3
  <2>4. ~sess'[e].handshake_done
    BY <1>5, <1>9
  <2> QED
    BY <1>9, <2>2, <2>3, <2>4 DEF Resting, Done
<1>13. LastFlightSent(e)'
  BY <1>5, <1>7, <1>8, <1>9 DEF LastFlightSent
<1>14. sess[e].send_msg_seq = 0 /\ sess[e].handshake_done = FALSE
  BY <1>3 DEF Started, NewSession
<1>15. SentRecords(k, e)'
  <2>1. \A x \in sent[e] : HandshakeRecord(k, e, 0, x) \/ DataRecord(k, e, Len(appSent[e]), x)
    BY <1>1, <1>14 DEF SentRecords
  <2>2. \A x \in sent[e] : x.ct # "ack"
    BY <1>1, <1>14 DEF SentRecords, Done
  <2>3. \A x \in sent[e] : HandshakeRecord(k, e, 1, x) \/ DataRecord(k, e, Len(appSent[e]), x)
    BY <2>1, RecordStays, 0 \in Nat, 1 \in Nat, 0 <= 1
  <2>4. \A x \in sent'[e] : x.ct # "ack"
    BY <1>5, <1>8, <2>2 DEF NoAck
  <2>5. \A x \in sent'[e] : HandshakeRecord(k, e, 1, x) \/ DataRecord(k, e, Len(appSent'[e]), x)
    BY <1>2, <1>5, <1>8, <2>3 DEF Flight
  <2> QED
    BY <1>5, <1>9, <2>4, <2>5 DEF SentRecords, AckOnce
<1>16. AppData(e)'
  BY <1>1, <1>2 DEF AppData
<1>17. Known(k, Peer(e), sess[Peer(e)])
  BY <1>0, Peers, RestingKnown DEF Inv
<1>18. /\ sess'[e].send_msg_seq \in Nat /\ sess[e].send_msg_seq <= sess'[e].send_msg_seq
       /\ sess'[e].recv_msg_seq <= sess[Peer(e)].send_msg_seq
  <2>1. sess[Peer(e)].send_msg_seq \in Nat
    BY <1>0, <1>17, KnownNats, Peers
  <2> QED
    BY <1>5, <1>9, <1>14, <2>1
<1>19. env' = env /\ Inv(k)
  BY <1>2
<1> QED
  BY <1>0, <1>8, <1>10, <1>11, <1>12, <1>13, <1>15, <1>16, <1>18, <1>19, OneActs

\* The datagrams of the peer are read as its messages.
LEMMA UnderwayLegible ==
  ASSUME NEW k, NEW e \in Endpoint, SentRecords(k, Peer(e)), Underway(e), NEW dg \in net[e]
  PROVE  IsSeq(dg) /\ Legible(k, e, sess[Peer(e)].send_msg_seq, Range(dg))
<1>1. IsSeq(dg) /\ Range(dg) \subseteq sent[Peer(e)]
  BY DEF Underway
<1>2. ASSUME NEW r \in sent[Peer(e)], r.ct = "handshake"
      PROVE  /\ r.payload.mseq \in 0 .. sess[Peer(e)].send_msg_seq - 1
             /\ r.payload = MessageOf(k, Peer(e), r.payload.mseq)
  <2>1. CASE HandshakeRecord(k, Peer(e), sess[Peer(e)].send_msg_seq, r)
    BY <1>2, <2>1 DEF HandshakeRecord
  <2>2. CASE DataRecord(k, Peer(e), Len(appSent[Peer(e)]), r)
    BY <1>2, <2>2 DEF DataRecord
  <2> QED
    BY <2>1, <2>2 DEF SentRecords
<1> QED
  BY <1>1, <1>2 DEF Legible

\* The records of the step go on the wire, or none.
Sends(k, e, s0, s2, q) ==
  /\ IsSeq(q) /\ NoData(Range(q))
  /\ \/ q = <<>> /\ s2.last_sent = s0.last_sent
     \/ q = s2.last_sent /\ q = s0.last_sent
     \/ /\ q = s2.last_sent /\ Flight(k, e, s2.send_msg_seq, q) /\ AckOnce(Range(q))
        /\ s2.handshake_done = FALSE => NoAck(Range(q))

LEMMA SteppedSends ==
  ASSUME NEW k, NEW e, NEW s0, NEW p0, NEW n, NEW t, Stepped(k, e, s0, p0, n, t), t.ok = TRUE,
         IsSeq(s0.last_sent), NoData(Range(s0.last_sent))
  PROVE  Sends(k, e, s0, t.s, t.out)
<1>1. Resent(k, e, s0, t) /\ (t.out = t.s.last_sent \/ t.out = <<>>)
  BY DEF Stepped
<1>2. CASE t.s.last_sent = s0.last_sent /\ t.out = <<>>
  <2> DEFINE v == <<>>
  <2>1. IsSeq(v) /\ Range(v) = {} /\ t.out = v
    BY <1>2, NothingInEmpty
  <2> HIDE DEF v
  <2>2. IsSeq(t.out) /\ NoData(Range(t.out))
    BY <2>1 DEF NoData
  <2> QED
    BY <1>2, <2>2 DEF Sends
<1>3. CASE t.s.last_sent = s0.last_sent /\ t.out = t.s.last_sent
  BY <1>3 DEF Sends
<1>4. CASE /\ Flight(k, e, t.s.send_msg_seq, t.s.last_sent) /\ AckOnce(Range(t.s.last_sent))
           /\ t.s.handshake_done = FALSE => NoAck(Range(t.s.last_sent))
           /\ t.out = t.s.last_sent
  <2>1. IsSeq(t.out) /\ NoData(Range(t.out))
    BY <1>4, FlightNoData DEF Flight
  <2> QED
    BY <1>4, <2>1 DEF Sends
<1> QED
  BY <1>1, <1>2, <1>3, <1>4 DEF Resent

LEMMA DatagramSteps ==
  ASSUME NEW k \in Environments, Inv(k), NEW e \in Endpoint, status[e] = "handshake",
         NEW dg \in net[e],
         NEW t, t = dtls_handshake_step(sess[e], dg, InputOf(k))
  PROVE  /\ appSent[e] = <<>> /\ reason[e] # "step" /\ sess[e].handshake_done = FALSE
         /\ \E p \in -1 .. 6 : Stepped(k, e, sess[e], p, sess[Peer(e)].send_msg_seq, t)
<1> DEFINE f == Peer(e)
           s0 == sess[e]
           n == sess[f].send_msg_seq
           d == Len(appSent[e])
<1>0. f \in Endpoint /\ f = Peer(e)
  BY Peers
<1>1. /\ Resting(k, e) /\ Resting(k, f) /\ AppData(e) /\ AppData(f) /\ Follows(e)
      /\ SentRecords(k, f) /\ Underway(e)
  BY <1>0 DEF Inv
<1>2. PICK p \in -1 .. 6 : At(k, e, s0, p, d) /\ (k.ver = 12 /\ e = "client" => p # 4)
  BY <1>1, Awake
<1>3. reason[e] # "step" /\ ~s0.handshake_done /\ p \in Int
  BY <1>1, Awake DEF Done
<1>4. s0.recv_msg_seq <= n
  BY <1>1 DEF Follows
<1>5. Known(k, f, sess[f])
  BY <1>0, <1>1, RestingKnown
<1>6. appSent[e] \in Seq(Endpoint \X Nat)
  BY <1>1 DEF AppData
<1>7. IsSeq(dg) /\ Legible(k, e, n, Range(dg))
  BY <1>1, UnderwayLegible
<1>8. sess[f].recv_msg_seq <= s0.send_msg_seq
  <2>1. Follows(f) /\ Peer(f) = e
    BY <1>0, Peers DEF Inv
  <2> QED
    BY <2>1 DEF Follows
<1>9. t = dtls_handshake_step(s0, dg, InputOf(k))
  OBVIOUS
<1> DEFINE s2 == sess[f]
<1>10. n = s2.send_msg_seq
  OBVIOUS
<1> HIDE DEF s0, d, n, s2
<1>11. /\ p \in -Cookies(k) .. FinalStage(k, e) /\ s0.handshake_done \in BOOLEAN
       /\ p # FinalStage(k, e) => d = 0
       /\ p = FinalStage(k, e) => s0.handshake_done = TRUE
       /\ s0.recv_msg_seq \in Nat /\ s0.send_msg_seq \in Nat
  <2>1. At(k, e, s0, p, d) /\ p \in Int
    BY <1>2, <1>3
  <2>2. p \in -Cookies(k) .. FinalStage(k, e)
    BY <2>1, StageFacts
  <2>3. s0.recv_msg_seq \in Nat /\ s0.send_msg_seq \in Nat
    BY <2>1, StageFacts
  <2>4. p = FinalStage(k, e) => s0.handshake_done = TRUE
    BY <2>1, StageFacts
  <2>5. p # FinalStage(k, e) => s0.handshake_done = FALSE /\ d = 0
    BY <2>1, StageFacts
  <2> QED
    BY <2>2, <2>3, <2>4, <2>5
<1>12. s0.handshake_done = FALSE /\ d = 0
  BY <1>3, <1>11
<1>13. At(k, e, s0, p, 0)
  BY <1>2, <1>12
<1>14. Within(k, e, p, n) /\ n \in Nat
  <2>1. Known(k, Peer(e), s2) /\ s2.recv_msg_seq <= s0.send_msg_seq
    BY <1>0, <1>5, <1>8 DEF s2
  <2>2. Within(k, e, p, s2.send_msg_seq) /\ s2.send_msg_seq \in Nat
    BY <1>13, <2>1, PeerWithin
  <2> QED
    BY <1>10, <2>2
<1>15. p = -1 => Cookies(k) = 1
  <2>1. Cookies(k) \in {0, 1}
    BY EnvironmentFacts
  <2> QED
    BY <1>11, <2>1
<1>16. Starts(k, e, s0, p, n)
  BY <1>2, <1>11, <1>14, <1>15 DEF Starts
<1>17. Stepped(k, e, s0, p, n, t)
  BY <1>4, <1>7, <1>9, <1>12, <1>13, <1>16, HandshakeSteps
<1>18. appSent[e] = <<>>
  <2>1. Len(appSent[e]) = 0
    BY <1>12 DEF d
  <2> QED
    BY <1>6, <2>1
<1> QED
  BY <1>3, <1>12, <1>17, <1>18 DEF s0, n

LEMMA HandshakeKeeps ==
  ASSUME NEW k \in Environments, Inv(k), NEW e \in Endpoint, NEW dg \in net[e],
         HandshakeDatagram(e, dg)
  PROVE  Inv(k)'
<1> DEFINE r == dtls_handshake_step(sess[e], dg, InputOf(k))
           s0 == sess[e]
           s2 == r.s
           n == sess[Peer(e)].send_msg_seq
<1>1. env = k
  BY DEF Inv
<1>2. input = InputOf(k)
  BY <1>1 DEF input, InputOf, select_sig_scheme, verify_server_chain
<1>3. PICK taken \in SUBSET {dg} :
        /\ status[e] = "handshake"
        /\ sess' = [sess EXCEPT ![e] = r.s]
        /\ \/ ~r.ok /\ Close(e, "step") /\ Transmit(e, <<>>, taken)
           \/ /\ r.ok
              /\ Transmit(e, r.out, taken)
              /\ status' = [status EXCEPT ![e] = IF r.done THEN "open" ELSE @]
              /\ UNCHANGED reason
        /\ UNCHANGED <<env, appSent, delivered>>
  BY <1>2 DEF HandshakeDatagram, appVars
<1>4. r = dtls_handshake_step(sess[e], dg, InputOf(k))
  OBVIOUS
<1>5. s2 = r.s /\ s0 = sess[e] /\ n = sess[Peer(e)].send_msg_seq
  OBVIOUS
<1> HIDE DEF r, s2, s0, n
<1>6. /\ appSent[e] = <<>> /\ reason[e] # "step" /\ s0.handshake_done = FALSE
      /\ \E p \in -1 .. 6 : Stepped(k, e, s0, p, n, r)
  BY <1>3, <1>4, <1>5, DatagramSteps
<1>7. PICK p0 \in -1 .. 6 : Stepped(k, e, s0, p0, n, r)
  BY <1>6
<1>8. /\ LastFlightSent(e) /\ SentRecords(k, e) /\ AppData(e)
      /\ Underway(e) /\ Underway(Peer(e)) /\ Shapes
  BY Peers DEF Inv
<1>9. /\ IsSession(s2) /\ r.ok \in BOOLEAN
      /\ s2.send_msg_seq \in Nat /\ s0.send_msg_seq <= s2.send_msg_seq /\ s2.recv_msg_seq <= n
  BY <1>5, <1>7 DEF Stepped
<1>10. s0.send_msg_seq \in Nat
  <2>1. Resting(k, e)
    BY DEF Inv
  <2>2. Known(k, e, sess[e])
    BY <1>8, <2>1, RestingKnown
  <2> QED
    BY <1>5, <2>2, KnownNats
<1>11. /\ sess'[e] = s2 /\ DOMAIN sent = Endpoint
  BY <1>3, <1>5, <1>8 DEF Shapes, PerEndpoint
<1>12. /\ IsSeq(s0.last_sent) /\ Range(s0.last_sent) \subseteq sent[e]
       /\ NoData(Range(s0.last_sent))
  BY <1>5, <1>6, <1>8 DEF LastFlightSent
\* The records sent before.
<1>13. /\ \A x \in sent[e] : HandshakeRecord(k, e, s2.send_msg_seq, x) \/ DataRecord(k, e, Len(appSent[e]), x)
       /\ \A x \in sent[e] : x.ct # "ack"
  <2>1. \A x \in sent[e] : HandshakeRecord(k, e, s0.send_msg_seq, x) \/ DataRecord(k, e, Len(appSent[e]), x)
    BY <1>5, <1>8 DEF SentRecords
  <2>2. \A x \in sent[e] : x.ct # "ack"
    BY <1>5, <1>6, <1>8 DEF SentRecords, Done
  <2> QED
    BY <1>9, <1>10, <2>1, <2>2, RecordStays
<1>14. AppData(e)'
  BY <1>3, <1>8 DEF AppData
<1>15. /\ sess'[e].send_msg_seq \in Nat /\ sess[e].send_msg_seq <= sess'[e].send_msg_seq
       /\ sess'[e].recv_msg_seq <= sess[Peer(e)].send_msg_seq
  BY <1>5, <1>9, <1>11
<1>16. env' = env /\ Len(appSent'[e]) = Len(appSent[e]) /\ appSent'[e] = <<>>
  BY <1>3, <1>6
<1>17. CASE ~r.ok /\ Close(e, "step") /\ Transmit(e, <<>>, taken)
  <2> DEFINE q == <<>>
  <2>1. IsSeq(q) /\ Range(q) = {} /\ Transmit(e, q, taken)
    BY <1>17, NothingInEmpty
  <2> HIDE DEF q
  <2>2. NoData(Range(q))
    BY <2>1 DEF NoData
  <2>3. /\ \A g \in Endpoint : Underway(g)'
        /\ DOMAIN sent' = Endpoint
        /\ sent'[e] = sent[e] /\ sent'[Peer(e)] = sent[Peer(e)]
    BY <1>8, <1>11, <2>1, <2>2, UnderwaySends
  <2>4. Shapes'
    BY <1>3, <1>8, <1>17 DEF Shapes, PerEndpoint, Transmit, Close
  <2>5. Bystander(Peer(e))
    BY <1>3, <1>8, <1>17, <2>3, Peers DEF Bystander, Shapes, PerEndpoint, Close
  <2>6. status'[e] = "closed" /\ reason'[e] = "step"
    BY <1>8, <1>17 DEF Shapes, PerEndpoint, Close
  <2>7. Failed(k, e, s2)
    BY <1>5, <1>7, <1>9, <1>17 DEF Stepped
  <2>8. Resting(k, e)'
    BY <1>11, <1>16, <2>6, <2>7 DEF Resting
  <2>9. LastFlightSent(e)'
    BY <2>6 DEF LastFlightSent
  <2>10. SentRecords(k, e)'
    BY <1>11, <1>13, <1>16, <2>3 DEF SentRecords, AckOnce
  <2> QED
    BY <1>14, <1>15, <1>16, <2>3, <2>4, <2>5, <2>8, <2>9, <2>10, OneActs
<1>18. CASE /\ r.ok
            /\ Transmit(e, r.out, taken)
            /\ status' = [status EXCEPT ![e] = IF r.done THEN "open" ELSE @]
            /\ UNCHANGED reason
  <2> DEFINE q == r.out
  <2>1. Sends(k, e, s0, s2, q) /\ r.ok = TRUE
    BY <1>5, <1>7, <1>9, <1>12, <1>18, SteppedSends
  <2>2. IsSeq(q) /\ NoData(Range(q)) /\ Transmit(e, q, taken)
    BY <1>18, <2>1 DEF Sends
  <2>3. PICK p \in p0 .. 6 : At(k, e, s2, p, 0) /\ (k.ver = 12 /\ e = "client" => p # 4)
    BY <1>5, <1>7, <2>1 DEF Stepped
  <2>4. /\ s2.handshake_done = TRUE => r.done = TRUE
        /\ s2.handshake_done = FALSE => r.done = FALSE
    BY <1>5, <1>7, <2>1 DEF Stepped
  <2> HIDE DEF q
  <2>5. s2.handshake_done \in BOOLEAN /\ p \in -1 .. 6
    <3>1. p \in Int /\ p \in -1 .. 6
      BY <2>3
    <3> QED
      BY <2>3, <3>1, StageFacts
  <2>6. /\ \A g \in Endpoint : Underway(g)'
        /\ DOMAIN sent' = Endpoint
        /\ sent'[e] = sent[e] \cup Range(q) /\ sent'[Peer(e)] = sent[Peer(e)]
    BY <1>8, <1>11, <2>2, UnderwaySends
  <2>7. status'[e] = (IF r.done THEN "open" ELSE "handshake") /\ reason' = reason
    BY <1>3, <1>8, <1>18 DEF Shapes
  <2>8. Shapes'
    <3>1. status' \in [Endpoint -> {"idle", "handshake", "open", "closed"}]
      BY <1>8, <1>18 DEF Shapes
    <3> QED
      BY <1>3, <1>8, <1>18, <3>1 DEF Shapes, PerEndpoint, Transmit
  <2>9. Bystander(Peer(e))
    BY <1>3, <1>8, <1>18, <2>6, Peers DEF Bystander, Shapes, PerEndpoint
  <2>10. Resting(k, e)'
    <3>1. Len(appSent'[e]) = 0
      BY <1>16
    <3>2. \E x \in -1 .. 6 :
            At(k, e, sess'[e], x, Len(appSent'[e])) /\ (k.ver = 12 /\ e = "client" => x # 4)
      BY <1>11, <2>3, <2>5, <3>1
    <3>3. reason'[e] # "step"
      BY <1>6, <2>7
    <3>4. /\ status'[e] = "open" => sess'[e].handshake_done
          /\ status'[e] = "handshake" => ~sess'[e].handshake_done
          /\ status'[e] # "idle"
      BY <1>11, <2>4, <2>5, <2>7
    <3> QED
      BY <3>2, <3>3, <3>4 DEF Resting, Done
  <2>11. IsSeq(s2.last_sent) /\ Range(s2.last_sent) \subseteq sent'[e]
         /\ NoData(Range(s2.last_sent))
    BY <1>12, <2>1, <2>2, <2>6 DEF Sends
  <2>12. LastFlightSent(e)'
    BY <1>11, <2>11 DEF LastFlightSent
  <2>13. SentRecords(k, e)'
    <3>1. CASE Range(q) \subseteq sent[e]
      <4>1. sent'[e] = sent[e]
        BY <2>6, <3>1
      <4> QED
        BY <1>11, <1>13, <1>16, <4>1 DEF SentRecords, AckOnce
    <3>2. CASE /\ Flight(k, e, s2.send_msg_seq, q) /\ AckOnce(Range(q))
               /\ s2.handshake_done = FALSE => NoAck(Range(q))
      <4>1. \A x \in sent'[e] :
              HandshakeRecord(k, e, s2.send_msg_seq, x) \/ DataRecord(k, e, Len(appSent[e]), x)
        BY <1>13, <2>6, <3>2 DEF Flight
      <4>2. AckOnce(sent'[e])
        BY <1>13, <2>6, <3>2 DEF AckOnce
      <4>3. s2.handshake_done = FALSE => \A x \in sent'[e] : x.ct # "ack"
        BY <1>13, <2>6, <3>2 DEF NoAck
      <4> QED
        BY <1>11, <1>16, <2>5, <4>1, <4>2, <4>3 DEF SentRecords, Done
    <3>3. CASE q = <<>>
      <4> DEFINE v == <<>>
      <4>1. Range(v) = {} /\ q = v
        BY <3>3, NothingInEmpty
      <4> HIDE DEF v
      <4> QED
        BY <3>1, <4>1
    <3> QED
      BY <1>12, <2>1, <3>1, <3>2, <3>3 DEF Sends
  <2> QED
    BY <1>14, <1>15, <1>16, <2>6, <2>8, <2>9, <2>10, <2>12, <2>13, OneActs
<1> QED
  BY <1>3, <1>17, <1>18

\* Every step keeps the invariant.
LEMMA NextInv == ASSUME NEW k \in Environments, Inv(k), [Next]_vars PROVE Inv(k)'
<1>1. CASE Connect
  BY <1>1, ConnectKeeps
<1>2. ASSUME NEW e \in Endpoint, Timeout(e) PROVE Inv(k)'
  BY <1>2, TimeoutKeeps
<1>3. ASSUME NEW e \in Endpoint, HandshakeDeadline(e) \/ SocketError(e) \/ CloseOpen(e)
      PROVE  Inv(k)'
  BY <1>3, ClosingKeeps
<1>4. ASSUME NEW e \in Endpoint, Send(e) PROVE Inv(k)'
  BY <1>4, SendKeeps
<1>5. ASSUME NEW e \in Endpoint, NEW dg \in net[e], HandshakeDatagram(e, dg) PROVE Inv(k)'
  BY <1>5, HandshakeKeeps
<1>6. ASSUME NEW e \in Endpoint, NEW dg \in net[e], Recv(e, dg) PROVE Inv(k)'
  BY <1>6, RecvKeeps
<1>7. ASSUME NEW e \in Endpoint, NEW dg \in net[e], Lose(e, dg) PROVE Inv(k)'
  BY <1>7, LoseKeeps
<1>8. CASE UNCHANGED vars
  <2>1. UNCHANGED <<env, sess, status, reason, toClient, toServer, sent, appSent, delivered>>
    BY <1>8 DEF vars, connVars, netVars, appVars
  <2>2. net' = net
    BY <2>1 DEF net
  <2>3. \A g \in Endpoint : Underway(g)'
    BY <2>1, <2>2 DEF Inv, Underway
  <2> QED
    BY <2>1, <2>3, NetKeeps
<1> QED
  BY <1>1, <1>2, <1>3, <1>4, <1>5, <1>6, <1>7, <1>8 DEF Next

-----------------------------------------------------------------------------
(***************************************************************************)
(* What the invariant says of a connection.                                *)
(***************************************************************************)
\* An endpoint that is done is at its last stage.
LEMMA DoneAt ==
  ASSUME NEW k \in Environments, Inv(k), NEW e \in Endpoint, Done(e)
  PROVE  /\ \E p \in -1 .. 6 : At(k, e, sess[e], p, Len(appSent[e]))
         /\ sess[e].handshake_done = TRUE
<1>1. Resting(k, e) /\ AppData(e)
  BY DEF Inv
<1>2. sess[e].handshake_done # FALSE
  BY DEF Done
<1>3. ~Failed(k, e, sess[e])
  BY <1>2 DEF Failed
<1>4. sess[e] # Started(k, e)
  <2>1. Started(k, e).handshake_done = FALSE
    BY DEF Started, NewSession
  <2> QED
    BY <1>2, <2>1
<1>5. PICK p \in -1 .. 6 : At(k, e, sess[e], p, Len(appSent[e]))
  BY <1>1, <1>3, <1>4 DEF Resting
<1>6. sess[e].handshake_done = TRUE
  <2>1. p \in Int
    BY <1>5
  <2> QED
    BY <1>2, <1>5, <2>1, StageFacts
<1> QED
  BY <1>5, <1>6

\* An endpoint that is done authenticated its peer and agrees with it.
LEMMA DoneAgrees ==
  ASSUME NEW k \in Environments, Inv(k), NEW e \in Endpoint, Done(e)
  PROVE  k.usable /\ k.trusted /\ Agree(sess[e], sess[Peer(e)])
<1> DEFINE s == sess[e]
           s2 == sess[Peer(e)]
           d == Len(appSent[e])
<1>1. /\ \E p \in -1 .. 6 : At(k, e, s, p, d)
      /\ s.handshake_done = TRUE
  BY DoneAt
<1>2. Peer(e) \in Endpoint
  BY Peers
<1>3. Resting(k, Peer(e)) /\ AppData(Peer(e)) /\ Follows(e)
  BY <1>2 DEF Inv
<1>4. Known(k, Peer(e), s2)
  BY <1>2, <1>3, RestingKnown
<1>5. s.recv_msg_seq <= s2.send_msg_seq
  BY <1>3 DEF Follows
<1> HIDE DEF s, s2, d
<1>6. k.usable /\ k.trusted /\ Agree(s, s2)
  BY <1>1, <1>4, <1>5, DoneAgree
<1> QED
  BY <1>6 DEF s, s2

LEMMA InvKeysAgree == ASSUME NEW k \in Environments, Inv(k) PROVE KeysAgree
<1> SUFFICES ASSUME NEW e \in Endpoint, Done(e)
             PROVE  /\ sess[e].keys # NoKey /\ sess[e].keys = sess[Peer(e)].keys
                    /\ sess[e].cipher_suite = sess[Peer(e)].cipher_suite
                    /\ Done(Peer(e)) => /\ sess[e].app_keys = sess[Peer(e)].app_keys
                                        /\ sess[e].transcript = sess[Peer(e)].transcript
  BY DEF KeysAgree
<1>1. Agree(sess[e], sess[Peer(e)])
  BY DoneAgrees
<1>2. ASSUME Done(Peer(e)) PROVE sess[Peer(e)].handshake_done = TRUE
  BY <1>2, Peers, DoneAt
<1> QED
  BY <1>1, <1>2 DEF Agree

LEMMA InvAuthenticated ==
  ASSUME NEW k \in Environments, Inv(k) PROVE UnauthenticatedNeverCompletes
<1>1. env = k
  BY DEF Inv
<1> QED
  BY <1>1, DoneAgrees DEF UnauthenticatedNeverCompletes

LEMMA InvHonest == ASSUME NEW k \in Environments, Inv(k) PROVE NoHonestFailure
<1> SUFFICES ASSUME k.usable, k.trusted, NEW e \in Endpoint, reason[e] = "step"
             PROVE  FALSE
  BY DEF NoHonestFailure, Inv
<1>1. Resting(k, e)
  BY DEF Inv
<1> QED
  BY <1>1 DEF Resting, Failed

\* The numbers of the records of a side are apart.
LEMMA NumbersApart ==
  ASSUME NEW k \in Environments, NEW e \in Endpoint
  PROVE  /\ \A i, j \in Secret(k, e) : SecretNumber(k, e, i) = SecretNumber(k, e, j) => i = j
         /\ k.ver = 13 => \A i \in Secret(k, e) : SecretNumber(k, e, i) # AckNumber(e)
         /\ \A i \in Secret(k, e), j \in Nat \ {0} : SecretNumber(k, e, i) # DataNumber(k, j)
         /\ k.ver = 13 => \A j \in Nat \ {0} : AckNumber(e) # DataNumber(k, j)
         /\ \A i, j \in Nat \ {0} : DataNumber(k, i) = DataNumber(k, j) => i = j
<1>1. k.ver \in {12, 13}
  BY EnvironmentFacts
<1>2. CASE k.ver = 12
  BY <1>2 DEF Secret, SecretNumber, DataNumber, Endpoint
<1>3. CASE k.ver = 13
  <2>1. k.ver # 12
    BY <1>3
  <2>2. CASE e = "client"
    BY <2>1, <2>2 DEF Secret, SecretNumber, DataNumber, AckNumber
  <2>3. CASE e = "server"
    BY <2>1, <2>3 DEF Secret, SecretNumber, DataNumber, AckNumber
  <2> QED
    BY <2>2, <2>3 DEF Endpoint
<1> QED
  BY <1>1, <1>2, <1>3

\* Two records with the same key and number.
LEMMA SameNumberSameRecord ==
  ASSUME NEW k \in Environments, NEW e \in Endpoint, NEW n \in Nat, NEW d \in Nat,
         NEW r1, HandshakeRecord(k, e, n, r1) \/ DataRecord(k, e, d, r1),
         NEW r2, HandshakeRecord(k, e, n, r2) \/ DataRecord(k, e, d, r2),
         AckOnce({r1, r2}), r1.key # NoKey, r1.key = r2.key, Nonce(r1) = Nonce(r2)
  PROVE  r1 = r2
<1> DEFINE Hs(r) == /\ r.ct = "handshake" /\ r.payload.mseq \in Secret(k, e)
                    /\ r.payload = MessageOf(k, e, r.payload.mseq)
                    /\ Nonce(r) = SecretNumber(k, e, r.payload.mseq)
           AckRec(r) == r.ct = "ack" /\ k.ver = 13 /\ Nonce(r) = AckNumber(e)
           App(r) == /\ r.ct = "data"
                     /\ \E i \in Nat \ {0} : r.payload = <<e, i>> /\ Nonce(r) = DataNumber(k, i)
<1>1. /\ IsRecord(r1) /\ (Hs(r1) \/ AckRec(r1) \/ App(r1))
      /\ IsRecord(r2) /\ (Hs(r2) \/ AckRec(r2) \/ App(r2))
  BY DEF HandshakeRecord, DataRecord
<1>2. (r1.ct = r2.ct /\ r1.payload = r2.payload) \/ r1 = r2
  <2>1. CASE Hs(r1)
    <3>1. ~AckRec(r2) /\ ~App(r2)
      BY <2>1, NumbersApart
    <3>2. Hs(r2)
      BY <1>1, <3>1
    <3>3. r1.payload.mseq = r2.payload.mseq
      BY <2>1, <3>2, NumbersApart
    <3> QED
      BY <2>1, <3>2, <3>3
  <2>2. CASE AckRec(r1)
    <3>1. ~Hs(r2) /\ ~App(r2)
      BY <2>2, NumbersApart
    <3> QED
      BY <1>1, <2>2, <3>1 DEF AckOnce
  <2>3. CASE App(r1)
    <3>1. ~Hs(r2) /\ ~AckRec(r2)
      BY <2>3, NumbersApart
    <3>2. App(r2)
      BY <1>1, <3>1
    <3> QED
      BY <2>3, <3>2, NumbersApart
  <2> QED
    BY <1>1, <2>1, <2>2, <2>3
<1>3. r1.epoch = r2.epoch /\ r1.seq = r2.seq
  BY DEF Nonce
<1> QED
  BY <1>1, <1>2, <1>3 DEF IsRecord

LEMMA InvNonceUnique == ASSUME NEW k \in Environments, Inv(k) PROVE NonceUnique
<1> SUFFICES ASSUME NEW e \in Endpoint, NEW r1 \in sent[e], NEW r2 \in sent[e],
                    r1.key # NoKey, r1.key = r2.key, Nonce(r1) = Nonce(r2)
             PROVE  r1 = r2
  BY DEF NonceUnique
<1> DEFINE n == sess[e].send_msg_seq
           d == Len(appSent[e])
<1>1. Resting(k, e) /\ AppData(e) /\ SentRecords(k, e)
  BY DEF Inv
<1>2. n \in Nat
  BY <1>1, RestingKnown, KnownNats
<1>3. d \in Nat
  BY <1>1 DEF AppData
<1>4. /\ HandshakeRecord(k, e, n, r1) \/ DataRecord(k, e, d, r1)
      /\ HandshakeRecord(k, e, n, r2) \/ DataRecord(k, e, d, r2)
      /\ AckOnce({r1, r2})
  BY <1>1 DEF SentRecords, AckOnce
<1> HIDE DEF n, d
<1> QED
  BY <1>2, <1>3, <1>4, SameNumberSameRecord

-----------------------------------------------------------------------------
(***************************************************************************)
(* The theorems.                                                           *)
(***************************************************************************)
\* In every reachable state each endpoint is at one of its stages, or has failed, no
\* endpoint has handled more messages than its peer has sent, and every record on the
\* wire is one that dtls_handshake_step or send() makes at these stages.
THEOREM InvariantHolds == Spec => []IInv
<1>1. Init => IInv
  BY InitInv
<1>2. IInv /\ [Next]_vars => IInv'
  <2> SUFFICES ASSUME IInv, [Next]_vars PROVE IInv'
    OBVIOUS
  <2>1. PICK k \in Environments : Inv(k)
    BY DEF IInv
  <2>2. Inv(k)'
    BY <2>1, NextInv
  <2> QED
    BY <2>2 DEF IInv
<1> QED
  BY <1>1, <1>2, PTL DEF Spec

\* An endpoint that is done holds the keys and the suite of its peer, and two that
\* are done the same application keys and the same transcript, however the datagrams
\* of connect() and server_handshake() were lost, repeated and reordered.
THEOREM DtlsKeysAgree == Spec => []KeysAgree
<1>1. IInv => KeysAgree
  BY InvKeysAgree DEF IInv
<1> QED
  BY <1>1, InvariantHolds, PTL

\* Neither endpoint completes when the server has no usable certificate or the client
\* does not trust its chain (select_sig_scheme, verify_server_chain).
THEOREM DtlsAuthenticates == Spec => []UnauthenticatedNeverCompletes
<1>1. IInv => UnauthenticatedNeverCompletes
  BY InvAuthenticated DEF IInv
<1> QED
  BY <1>1, InvariantHolds, PTL

\* With a usable and trusted certificate no step of an honest endpoint fails:
\* process() never rejects what the other endpoint sent.
THEOREM DtlsHonest == Spec => []NoHonestFailure
<1>1. IInv => NoHonestFailure
  BY InvHonest DEF IInv
<1> QED
  BY <1>1, InvariantHolds, PTL

\* protect() never uses one record number under one key for two different records.
THEOREM DtlsNonceUnique == Spec => []NonceUnique
<1>1. IInv => NonceUnique
  BY InvNonceUnique DEF IInv
<1> QED
  BY <1>1, InvariantHolds, PTL

-----------------------------------------------------------------------------
(***************************************************************************)
(* The refinement of SecureChannel: what its variables stand for.          *)
(***************************************************************************)
StateOf == [e \in Endpoint |-> IF status[e] = "idle" THEN "handshake" ELSE status[e]]

KeyOf(s) == IF s.handshake_done THEN <<s.keys, s.app_keys>> ELSE <<>>

KeyOfAll == [e \in Endpoint |-> IF Done(e) THEN <<sess[e].keys, sess[e].app_keys>> ELSE <<>>]

LEMMA ChannelVars ==
  /\ Channel!vars = <<StateOf, KeyOfAll, appSent, delivered>>
  /\ Channel!vars' = <<StateOf', KeyOfAll', appSent', delivered'>>
BY DEF Channel!vars, StateOf, KeyOfAll

LEMMA KeyOfEach ==
  /\ \A e \in Endpoint : KeyOfAll[e] = KeyOf(sess[e])
  /\ \A e \in Endpoint : KeyOfAll'[e] = KeyOf(sess'[e])
  /\ KeyOfAll = [e \in Endpoint |-> KeyOf(sess[e])]
  /\ KeyOfAll' = [e \in Endpoint |-> KeyOf(sess'[e])]
BY DEF KeyOfAll, KeyOf, Done

\* A session that keeps its keys.
LEMMA SameKeys ==
  ASSUME NEW e \in Endpoint, PerEndpoint(sess), NEW s2, sess' = [sess EXCEPT ![e] = s2],
         KeyOf(s2) = KeyOf(sess[e])
  PROVE  KeyOfAll' = KeyOfAll
<1>1. \A g \in Endpoint : KeyOf(sess'[g]) = KeyOf(sess[g])
  BY DEF PerEndpoint
<1> QED
  BY <1>1, KeyOfEach

LEMMA ChannelInit == Init => Channel!Init
<1> SUFFICES ASSUME Init PROVE Channel!Init
  OBVIOUS
<1>1. StateOf = [e \in Endpoint |-> "handshake"]
  BY DEF Init, StateOf, Endpoint
<1>2. KeyOfAll = [e \in Endpoint |-> <<>>]
  <2>1. \A e \in Endpoint : Done(e) = FALSE
    BY DEF Init, Done, NewSession
  <2> QED
    BY <2>1 DEF KeyOfAll
<1>3. /\ appSent = [e \in Endpoint |-> <<>>]
      /\ delivered = [e \in Endpoint |-> <<>>]
  BY DEF Init
<1> QED
  BY <1>1, <1>2, <1>3 DEF Channel!Init, Channel!Endpoint, StateOf, KeyOfAll, Endpoint

\* The actions of SecureChannel in terms of StateOf and KeyOfAll.
LEMMA ChannelActions ==
  ASSUME NEW e \in Endpoint
  PROVE  /\ /\ StateOf[e] = "handshake" /\ StateOf' = [StateOf EXCEPT ![e] = "open"]
            /\ KeyOfAll'[e] # <<>>
            /\ KeyOfAll[Peer(e)] # <<>> => KeyOfAll'[e] = KeyOfAll[Peer(e)]
            /\ KeyOfAll' = [KeyOfAll EXCEPT ![e] = KeyOfAll'[e]]
            /\ appSent' = appSent /\ delivered' = delivered
            => Channel!Next
         /\ /\ StateOf[e] \in {"handshake", "open"}
            /\ StateOf' = [StateOf EXCEPT ![e] = "closed"]
            /\ KeyOfAll' = KeyOfAll /\ appSent' = appSent /\ delivered' = delivered
            => Channel!Next
         /\ /\ StateOf[e] = "open"
            /\ \E data \in Endpoint \X (1 .. MaxApp) :
                 appSent' = [appSent EXCEPT ![e] = Append(appSent[e], data)]
            /\ StateOf' = StateOf /\ KeyOfAll' = KeyOfAll /\ delivered' = delivered
            => Channel!Next
         /\ /\ StateOf[e] = "open" /\ KeyOfAll[Peer(e)] = KeyOfAll[e]
            /\ \E i \in DOMAIN appSent[Peer(e)] :
                 delivered' = [delivered EXCEPT ![e] = Append(delivered[e], appSent[Peer(e)][i])]
            /\ StateOf' = StateOf /\ KeyOfAll' = KeyOfAll /\ appSent' = appSent
            => Channel!Next
<1>1. Channel!Endpoint = Endpoint /\ Channel!Other(e) = Peer(e)
  BY DEF Channel!Endpoint, Channel!Other, Endpoint, Peer
<1>2. e \in Channel!Endpoint
  BY <1>1
<1>3. Channel!Open(e) \/ Channel!Close(e) \/ Channel!Send(e) \/ Channel!Receive(e) => Channel!Next
  BY <1>2 DEF Channel!Next
<1>4. ASSUME StateOf[e] = "handshake", StateOf' = [StateOf EXCEPT ![e] = "open"],
             KeyOfAll'[e] # <<>>,
             KeyOfAll[Peer(e)] # <<>> => KeyOfAll'[e] = KeyOfAll[Peer(e)],
             KeyOfAll' = [KeyOfAll EXCEPT ![e] = KeyOfAll'[e]],
             appSent' = appSent, delivered' = delivered
      PROVE  Channel!Open(e)
  BY <1>1, <1>4 DEF Channel!Open, StateOf, KeyOfAll
<1>5. ASSUME StateOf[e] \in {"handshake", "open"}, StateOf' = [StateOf EXCEPT ![e] = "closed"],
             KeyOfAll' = KeyOfAll, appSent' = appSent, delivered' = delivered
      PROVE  Channel!Close(e)
  BY <1>5 DEF Channel!Close, StateOf, KeyOfAll
<1>6. ASSUME StateOf[e] = "open",
             \E data \in Endpoint \X (1 .. MaxApp) :
               appSent' = [appSent EXCEPT ![e] = Append(appSent[e], data)],
             StateOf' = StateOf, KeyOfAll' = KeyOfAll, delivered' = delivered
      PROVE  Channel!Send(e)
  BY <1>6 DEF Channel!Send, StateOf, KeyOfAll
<1>7. ASSUME StateOf[e] = "open", KeyOfAll[Peer(e)] = KeyOfAll[e],
             \E i \in DOMAIN appSent[Peer(e)] :
               delivered' = [delivered EXCEPT ![e] = Append(delivered[e], appSent[Peer(e)][i])],
             StateOf' = StateOf, KeyOfAll' = KeyOfAll, appSent' = appSent
      PROVE  Channel!Receive(e)
  BY <1>1, <1>7 DEF Channel!Receive, StateOf, KeyOfAll
<1> QED
  BY <1>3, <1>4, <1>5, <1>6, <1>7

\* Neither the state nor the keys change.
LEMMA ChannelStutters ==
  ASSUME Shapes, UNCHANGED <<sess, status, appSent, delivered>>
  PROVE  UNCHANGED Channel!vars
<1>1. StateOf' = StateOf /\ KeyOfAll' = KeyOfAll
  BY DEF StateOf, KeyOfAll, Done
<1> QED
  BY <1>1, ChannelVars

LEMMA ClosingRefines ==
  ASSUME NEW e \in Endpoint, Shapes, status[e] \in {"handshake", "open"}, NEW why, Close(e, why),
         KeyOfAll' = KeyOfAll, appSent' = appSent, delivered' = delivered
  PROVE  Channel!Next
<1>1. StateOf[e] \in {"handshake", "open"}
  BY DEF StateOf
<1>2. StateOf' = [StateOf EXCEPT ![e] = "closed"]
  BY DEF StateOf, Close, Shapes
<1> QED
  BY <1>1, <1>2, ChannelActions

\* connect: the session is still without keys.
LEMMA ConnectRefines ==
  ASSUME NEW k \in Environments, Inv(k), Connect
  PROVE  UNCHANGED Channel!vars
<1> DEFINE e == "client"
           t == client_first_step(Started(k, "client"))
<1>1. e \in Endpoint /\ e = "client"
  BY DEF Endpoint
<1>2. Shapes /\ Resting(k, e)
  BY <1>1 DEF Inv
<1>3. /\ status[e] = "idle" /\ status' = [status EXCEPT ![e] = "handshake"]
      /\ sess' = [sess EXCEPT ![e] = client_first_step(sess[e]).s]
      /\ UNCHANGED <<appSent, delivered>>
  BY DEF Connect, StartConnect, appVars
<1>4. sess[e] = Started(k, e)
  BY <1>2, <1>3 DEF Resting
<1>5. t.s.handshake_done = FALSE
  <2>1. t = client_first_step(Started(k, "client"))
    OBVIOUS
  <2> HIDE DEF t
  <2> QED
    BY <2>1, ClientStarts
<1>6. sess' = [sess EXCEPT ![e] = t.s]
  BY <1>3, <1>4
<1>7. Started(k, e).handshake_done = FALSE
  BY DEF Started, NewSession
<1> HIDE DEF t, e
<1>8. KeyOfAll' = KeyOfAll
  <2>1. KeyOf(t.s) = KeyOf(sess[e])
    BY <1>4, <1>5, <1>7 DEF KeyOf
  <2> QED
    BY <1>1, <1>2, <1>6, <2>1, SameKeys DEF Shapes
<1>9. StateOf' = StateOf
  BY <1>1, <1>2, <1>3 DEF StateOf, Shapes
<1> QED
  BY <1>3, <1>8, <1>9, ChannelVars

LEMMA TimeoutRefines ==
  ASSUME NEW e \in Endpoint, Shapes, Timeout(e)
  PROVE  [Channel!Next]_(Channel!vars)
<1>1. /\ status[e] = "handshake" /\ UNCHANGED <<sess, appSent, delivered>>
      /\ Close(e, "retries_exhausted") \/ status' = status
  BY DEF Timeout, WaitExpires, appVars
<1>2. KeyOfAll' = KeyOfAll
  BY <1>1 DEF KeyOfAll, Done
<1>3. CASE Close(e, "retries_exhausted")
  BY <1>1, <1>2, <1>3, ClosingRefines
<1>4. CASE status' = status
  BY <1>1, <1>4, ChannelStutters
<1> QED
  BY <1>1, <1>3, <1>4

LEMMA EndRefines ==
  ASSUME NEW e \in Endpoint, Shapes, HandshakeDeadline(e) \/ SocketError(e) \/ CloseOpen(e)
  PROVE  Channel!Next
<1>1. PICK why \in {"deadline", "socket", "closed_by_user"} :
        /\ status[e] \in {"handshake", "open"} /\ Close(e, why)
        /\ UNCHANGED <<sess, appSent, delivered>>
  BY DEF HandshakeDeadline, SocketError, CloseOpen, appVars
<1>2. KeyOfAll' = KeyOfAll
  BY <1>1 DEF KeyOfAll, Done
<1> QED
  BY <1>1, <1>2, ClosingRefines

\* A step of a handshake opens the channel, closes it, or goes on.
LEMMA HandshakeRefines ==
  ASSUME NEW k \in Environments, Inv(k), NEW e \in Endpoint, NEW dg \in net[e],
         HandshakeDatagram(e, dg)
  PROVE  [Channel!Next]_(Channel!vars)
<1> DEFINE r == dtls_handshake_step(sess[e], dg, InputOf(k))
           s0 == sess[e]
           s2 == r.s
           s3 == sess[Peer(e)]
           n == sess[Peer(e)].send_msg_seq
<1>1. env = k /\ Shapes
  BY DEF Inv
<1>2. input = InputOf(k)
  BY <1>1 DEF input, InputOf, select_sig_scheme, verify_server_chain
<1>3. /\ status[e] = "handshake"
      /\ sess' = [sess EXCEPT ![e] = r.s]
      /\ \/ ~r.ok /\ Close(e, "step")
         \/ r.ok /\ status' = [status EXCEPT ![e] = IF r.done THEN "open" ELSE @]
      /\ appSent' = appSent /\ delivered' = delivered
  BY <1>2 DEF HandshakeDatagram, appVars
<1>4. r = dtls_handshake_step(sess[e], dg, InputOf(k))
  OBVIOUS
<1>5. s2 = r.s /\ s0 = sess[e] /\ s3 = sess[Peer(e)] /\ n = s3.send_msg_seq
  OBVIOUS
<1> HIDE DEF r, s2, s0, s3, n
<1>6. /\ s0.handshake_done = FALSE
      /\ \E p \in -1 .. 6 : Stepped(k, e, s0, p, n, r)
  BY <1>3, <1>4, <1>5, DatagramSteps
<1>7. PICK p0 \in -1 .. 6 : Stepped(k, e, s0, p0, n, r)
  BY <1>6
<1>8. r.ok \in BOOLEAN /\ s2.recv_msg_seq <= n
  BY <1>5, <1>7 DEF Stepped
<1>9. sess'[e] = s2 /\ sess' = [sess EXCEPT ![e] = s2] /\ Peer(e) \in Endpoint /\ Peer(e) # e
  BY <1>1, <1>3, <1>5, Peers DEF Shapes, PerEndpoint
<1>10. KeyOf(s0) = <<>>
  BY <1>6 DEF KeyOf
<1>11. ASSUME s2.handshake_done = FALSE PROVE KeyOfAll' = KeyOfAll
  <2>1. KeyOf(s2) = KeyOf(sess[e])
    BY <1>5, <1>10, <1>11 DEF KeyOf
  <2> QED
    BY <1>1, <1>9, <2>1, SameKeys DEF Shapes
<1>12. CASE ~r.ok /\ Close(e, "step")
  <2>1. s2.handshake_done = FALSE
    BY <1>5, <1>7, <1>8, <1>12 DEF Stepped, Failed
  <2> QED
    BY <1>1, <1>3, <1>11, <1>12, <2>1, ClosingRefines
<1>13. CASE r.ok /\ status' = [status EXCEPT ![e] = IF r.done THEN "open" ELSE @]
  <2>1. PICK p \in p0 .. 6 : At(k, e, s2, p, 0)
    BY <1>5, <1>7, <1>8, <1>13 DEF Stepped
  <2>2. p \in Int /\ p \in -1 .. 6
    BY <2>1
  <2>3. s2.handshake_done \in BOOLEAN
    <3>1. \/ s2.handshake_done = TRUE
          \/ s2.handshake_done = FALSE
      BY <2>1, <2>2, StageFacts
    <3> QED
      BY <3>1
  <2>4. CASE s2.handshake_done = FALSE
    <3>1. r.done = FALSE
      BY <1>5, <1>7, <1>8, <1>13, <2>4 DEF Stepped
    <3>2. StateOf' = StateOf
      BY <1>1, <1>13, <3>1 DEF StateOf, Shapes
    <3> QED
      BY <1>3, <1>11, <2>4, <3>2, ChannelVars
  <2>5. CASE s2.handshake_done = TRUE
    <3>1. r.done = TRUE
      BY <1>5, <1>7, <1>8, <1>13, <2>5 DEF Stepped
    <3>2. StateOf[e] = "handshake" /\ StateOf' = [StateOf EXCEPT ![e] = "open"]
      BY <1>1, <1>3, <1>13, <3>1 DEF StateOf, Shapes
    <3>3. Known(k, Peer(e), s3)
      <4>1. Resting(k, Peer(e)) /\ AppData(Peer(e))
        BY <1>9 DEF Inv
      <4> QED
        BY <1>5, <1>9, <4>1, RestingKnown
    <3>4. Agree(s2, s3)
      BY <1>5, <1>8, <2>1, <2>2, <2>5, <3>3, DoneAgree
    <3>5. KeyOfAll'[e] = <<s2.keys, s2.app_keys>>
      BY <1>9, <2>5, KeyOfEach DEF KeyOf
    <3>6. KeyOfAll'[e] # <<>>
      BY <3>5
    <3>7. ASSUME KeyOfAll[Peer(e)] # <<>> PROVE KeyOfAll'[e] = KeyOfAll[Peer(e)]
      <4>1. Done(Peer(e)) /\ KeyOfAll[Peer(e)] = <<s3.keys, s3.app_keys>>
        BY <1>5, <1>9, <3>7 DEF KeyOfAll, Done
      <4>2. s3.handshake_done = TRUE
        BY <1>5, <1>9, <4>1, DoneAt
      <4>3. s2.keys = s3.keys /\ s2.app_keys = s3.app_keys
        BY <3>4, <4>2 DEF Agree
      <4> QED
        BY <3>5, <4>1, <4>3
    <3>8. KeyOfAll' = [KeyOfAll EXCEPT ![e] = KeyOfAll'[e]]
      <4>1. \A g \in Endpoint : g # e => KeyOf(sess'[g]) = KeyOf(sess[g])
        BY <1>1, <1>9 DEF Shapes, PerEndpoint
      <4> QED
        BY <1>9, <4>1, KeyOfEach
    <3> QED
      BY <1>3, <3>2, <3>6, <3>7, <3>8, ChannelActions
  <2> QED
    BY <2>3, <2>4, <2>5
<1> QED
  BY <1>3, <1>12, <1>13

LEMMA DataStepKeys ==
  ASSUME NEW s, IsSession(s), NEW data
  PROVE  KeyOf(DataStep(s, data).s) = KeyOf(s)
BY DEF DataStep, protect, KeyOf, IsSession, SessionFields

\* send() and the abstract Send.
LEMMA SendRefines ==
  ASSUME NEW k \in Environments, Inv(k), NEW e \in Endpoint, Send(e)
  PROVE  Channel!Next
<1> DEFINE d == Len(appSent[e])
           data == <<e, d + 1>>
           s2 == DataStep(sess[e], data).s
<1>1. /\ status[e] = "open" /\ d < env.max_app
      /\ sess' = [sess EXCEPT ![e] = s2]
      /\ appSent' = [appSent EXCEPT ![e] = Append(appSent[e], data)]
      /\ status' = status /\ delivered' = delivered
  BY DEF Send, DataStep
<1>2. Shapes /\ Resting(k, e) /\ AppData(e) /\ env = k
  BY DEF Inv
<1>3. IsSession(sess[e])
  BY <1>1, <1>2, Awake DEF At, Own
<1>4. KeyOf(s2) = KeyOf(sess[e])
  BY <1>3, DataStepKeys
<1> HIDE DEF s2
<1>5. KeyOfAll' = KeyOfAll
  BY <1>1, <1>2, <1>4, SameKeys DEF Shapes
<1>6. StateOf[e] = "open" /\ StateOf' = StateOf
  BY <1>1 DEF StateOf
<1>7. data \in Endpoint \X (1 .. MaxApp)
  <2>1. d \in Nat
    BY <1>2 DEF AppData
  <2>2. k.max_app \in 0 .. MaxApp /\ MaxApp \in Nat
    BY EnvironmentFacts
  <2> HIDE DEF d
  <2>3. d + 1 \in 1 .. MaxApp
    BY <1>1, <1>2, <2>1, <2>2
  <2> QED
    BY <2>3
<1> HIDE DEF data
<1> QED
  BY <1>1, <1>5, <1>6, <1>7, ChannelActions

\* What is sent is sent by an endpoint that is done.
LEMMA SenderDone ==
  ASSUME NEW k \in Environments, Inv(k), NEW f \in Endpoint, NEW i \in 1 .. Len(appSent[f])
  PROVE  Done(f)
<1> DEFINE d == Len(appSent[f])
           s == sess[f]
<1>1. Resting(k, f) /\ appSent[f] \in Seq(Endpoint \X Nat)
  BY DEF Inv, AppData
<1>2. d # 0 /\ appSent[f] # <<>>
  BY <1>1
<1>3. PICK p \in -1 .. 6 : At(k, f, s, p, d)
  BY <1>1, <1>2 DEF Resting
<1> HIDE DEF d, s
<1>4. At(k, f, s, p, d) /\ p \in Int
  BY <1>3
<1>5. p # FinalStage(k, f) => s.handshake_done = FALSE /\ d = 0
  BY <1>4, StageFacts
<1>6. p = FinalStage(k, f) => s.handshake_done = TRUE
  BY <1>4, StageFacts
<1> QED
  BY <1>2, <1>5, <1>6 DEF Done, s

\* recv() and the abstract Receive: a repeated record is received again.
LEMMA RecvRefines ==
  ASSUME NEW k \in Environments, Inv(k), NEW e \in Endpoint, NEW dg \in net[e], Recv(e, dg)
  PROVE  [Channel!Next]_(Channel!vars)
<1> DEFINE s == sess[e]
           st == parse_datagram([s |-> s, events |-> <<>>, pending |-> <<>>], dg)
           base == delivered[e]
           got == FoldLeft(keep_application, base, st.events)
           f == Peer(e)
<1>1. /\ status[e] = "open"
      /\ sess' = [sess EXCEPT ![e] = st.s]
      /\ delivered' = [delivered EXCEPT ![e] = got]
      /\ status' = status /\ appSent' = appSent
  BY DEF Recv
<1>2. Shapes /\ Resting(k, e) /\ Underway(e) /\ f \in Endpoint /\ f = Peer(e)
  BY Peers DEF Inv
<1>3. IsSeq(dg) /\ (NoData(Range(dg)) \/ Len(dg) = 1) /\ Range(dg) \subseteq sent[f]
  BY <1>2 DEF Underway
<1>4. IsSession(s) /\ Done(e)
  BY <1>1, <1>2, Awake DEF At, Own
<1>5. /\ Same(s, st.s, Aside)
      /\ \/ got = base
         \/ \E r \in Range(dg) : r.ct = "data" /\ got = Append(base, r.payload)
  <2>1. st = parse_datagram([s |-> s, events |-> <<>>, pending |-> <<>>], dg)
    OBVIOUS
  <2>2. got = FoldLeft(keep_application, base, st.events)
    OBVIOUS
  <2> HIDE DEF s, st, base, got
  <2> QED
    BY <1>3, <1>4, <2>1, <2>2, Delivers
<1> DEFINE s2 == st.s
<1>6. sess' = [sess EXCEPT ![e] = s2] /\ delivered' = [delivered EXCEPT ![e] = got]
      /\ s = sess[e] /\ base = delivered[e] /\ s2 = st.s
  BY <1>1
<1> HIDE DEF s, s2, st, got, base, f
<1>7. KeyOfAll' = KeyOfAll
  <2>1. KeyOf(s2) = KeyOf(s)
    BY <1>5, <1>6 DEF KeyOf, Same, Aside, SessionFields
  <2> QED
    BY <1>2, <1>6, <2>1, SameKeys DEF Shapes
<1>8. StateOf[e] = "open" /\ StateOf' = StateOf
  BY <1>1 DEF StateOf
<1>9. CASE got = base
  <2>1. delivered' = delivered
    BY <1>2, <1>6, <1>9 DEF Shapes, PerEndpoint
  <2> QED
    BY <1>1, <1>7, <1>8, <2>1, ChannelVars
<1>10. CASE \E r \in Range(dg) : r.ct = "data" /\ got = Append(base, r.payload)
  <2>1. PICK r \in Range(dg) : r.ct = "data" /\ got = Append(base, r.payload)
    BY <1>10
  <2>2. SentRecords(k, f) /\ AppData(f)
    BY <1>2 DEF Inv
  <2>3. DataRecord(k, f, Len(appSent[f]), r)
    BY <1>3, <2>1, <2>2 DEF SentRecords, HandshakeRecord
  <2>4. PICK i \in 1 .. Len(appSent[f]) : r.payload = <<f, i>>
    BY <2>3 DEF DataRecord
  <2>5. r.payload = appSent[f][i] /\ i \in DOMAIN appSent[f]
    BY <2>2, <2>4 DEF AppData
  <2>6. Done(f)
    BY <1>2, <2>4, SenderDone
  <2>7. KeyOfAll[f] = KeyOfAll[e]
    <3>1. KeysAgree
      BY InvKeysAgree
    <3> QED
      BY <1>2, <1>4, <2>6, <3>1 DEF KeysAgree, KeyOfAll
  <2>8. \E j \in DOMAIN appSent[f] :
          delivered' = [delivered EXCEPT ![e] = Append(delivered[e], appSent[f][j])]
    BY <1>6, <2>1, <2>5
  <2> QED
    BY <1>1, <1>2, <1>7, <1>8, <2>7, <2>8, ChannelActions
<1> QED
  BY <1>5, <1>9, <1>10

LEMMA NextRefines ==
  ASSUME NEW k \in Environments, Inv(k), [Next]_vars
  PROVE  [Channel!Next]_(Channel!vars)
<1>0. Shapes
  BY DEF Inv
<1>1. CASE Connect
  BY <1>1, ConnectRefines
<1>2. ASSUME NEW e \in Endpoint, Timeout(e) PROVE [Channel!Next]_(Channel!vars)
  BY <1>0, <1>2, TimeoutRefines
<1>3. ASSUME NEW e \in Endpoint, HandshakeDeadline(e) \/ SocketError(e) \/ CloseOpen(e)
      PROVE  [Channel!Next]_(Channel!vars)
  BY <1>0, <1>3, EndRefines
<1>4. ASSUME NEW e \in Endpoint, Send(e) PROVE [Channel!Next]_(Channel!vars)
  BY <1>4, SendRefines
<1>5. ASSUME NEW e \in Endpoint, NEW dg \in net[e], HandshakeDatagram(e, dg)
      PROVE  [Channel!Next]_(Channel!vars)
  BY <1>5, HandshakeRefines
<1>6. ASSUME NEW e \in Endpoint, NEW dg \in net[e], Recv(e, dg)
      PROVE  [Channel!Next]_(Channel!vars)
  BY <1>6, RecvRefines
<1>7. ASSUME NEW e \in Endpoint, NEW dg \in net[e], Lose(e, dg)
      PROVE  [Channel!Next]_(Channel!vars)
  <2>1. UNCHANGED <<sess, status, appSent, delivered>>
    BY <1>7 DEF Lose, connVars, appVars
  <2> QED
    BY <1>0, <2>1, ChannelStutters
<1>8. CASE UNCHANGED vars
  <2>1. UNCHANGED <<sess, status, appSent, delivered>>
    BY <1>8 DEF vars, connVars, appVars
  <2> QED
    BY <1>0, <2>1, ChannelStutters
<1> QED
  BY <1>1, <1>2, <1>3, <1>4, <1>5, <1>6, <1>7, <1>8 DEF Next

\* dtls_connection implements SecureChannel: connect(), server_handshake(), send(),
\* recv() and close() map to its actions, and every other step to a stutter.
THEOREM DtlsImplementsSecureChannel == Spec => ImplementsSecureChannel
<1>1. Init => Channel!Init
  BY ChannelInit
<1>2. IInv /\ [Next]_vars => [Channel!Next]_(Channel!vars)
  BY NextRefines DEF IInv
<1> QED
  BY <1>1, <1>2, InvariantHolds, PTL DEF Spec, ImplementsSecureChannel, Channel!Spec
=============================================================================
