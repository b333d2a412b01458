------------------------- MODULE TlsHandshakeProofs -------------------------
(***************************************************************************)
(* Proofs about TlsHandshake, for any configurations.                      *)
(*                                                                         *)
(* What a server answers is a function of its configuration and of the     *)
(* client's hello, which is one of the client's configuration.  So for a   *)
(* configuration k every message of the server, and what both sides derive *)
(* from them, has a name (Hello(k), SH13(k), Sent13(k), Flight12(k), ...). *)
(* The inductive invariant says what is on the wire and what each session  *)
(* holds in these terms, at each place the two sides can be; the theorems  *)
(* at the end follow from it.  Where a side goes on only after a Finished, *)
(* the Finished names the transcript and the key it was made with, and     *)
(* equal Finished messages are what makes the two sides agree.             *)
(***************************************************************************)
EXTENDS TlsHandshake, SequenceTheorems, WellFoundedInduction, TLAPS

(***************************************************************************)
(* The folds of the handshake, step by step.                               *)
(***************************************************************************)
UpdateStep(s, m, t) == transcript_update(s, m)
OpenStep(o, r, t) == OpenRecord(o, r)

Updates == INSTANCE FoldSteps WITH op <- UpdateStep
Opens == INSTANCE FoldSteps WITH op <- OpenStep
Parses == INSTANCE FoldSteps WITH op <- OnMessage
Flights == INSTANCE FoldSteps WITH op <- FlightStep

\* r holds the sessions along the way.
UpdateRun(r, s, ms, n) ==
  /\ r[0] = s
  /\ \A i \in 1 .. n : r[i] = transcript_update(r[i - 1], ms[i])
  /\ transcript_updates(s, ms) = r[n]

LEMMA UpdatesSteps ==
  ASSUME NEW s, NEW ms, NEW n \in Nat, DOMAIN ms = 1 .. n
  PROVE  \E r : UpdateRun(r, s, ms, n)
<1>1. transcript_updates(s, ms) = Updates!Fold(0, s, ms)
  BY DEF transcript_updates, UpdateStep, Updates!Fold, FoldLeft, MapThenFoldSet, Max,
         Updates!FoldLeft, Updates!MapThenFoldSet, Updates!Max
<1>2. PICK r : Updates!IsRun(r, 0, s, ms, n)
  BY Updates!Steps
<1> QED
  BY <1>1, <1>2 DEF UpdateStep, UpdateRun, Updates!IsRun

SessionFields ==
  {"role", "quic", "suite", "pinned", "skip", "ks_group", "sig_algs", "sig_algs_cert",
   "alpn_protos", "alpn", "sni", "psk", "transcript", "ch_cache", "ks_priv",
   "ks_priv_x25519", "base", "key", "client_seq", "server_seq", "ems", "session_id",
   "sig_alg", "finished", "verified"}

\* t is s but for the fields X.
Same(s, t, X) == \A f \in SessionFields \ X : t[f] = s[f]

IsSession(s) == DOMAIN s = SessionFields

LEMMA NewSessionFields ==
  ASSUME NEW role, NEW k
  PROVE  IsSession(NewSession(role, k))
BY DEF IsSession, NewSession, SessionFields

LEMMA UpdateFields ==
  ASSUME NEW s, NEW m, IsSession(s)
  PROVE  /\ IsSession(transcript_update(s, m))
         /\ Same(s, transcript_update(s, m), {"transcript"})
         /\ transcript_update(s, m).transcript = Append(s.transcript, <<s.suite.hash, m>>)
BY DEF transcript_update, IsSession, Same, SessionFields

LEMMA NewKeyFields ==
  ASSUME NEW s, NEW key, IsSession(s)
  PROVE  /\ IsSession(NewKey(s, key))
         /\ Same(s, NewKey(s, key), {"key", "client_seq", "server_seq"})
         /\ NewKey(s, key).key = key /\ NewKey(s, key).client_seq = 0 /\ NewKey(s, key).server_seq = 0
BY DEF NewKey, IsSession, Same, SessionFields

-----------------------------------------------------------------------------
(* Sequences *)

IsSeq(s) == \E S : s \in Seq(S)

\* t is s with e at the end.
Grown(s, t, e) ==
  /\ IsSeq(t) /\ Len(t) \in Nat /\ DOMAIN t = 1 .. Len(t) /\ Len(t) = Len(s) + 1
  /\ \A i \in 1 .. Len(s) : t[i] = s[i]
  /\ t[Len(s) + 1] = e

LEMMA SeqDomain ==
  ASSUME NEW s, IsSeq(s)
  PROVE  Len(s) \in Nat /\ DOMAIN s = 1 .. Len(s)
BY DEF IsSeq

LEMMA AppendAny ==
  ASSUME NEW s, IsSeq(s), NEW e
  PROVE  Grown(s, Append(s, e), e)
<1>1. PICK S : s \in Seq(S)
  BY DEF IsSeq
<1>2. s \in Seq(S \cup {e}) /\ e \in S \cup {e}
  BY <1>1
<1>3. Append(s, e) \in Seq(S \cup {e})
  BY <1>2
<1> QED
  BY <1>2, <1>3 DEF IsSeq, Grown

LEMMA TenSeq ==
  ASSUME NEW e1, NEW e2, NEW e3, NEW e4, NEW e5, NEW e6,
         NEW e7, NEW e8, NEW e9, NEW e10
  PROVE  IsSeq(<<e1, e2, e3, e4, e5, e6, e7, e8, e9, e10>>)
<1> DEFINE q == <<e1, e2, e3, e4, e5, e6, e7, e8, e9, e10>>
           S == {e1, e2, e3, e4, e5, e6, e7, e8, e9, e10}
<1>1. q \in Seq(S)
  OBVIOUS
<1> HIDE DEF q, S
<1>2. IsSeq(q)
  BY <1>1 DEF IsSeq
<1> QED
  BY <1>2 DEF q

LEMMA FifteenSeq ==
  ASSUME NEW e1, NEW e2, NEW e3, NEW e4, NEW e5, NEW e6,
         NEW e7, NEW e8, NEW e9, NEW e10, NEW e11, NEW e12,
         NEW e13, NEW e14, NEW e15
  PROVE  IsSeq(<<e1, e2, e3, e4, e5, e6, e7, e8, e9, e10, e11, e12, e13, e14, e15>>)
<1> DEFINE q == <<e1, e2, e3, e4, e5, e6, e7, e8, e9, e10, e11, e12, e13, e14, e15>>
           S == {e1, e2, e3, e4, e5, e6, e7, e8, e9, e10, e11, e12, e13, e14, e15}
<1>1. q \in Seq(S)
  OBVIOUS
<1> HIDE DEF q, S
<1>2. IsSeq(q)
  BY <1>1 DEF IsSeq
<1> QED
  BY <1>2 DEF q

LEMMA JoinAny ==
  ASSUME NEW a, NEW b, IsSeq(a), IsSeq(b)
  PROVE  IsSeq(a \o b)
<1>1. PICK S, T : a \in Seq(S) /\ b \in Seq(T)
  BY DEF IsSeq
<1> DEFINE U == S \cup T
<1>2. a \in Seq(U) /\ b \in Seq(U)
  BY <1>1
<1> HIDE DEF U
<1>3. a \o b \in Seq(U)
  BY <1>2
<1> QED
  BY <1>3 DEF IsSeq

\* An element of a sequence that lies in S, or None.
LEMMA FirstInFacts ==
  ASSUME NEW seq, NEW n \in Nat, DOMAIN seq = 1 .. n, NEW S, FirstIn(seq, S) # None
  PROVE  FirstIn(seq, S) \in S /\ \E i \in 1 .. n : FirstIn(seq, S) = seq[i]
<1> DEFINE hits == {i \in DOMAIN seq : seq[i] \in S}
           R == OpToRel(<, Nat)
<1>1. hits # {} /\ FirstIn(seq, S) = seq[Min(hits)]
  BY DEF FirstIn
<1>2. IsWellFoundedOn(R, Nat)
  BY NatLessThanWellFounded
<1>3. hits \subseteq Nat
  OBVIOUS
<1> HIDE DEF hits, R
<1>4. PICK m \in hits : \A j \in hits : ~(<<j, m>> \in R)
  BY <1>1, <1>2, <1>3, WFMin
<1>5. \A j \in hits : m =< j
  <2>1. \A j \in hits : ~(j < m)
    BY <1>3, <1>4 DEF R, OpToRel
  <2> QED
    BY <1>3, <2>1
<1>6. Min(hits) \in hits
  BY <1>5 DEF Min
<1> QED
  BY <1>1, <1>6 DEF hits

LEMMA JoinTwo == \A x, y : <<x>> \o <<y>> = <<x, y>>
<1> SUFFICES ASSUME NEW x, NEW y PROVE <<x>> \o <<y>> = <<x, y>>
  OBVIOUS
<1> DEFINE a == <<x>>
           b == <<y>>
           q == <<x, y>>
           S == {x, y}
<1>1. /\ a \in Seq(S) /\ b \in Seq(S) /\ q \in Seq(S)
      /\ Len(a) = 1 /\ Len(b) = 1 /\ Len(q) = 2
      /\ a[1] = x /\ b[1] = y /\ q[1] = x /\ q[2] = y
  OBVIOUS
<1> HIDE DEF a, b, q, S
<1>2. /\ a \o b \in Seq(S) /\ Len(a \o b) = 2
      /\ \A i \in 1 .. 2 : (a \o b)[i] = IF i <= Len(a) THEN a[i] ELSE b[i - Len(a)]
  BY <1>1, ConcatProperties
<1>3. \A i \in 1 .. 2 : (a \o b)[i] = q[i]
  BY <1>1, <1>2
<1>4. a \o b = q
  BY <1>1, <1>2, <1>3, SeqEqual
<1> QED
  BY <1>4 DEF a, b, q

LEMMA FourAppends ==
  ASSUME NEW w, NEW x, NEW y, NEW z
  PROVE  LET q == Append(Append(Append(Append(<<>>, w), x), y), z)
         IN IsSeq(q) /\ Len(q) = 4 /\ q[3] = y /\ q[4] = z
<1> DEFINE a == Append(<<>>, w)
           b == Append(a, x)
           d == Append(b, y)
           q == Append(d, z)
<1>1. IsSeq(<<>>) /\ Len(<<>>) = 0
  BY DEF IsSeq
<1>2. Grown(<<>>, a, w)
  BY <1>1, AppendAny, Zenon
<1> HIDE DEF a
<1>3. IsSeq(a) /\ Len(a) = 1
  BY <1>1, <1>2 DEF Grown
<1>4. Grown(a, b, x)
  BY <1>3, AppendAny, Zenon
<1> HIDE DEF b
<1>5. IsSeq(b) /\ Len(b) = 2
  BY <1>3, <1>4 DEF Grown
<1>6. Grown(b, d, y)
  BY <1>5, AppendAny, Zenon
<1> HIDE DEF d
<1>7. IsSeq(d) /\ Len(d) = 3 /\ d[3] = y
  BY <1>5, <1>6 DEF Grown
<1>8. Grown(d, q, z)
  BY <1>7, AppendAny, Zenon
<1> HIDE DEF q
<1>9. IsSeq(q) /\ Len(q) = 4 /\ q[3] = y /\ q[4] = z
  BY <1>7, <1>8 DEF Grown
<1> QED
  BY <1>9 DEF a, b, d, q

\* The transcript after messages that were added under one suite.
LEMMA TwoUpdates ==
  ASSUME NEW s, NEW a, NEW b, IsSession(s), IsSeq(s.transcript)
  PROVE  LET t == transcript_updates(s, <<a, b>>)
         IN /\ IsSession(t) /\ Same(s, t, {"transcript"})
            /\ t.transcript = Append(Append(s.transcript, <<s.suite.hash, a>>),
                                     <<s.suite.hash, b>>)
<1> DEFINE ms == <<a, b>>
           u == transcript_update(s, a)
<1>1. DOMAIN ms = 1 .. 2 /\ ms[1] = a /\ ms[2] = b
  OBVIOUS
<1> HIDE DEF ms
<1>2. PICK r : UpdateRun(r, s, ms, 2)
  BY <1>1, UpdatesSteps, 2 \in Nat
<1>3. r[1] = u /\ r[2] = transcript_update(u, b)
  <2>1. 1 \in 1 .. 2 /\ 2 \in 1 .. 2 /\ 1 - 1 = 0 /\ 2 - 1 = 1
    OBVIOUS
  <2> QED
    BY <1>1, <1>2, <2>1 DEF UpdateRun
<1>4. /\ IsSession(u) /\ Same(s, u, {"transcript"})
      /\ u.transcript = Append(s.transcript, <<s.suite.hash, a>>)
  BY UpdateFields
<1> HIDE DEF u
<1>5. /\ IsSession(r[2]) /\ Same(u, r[2], {"transcript"})
      /\ r[2].transcript = Append(u.transcript, <<u.suite.hash, b>>)
  BY <1>3, <1>4, UpdateFields
<1>6. Same(s, r[2], {"transcript"}) /\ u.suite = s.suite
  BY <1>4, <1>5 DEF Same, SessionFields
<1> QED
  BY <1>2, <1>4, <1>5, <1>6 DEF ms, UpdateRun

\* Messages enter the transcript and change nothing else.
LEMMA UpdatesSame ==
  ASSUME NEW s, NEW ms, NEW n \in Nat, DOMAIN ms = 1 .. n, IsSession(s)
  PROVE  /\ IsSession(transcript_updates(s, ms))
         /\ Same(s, transcript_updates(s, ms), {"transcript"})
<1>1. PICK r : UpdateRun(r, s, ms, n)
  BY UpdatesSteps
<1> DEFINE Ok(t) == IsSession(t) /\ Same(s, t, {"transcript"})
           K == {i \in Nat : i \in 0 .. n => Ok(r[i])}
<1>2. 0 \in K
  BY <1>1 DEF UpdateRun, Same
<1>3. ASSUME NEW i \in Nat, i \in K PROVE i + 1 \in K
  <2> SUFFICES ASSUME i + 1 \in 0 .. n PROVE Ok(r[i + 1])
    OBVIOUS
  <2>1. IsSession(r[i]) /\ Same(s, r[i], {"transcript"})
    BY <1>3
  <2>2. r[i + 1] = transcript_update(r[i], ms[i + 1])
    <3>1. i + 1 \in 1 .. n /\ (i + 1) - 1 = i
      OBVIOUS
    <3> QED
      BY <1>1, <3>1 DEF UpdateRun
  <2>3. IsSession(r[i + 1]) /\ Same(r[i], r[i + 1], {"transcript"})
    BY <2>1, <2>2, UpdateFields
  <2> QED
    BY <2>1, <2>3 DEF Same
<1> HIDE DEF K
<1>4. n \in K
  BY <1>2, <1>3, Updates!NatSetInduction
<1> QED
  BY <1>1, <1>4 DEF K, UpdateRun

\* No message, or one.
LEMMA FewUpdates ==
  ASSUME NEW s, NEW a
  PROVE  /\ transcript_updates(s, <<>>) = s
         /\ transcript_updates(s, <<a>>) = transcript_update(s, a)
<1>1. transcript_updates(s, <<>>) = s
  <2>1. PICK r : UpdateRun(r, s, <<>>, 0)
    BY UpdatesSteps, 0 \in Nat, DOMAIN <<>> = 1 .. 0
  <2> QED
    BY <2>1 DEF UpdateRun
<1>2. transcript_updates(s, <<a>>) = transcript_update(s, a)
  <2> DEFINE ms == <<a>>
  <2>1. DOMAIN ms = 1 .. 1 /\ ms[1] = a
    OBVIOUS
  <2> HIDE DEF ms
  <2>2. PICK r : UpdateRun(r, s, ms, 1)
    BY <2>1, UpdatesSteps, 1 \in Nat
  <2>3. 1 \in 1 .. 1 /\ 1 - 1 = 0
    OBVIOUS
  <2>4. r[1] = transcript_update(s, a)
    BY <2>1, <2>2, <2>3 DEF UpdateRun
  <2> QED
    BY <2>2, <2>4 DEF UpdateRun, ms
<1> QED
  BY <1>1, <1>2

-----------------------------------------------------------------------------
(***************************************************************************)
(* The TLS 1.3 server of configuration k, step by step.                    *)
(***************************************************************************)
ClientStart(k) == NewSession("client", k.client)

HelloStep(k) == IF k.client.ver = "1.2" THEN tls12_make_client_hello(ClientStart(k))
                ELSE tls13_make_client_hello(ClientStart(k))
Hello(k) == HelloStep(k).msg
Waiting(k) == HelloStep(k).s

ServerStart(k) ==
  LET s == NewSession("server", k.server)
  IN IF k.client.quic THEN s ELSE reset_session_preserving_config(s)

CertOf(k) == get_certificate(k.server.manager, Hello(k).sni)

Suite13(k) == select_suite13(ServerStart(k), Hello(k), CertOf(k))
Group13(k) == select_group13(Suite13(k), Hello(k))
Alg13(k) == select_sig_alg13(ServerStart(k), Hello(k), CertOf(k))
Share13(k) == CHOOSE x \in ToSet(Hello(k).shares) : x.group = Group13(k)

Selected13(k) ==
  [ServerStart(k) EXCEPT !.suite = Suite13(k), !.transcript = <<>>, !.sni = Hello(k).sni,
                         !.alpn = IF ServerStart(k).alpn_protos = <<>> THEN ""
                                  ELSE tls_select_alpn(Hello(k).alpn, ServerStart(k).alpn_protos),
                         !.sig_alg = Alg13(k), !.ks_group = Group13(k)]
SH13(k) == [type |-> "server_hello", suite |-> Suite13(k),
            share |-> KeyPair("server", Group13(k))]
Greeted13(k) == transcript_updates(Selected13(k), <<Hello(k), SH13(k)>>)
Keyed13(k) == tls13_derive_handshake_keys(Greeted13(k),
                  Ecdh(KeyPair("server", Group13(k)), Share13(k)))
EE13(k) == tls13_make_encrypted_extensions(Keyed13(k))
Crt(k) == tls13_make_certificate(CertOf(k))
Certified13(k) == transcript_updates(Keyed13(k), <<EE13(k), Crt(k)>>)
CV13(k) == tls13_make_cert_verify(CertOf(k), Certified13(k))
Signed13(k) == transcript_updates(Certified13(k), CV13(k))
SF13(k) == Finished(Signed13(k), "server")
Sent13(k) == transcript_update(Signed13(k), SF13(k))

Accepts13(k) ==
  /\ CertOf(k) # None /\ Suite13(k) # None /\ Group13(k) # None /\ Alg13(k) # None
  /\ ~(ServerStart(k).quic /\ ~Hello(k).tp)

Answer13(k) == tls13_make_server_flight(ServerStart(k), Hello(k), k.server.manager)

Protected13(k) == <<EE13(k), Crt(k)>> \o CV13(k) \o <<SF13(k)>>
Records13(k) ==
  IF ServerStart(k).quic THEN <<Record("handshake", <<SH13(k)>> \o Protected13(k))>>
  ELSE <<Record("handshake", <<SH13(k)>>),
         Protected(Sent13(k), "application_data", Protected13(k))>>

LEMMA Answer13Steps ==
  ASSUME NEW k
  PROVE  /\ Answer13(k).ok <=> Accepts13(k)
         /\ Accepts13(k) =>
              /\ Answer13(k).s = IF ServerStart(k).quic THEN Sent13(k)
                                 ELSE Advance(Sent13(k), "server")
              /\ Answer13(k).recs = Records13(k)
<1> DEFINE s0 == ServerStart(k)
           ch == Hello(k)
           manager == k.server.manager
<1>1. Answer13(k) = IF ~Accepts13(k)
                    THEN [ok |-> FALSE, s |-> s0, recs |-> <<>>]
                    ELSE [ok |-> TRUE,
                          s |-> IF s0.quic THEN Sent13(k) ELSE Advance(Sent13(k), "server"),
                          recs |-> Records13(k)]
  <2> HIDE DEF s0, ch, manager
  <2> QED
    BY Zenon DEF Answer13, tls13_make_server_flight, Accepts13, Sent13, SF13, Signed13, CV13,
       Certified13, Crt, EE13, Keyed13, Greeted13, SH13, Selected13, Share13, Alg13, Group13,
       Suite13, CertOf, Records13, Protected13, s0, ch, manager
<1> QED
  BY <1>1

LEMMA ServerStartFields ==
  ASSUME NEW k
  PROVE  /\ IsSession(ServerStart(k))
         /\ ServerStart(k).role = "server" /\ ServerStart(k).ems = FALSE
         /\ ServerStart(k).alpn = "" /\ ServerStart(k).alpn_protos = k.server.alpn
         /\ ServerStart(k).sig_algs = k.server.sig_algs
         /\ ServerStart(k).client_seq = 0 /\ ServerStart(k).server_seq = 0
         /\ ServerStart(k).quic = IF k.client.quic THEN k.server.quic ELSE FALSE
BY DEF ServerStart, NewSession, reset_session_preserving_config, IsSession, SessionFields

LEMMA Selected13Fields ==
  ASSUME NEW k
  PROVE  /\ IsSession(Selected13(k))
         /\ Selected13(k).suite = Suite13(k) /\ Selected13(k).ems = FALSE
         /\ Selected13(k).role = "server" /\ Selected13(k).transcript = <<>>
         /\ Selected13(k).sig_alg = Alg13(k)
         /\ Selected13(k).alpn = IF k.server.alpn = <<>> THEN ""
                                 ELSE tls_select_alpn(Hello(k).alpn, k.server.alpn)
BY ServerStartFields DEF Selected13, IsSession, SessionFields

\* The session and its transcript after the key exchange, and when the flight is made.
LEMMA Sent13Facts ==
  ASSUME NEW k
  PROVE  LET h == Suite13(k).hash
             t == Signed13(k).transcript
         IN /\ IsSession(Sent13(k)) /\ IsSession(Signed13(k))
            /\ Same(Selected13(k), Sent13(k),
                    {"transcript", "base", "key", "client_seq", "server_seq"})
            /\ Sent13(k).server_seq = 0
            /\ Sent13(k).base = Signed13(k).base /\ Certified13(k).sig_alg = Alg13(k)
            /\ Sent13(k).transcript = Append(t, <<h, SF13(k)>>)
            /\ EE13(k).type = "encrypted_extensions" /\ EE13(k).alpn = Selected13(k).alpn
            /\ IsSeq(t) /\ Len(t) >= 4
            /\ t[3] = <<h, EE13(k)>> /\ t[4] = <<h, Crt(k)>>
            /\ CV13(k) # <<>> => Len(t) = 5 /\ t[5] = <<h, CV13(k)[1]>>
<1> DEFINE h == Suite13(k).hash
           s1 == Selected13(k)
           g == Greeted13(k)
           kd == Keyed13(k)
           cd == Certified13(k)
           sd == Signed13(k)
           X == {"transcript", "base", "key", "client_seq", "server_seq"}
<1>1. /\ IsSession(g) /\ Same(s1, g, {"transcript"})
      /\ g.transcript = Append(Append(<<>>, <<h, Hello(k)>>), <<h, SH13(k)>>)
  <2>1. IsSession(s1) /\ s1.transcript = <<>> /\ s1.suite = Suite13(k)
    BY Selected13Fields
  <2>2. IsSeq(s1.transcript)
    BY <2>1 DEF IsSeq
  <2> QED
    BY <2>1, <2>2, TwoUpdates DEF Greeted13
<1>2. /\ IsSession(kd) /\ Same(s1, kd, X) /\ kd.transcript = g.transcript
      /\ kd.server_seq = 0
  <2>1. kd = NewKey([g EXCEPT !.base = <<"handshake", Ecdh(KeyPair("server", Group13(k)), Share13(k)),
                                           g.transcript>>],
                    <<"handshake", Ecdh(KeyPair("server", Group13(k)), Share13(k)), g.transcript>>)
    BY DEF Keyed13, tls13_derive_handshake_keys
  <2> DEFINE b == <<"handshake", Ecdh(KeyPair("server", Group13(k)), Share13(k)), g.transcript>>
             gb == [g EXCEPT !.base = b]
  <2> HIDE DEF b, g
  <2>2. IsSession(gb) /\ Same(g, gb, {"base"})
    BY <1>1 DEF IsSession, SessionFields, Same
  <2> HIDE DEF gb
  <2>3. kd = NewKey(gb, b)
    BY <2>1 DEF gb, b, g
  <2>4. /\ IsSession(kd) /\ Same(gb, kd, {"key", "client_seq", "server_seq"})
        /\ kd.server_seq = 0
    BY <2>2, <2>3, NewKeyFields
  <2> QED
    BY <1>1, <2>2, <2>4 DEF Same, SessionFields
<1>3. /\ IsSession(cd) /\ Same(s1, cd, X) /\ cd.server_seq = 0
      /\ cd.transcript = Append(Append(kd.transcript, <<h, EE13(k)>>), <<h, Crt(k)>>)
  <2>1. kd.suite = Suite13(k)
    BY <1>2, Selected13Fields DEF Same, SessionFields
  <2>2. IsSeq(kd.transcript)
    <3>1. IsSeq(<<>>)
      BY DEF IsSeq
    <3>2. \A q, e : IsSeq(q) => IsSeq(Append(q, e))
      BY AppendAny, Zenon DEF Grown
    <3> QED
      BY <1>1, <1>2, <3>1, <3>2, Zenon
  <2>3. /\ IsSession(cd) /\ Same(kd, cd, {"transcript"})
        /\ cd.transcript = Append(Append(kd.transcript, <<h, EE13(k)>>), <<h, Crt(k)>>)
    BY <1>2, <2>1, <2>2, TwoUpdates DEF Certified13
  <2> QED
    BY <1>2, <2>3 DEF Same, SessionFields
<1>4. /\ IsSeq(cd.transcript) /\ Len(cd.transcript) = 4
      /\ cd.transcript[3] = <<h, EE13(k)>> /\ cd.transcript[4] = <<h, Crt(k)>>
  <2> HIDE DEF h
  <2> QED
    BY <1>1, <1>2, <1>3, FourAppends
<1>5. /\ IsSession(sd) /\ Same(s1, sd, X) /\ sd.server_seq = 0
      /\ \/ CV13(k) = <<>> /\ sd.transcript = cd.transcript
         \/ CV13(k) # <<>> /\ sd.transcript = Append(cd.transcript, <<h, CV13(k)[1]>>)
  <2>1. CASE CV13(k) = <<>>
    <3>1. sd = cd
      BY <2>1, FewUpdates, Zenon DEF Signed13
    <3> HIDE DEF sd, cd, s1, X
    <3> QED
      BY <1>3, <2>1, <3>1
  <2>2. CASE CV13(k) # <<>>
    <3>1. CV13(k) = <<CV13(k)[1]>>
      BY <2>2 DEF CV13, tls13_make_cert_verify
    <3>2. sd = transcript_update(cd, CV13(k)[1])
      BY <3>1, FewUpdates, Zenon DEF Signed13
    <3>3. cd.suite = Suite13(k)
      BY <1>3, Selected13Fields DEF Same, SessionFields
    <3>4. /\ IsSession(sd) /\ Same(cd, sd, {"transcript"})
          /\ sd.transcript = Append(cd.transcript, <<h, CV13(k)[1]>>)
      BY <1>3, <3>2, <3>3, UpdateFields
    <3> HIDE DEF sd, cd, s1
    <3>5. Same(s1, sd, X) /\ sd.server_seq = 0
      BY <1>3, <3>4 DEF Same, SessionFields
    <3> QED
      BY <2>2, <3>4, <3>5
  <2> QED
    BY <2>1, <2>2
<1>6. sd.suite = Suite13(k)
  BY <1>5, Selected13Fields DEF Same, SessionFields
<1>7. /\ IsSession(Sent13(k)) /\ Same(sd, Sent13(k), {"transcript"})
      /\ Sent13(k).transcript = Append(sd.transcript, <<h, SF13(k)>>)
  BY <1>5, <1>6, UpdateFields DEF Sent13
<1>8. /\ Same(s1, Sent13(k), X) /\ Sent13(k).base = sd.base
      /\ Sent13(k).server_seq = 0
  <2> HIDE DEF sd, s1
  <2> QED
    BY <1>5, <1>7 DEF Same, SessionFields
<1>9. EE13(k).type = "encrypted_extensions" /\ EE13(k).alpn = s1.alpn
  BY <1>2 DEF EE13, tls13_make_encrypted_extensions, Same, SessionFields
<1>10. LET t == sd.transcript
       IN /\ IsSeq(t) /\ Len(t) >= 4
          /\ t[3] = <<h, EE13(k)>> /\ t[4] = <<h, Crt(k)>>
          /\ CV13(k) # <<>> => Len(t) = 5 /\ t[5] = <<h, CV13(k)[1]>>
  <2> DEFINE q == cd.transcript
             t == sd.transcript
             e == <<h, CV13(k)[1]>>
  <2>1. IsSeq(q) /\ Len(q) = 4 /\ q[3] = <<h, EE13(k)>> /\ q[4] = <<h, Crt(k)>>
    BY <1>4
  <2>2. \/ CV13(k) = <<>> /\ t = q
        \/ CV13(k) # <<>> /\ t = Append(q, e)
    BY <1>5
  <2> HIDE DEF q, t, e, h
  <2>3. /\ IsSeq(Append(q, e)) /\ Len(Append(q, e)) = 5
        /\ Append(q, e)[3] = q[3] /\ Append(q, e)[4] = q[4] /\ Append(q, e)[5] = e
    <3> DEFINE u == Append(q, e)
    <3>1. Grown(q, u, e)
      BY <2>1, AppendAny, Zenon
    <3> HIDE DEF u
    <3>2. IsSeq(u) /\ Len(u) = 5 /\ u[3] = q[3] /\ u[4] = q[4] /\ u[5] = e
      BY <2>1, <3>1 DEF Grown
    <3> QED
      BY <3>2 DEF u
  <2> DEFINE u == Append(q, e)
  <2>4. /\ IsSeq(u) /\ Len(u) = 5 /\ u[3] = q[3] /\ u[4] = q[4] /\ u[5] = e
        /\ \/ CV13(k) = <<>> /\ t = q
           \/ CV13(k) # <<>> /\ t = u
    BY <2>2, <2>3
  <2> HIDE DEF u, sd
  <2> QED
    BY <2>1, <2>4 DEF t, e
<1>11. cd.sig_alg = Alg13(k)
  BY <1>3, Selected13Fields DEF Same, SessionFields
<1> QED
  BY <1>5, <1>7, <1>8, <1>9, <1>10, <1>11

-----------------------------------------------------------------------------
(***************************************************************************)
(* What the server selects.                                                *)
(***************************************************************************)
LEMMA HelloFields ==
  ASSUME NEW k
  PROVE  LET h == Hello(k)
             s == ClientStart(k)
         IN /\ h.type = "client_hello" /\ h.sni = k.client.sni
            /\ h.sig_algs = OrDefault(k.client.sig_algs)
            /\ k.client.ver = "1.2" =>
                 /\ h.versions = {"1.2"} /\ h.suites = tls12_client_suite_list(s)
                 /\ h.ems = TRUE
            /\ k.client.ver # "1.2" =>
                 /\ h.versions = {"1.3"} /\ h.suites = OfferedSuites(s)
                 /\ h.groups = OfferedGroups(s) /\ h.alpn = k.client.alpn
BY DEF Hello, HelloStep, ClientStart, NewSession, tls12_make_client_hello,
       tls13_make_client_hello

LEMMA WaitingFields ==
  ASSUME NEW k
  PROVE  LET s == Waiting(k)
         IN /\ IsSession(s) /\ s.role = "client" /\ s.ch_cache = <<Hello(k)>>
            /\ s.alpn = "" /\ s.ems = FALSE /\ s.finished = FALSE /\ s.verified = FALSE
            /\ s.skip = k.client.skip /\ s.quic = k.client.quic /\ s.sni = k.client.sni
            /\ s.sig_algs = k.client.sig_algs /\ s.sig_algs_cert = k.client.sig_algs_cert
            /\ s.psk = k.client.psk /\ s.client_seq = 0 /\ s.server_seq = 0
<1> DEFINE s0 == ClientStart(k)
<1>1. /\ IsSession(s0) /\ s0.role = "client" /\ s0.alpn = "" /\ s0.ems = FALSE
      /\ s0.finished = FALSE /\ s0.verified = FALSE /\ s0.skip = k.client.skip
      /\ s0.quic = k.client.quic /\ s0.sni = k.client.sni /\ s0.sig_algs = k.client.sig_algs
      /\ s0.sig_algs_cert = k.client.sig_algs_cert /\ s0.psk = k.client.psk
      /\ s0.client_seq = 0 /\ s0.server_seq = 0
  BY DEF ClientStart, NewSession, IsSession, SessionFields
<1>2. \E x, y, z : Waiting(k) = [s0 EXCEPT !.transcript = <<>>, !.ch_cache = <<Hello(k)>>,
                                          !.ks_group = x, !.ks_priv = y, !.ks_priv_x25519 = z]
  <2>1. CASE k.client.ver = "1.2"
    <3> DEFINE x == s0.ks_group
               y == s0.ks_priv
               z == s0.ks_priv_x25519
    <3>1. Waiting(k) = [s0 EXCEPT !.transcript = <<>>, !.ch_cache = <<Hello(k)>>]
      <4>1. HelloStep(k) = tls12_make_client_hello(s0)
        BY <2>1 DEF HelloStep
      <4> HIDE DEF s0
      <4> QED
        BY <4>1 DEF Waiting, Hello, tls12_make_client_hello
    <3> HIDE DEF s0
    <3>2. Waiting(k) = [s0 EXCEPT !.transcript = <<>>, !.ch_cache = <<Hello(k)>>,
                                  !.ks_group = x, !.ks_priv = y, !.ks_priv_x25519 = z]
      BY <1>1, <3>1 DEF IsSession, SessionFields
    <3> QED
      BY <3>2
  <2>2. CASE k.client.ver # "1.2"
    <3>1. HelloStep(k) = tls13_make_client_hello(s0)
      BY <2>2 DEF HelloStep
    <3> HIDE DEF s0
    <3> DEFINE shares == IF OfferSm(s0) THEN <<"SM2", "X25519">>
                         ELSE IF s0.ks_group \in NonSmGroups THEN <<s0.ks_group>> ELSE <<"X25519">>
    <3>2. Waiting(k) = [s0 EXCEPT !.transcript = <<>>, !.ch_cache = <<Hello(k)>>,
                                  !.ks_group = Head(shares),
                                  !.ks_priv = KeyPair("client", Head(shares)),
                                  !.ks_priv_x25519 = IF OfferSm(s0) THEN KeyPair("client", "X25519")
                                                     ELSE @]
      BY <3>1 DEF Waiting, Hello, tls13_make_client_hello
    <3> HIDE DEF shares
    <3>3. \E z : Waiting(k) = [s0 EXCEPT !.transcript = <<>>, !.ch_cache = <<Hello(k)>>,
                                  !.ks_group = Head(shares),
                                  !.ks_priv = KeyPair("client", Head(shares)),
                                  !.ks_priv_x25519 = z]
      BY <3>2
    <3> QED
      BY <3>3
  <2> QED
    BY <2>1, <2>2
<1> HIDE DEF s0
<1> QED
  BY <1>1, <1>2 DEF IsSession, SessionFields

LEMMA ServerDefaults ==
  ASSUME NEW algs, IsSeq(algs)
  PROVE  /\ IsSeq(OrDefault(algs)) /\ OrDefault(algs) # <<>>
         /\ \A S : FirstIn(OrDefault(algs), S) # None =>
              FirstIn(OrDefault(algs), S) \in S \cap ToSet(OrDefault(algs))
<1> DEFINE d == OrDefault(algs)
<1>1. IsSeq(tls_default_signature_algorithms) /\ tls_default_signature_algorithms # <<>>
  <2>1. ASSUME NEW e1, NEW e2, NEW e3, NEW e4, NEW e5, NEW e6,
               NEW e7, NEW e8, NEW e9, NEW e10, NEW e11, NEW e12
        PROVE  LET q == <<e1, e2, e3, e4, e5, e6, e7, e8, e9, e10, e11, e12>>
               IN q # <<>> /\ IsSeq(q)
    <3> DEFINE q == <<e1, e2, e3, e4, e5, e6, e7, e8, e9, e10, e11, e12>>
               S == {e1, e2, e3, e4, e5, e6, e7, e8, e9, e10, e11, e12}
    <3>1. q # <<>> /\ q \in Seq(S)
      OBVIOUS
    <3> HIDE DEF q, S
    <3>2. IsSeq(q)
      BY <3>1 DEF IsSeq
    <3> QED
      BY <3>1, <3>2 DEF q
  <2> QED
    BY <2>1, Zenon DEF tls_default_signature_algorithms
<1>2. IsSeq(d) /\ d # <<>>
  BY <1>1 DEF OrDefault
<1> HIDE DEF d
<1>3. Len(d) \in Nat /\ DOMAIN d = 1 .. Len(d)
  BY <1>2, SeqDomain
<1>4. ASSUME NEW S, FirstIn(d, S) # None PROVE FirstIn(d, S) \in S \cap ToSet(d)
  BY <1>3, <1>4, FirstInFacts DEF ToSet
<1> QED
  BY <1>2, <1>4 DEF d

\* The signature scheme is one both sides allow, and it fits the key.
LEMMA SchemeFacts ==
  ASSUME NEW peer, NEW kt, NEW local, NEW tls13, IsSeq(peer),
         select_signature_scheme(OrDefault(peer), kt, local, tls13) # None
  PROVE  LET a == select_signature_scheme(OrDefault(peer), kt, local, tls13)
         IN /\ a \in ToSet(OrDefault(peer)) \cap ToSet(OrDefault(local))
            /\ a.fam = tls_key_type_to_sig_alg(kt).fam
            /\ tls13 => tls_scheme_allowed_for_cert_verify(a)
<1> DEFINE S == {s \in ToSet(OrDefault(local)) :
                   /\ s.fam = tls_key_type_to_sig_alg(kt).fam
                   /\ tls13 => tls_scheme_allowed_for_cert_verify(s)}
<1>1. select_signature_scheme(OrDefault(peer), kt, local, tls13) = FirstIn(OrDefault(peer), S)
  BY DEF select_signature_scheme
<1> HIDE DEF S
<1>2. FirstIn(OrDefault(peer), S) \in S \cap ToSet(OrDefault(peer))
  BY <1>1, ServerDefaults
<1> QED
  BY <1>1, <1>2 DEF S

LEMMA Negotiated13 ==
  ASSUME NEW k \in Configurations, k.client.ver # "1.2", Accepts13(k)
  PROVE  /\ Suite13(k) \in ToSet(OfferedSuites(ClientStart(k)))
         /\ Group13(k) \in ToSet(OfferedGroups(ClientStart(k)))
         /\ tls_use_sm3(Suite13(k)) <=> Group13(k) = "SM2"
         /\ tls_use_sm3(Suite13(k)) => CertOf(k).key_type = "SM2" /\ ~k.client.quic
         /\ Alg13(k) \in ToSet(OrDefault(k.client.sig_algs)) \cap ToSet(OrDefault(k.server.sig_algs))
         /\ Alg13(k).fam = tls_key_type_to_sig_alg(CertOf(k).key_type).fam
         /\ tls_scheme_allowed_for_cert_verify(Alg13(k))
         /\ Selected13(k).alpn # "" => Selected13(k).alpn \in ToSet(k.client.alpn) \cap ToSet(k.server.alpn)
<1>0. /\ Suite13(k) # None /\ Group13(k) # None /\ Alg13(k) # None
      /\ Lists(k.client) /\ Lists(k.server)
  BY ConfigurationsAssumption DEF Accepts13
<1>1. /\ Suite13(k) \in ToSet(OfferedSuites(ClientStart(k)))
      /\ tls_use_sm3(Suite13(k)) => CertOf(k).key_type = "SM2" /\ ~k.client.quic
  <2> DEFINE s == ServerStart(k)
             ch == Hello(k)
             cert == CertOf(k)
             usable(cs) == /\ cs \in ToSet(ch.suites)
                           /\ tls_use_sm3(cs) => cert.key_type = "SM2" /\ ~s.quic
             order == (IF s.pinned THEN <<s.suite>> ELSE <<>>)
                      \o <<SM4_GCM, SM4_CCM, CHACHA20, AES_128_GCM, AES_256_GCM,
                           AES_128_CCM, AES_128_CCM_8>>
             S == {cs \in Tls13Suites : usable(cs)}
  <2>1. Suite13(k) = FirstIn(order, S)
    BY DEF Suite13, select_suite13
  <2>2. Len(order) \in Nat /\ DOMAIN order = 1 .. Len(order)
    OBVIOUS
  <2> HIDE DEF order, S
  <2>3. Suite13(k) \in S
    BY <1>0, <2>1, <2>2, FirstInFacts
  <2> QED
    BY <2>3, HelloFields, ServerStartFields, ConfigurationsAssumption DEF S
<1>2. /\ Group13(k) \in ToSet(OfferedGroups(ClientStart(k)))
      /\ tls_use_sm3(Suite13(k)) <=> Group13(k) = "SM2"
  <2> DEFINE ch == Hello(k)
             shared == {ch.shares[i].group : i \in DOMAIN ch.shares}
             usable == {g \in shared : g # "X25519" => g \in ToSet(ch.groups)}
  <2>1. ch.groups = OfferedGroups(ClientStart(k))
    BY HelloFields
  <2>2. "X25519" \in ToSet(OfferedGroups(ClientStart(k)))
    <3>1. \A x : "X25519" \in ToSet(<<x, "X25519">>) /\ "X25519" \in ToSet(<<"X25519">>)
      BY DEF ToSet
    <3> QED
      BY <3>1, Zenon DEF OfferedGroups
  <2>3. Group13(k) = IF tls_use_sm3(Suite13(k)) THEN FirstIn(<<"SM2">>, usable)
                     ELSE FirstIn(<<"P256", "P384", "X448", "X25519">>, usable)
    BY Zenon DEF Group13, select_group13
  <2> DEFINE a == <<"SM2">>
             b == <<"P256", "P384", "X448", "X25519">>
  <2>4. DOMAIN a = 1 .. 1 /\ DOMAIN b = 1 .. 4 /\ a[1] = "SM2" /\ \A i \in 1 .. 4 : b[i] # "SM2"
    OBVIOUS
  <2> HIDE DEF usable, a, b
  <2>5. /\ Group13(k) \in usable
        /\ Group13(k) = "SM2" <=> tls_use_sm3(Suite13(k))
    <3>1. FirstIn(a, usable) # None =>
            FirstIn(a, usable) \in usable /\ \E i \in 1 .. 1 : FirstIn(a, usable) = a[i]
      BY <2>4, FirstInFacts, 1 \in Nat
    <3>2. FirstIn(b, usable) # None =>
            FirstIn(b, usable) \in usable /\ \E i \in 1 .. 4 : FirstIn(b, usable) = b[i]
      BY <2>4, FirstInFacts, 4 \in Nat
    <3> QED
      BY <1>0, <2>3, <2>4, <3>1, <3>2 DEF a, b
  <2> QED
    BY <2>1, <2>2, <2>5 DEF usable
<1>3. /\ Alg13(k) \in ToSet(OrDefault(k.client.sig_algs)) \cap ToSet(OrDefault(k.server.sig_algs))
      /\ Alg13(k).fam = tls_key_type_to_sig_alg(CertOf(k).key_type).fam
      /\ tls_scheme_allowed_for_cert_verify(Alg13(k))
  <2>1. Alg13(k) = select_signature_scheme(OrDefault(k.client.sig_algs), CertOf(k).key_type,
                                           k.server.sig_algs, TRUE)
    BY <1>0, HelloFields, ServerStartFields, Zenon DEF Alg13, select_sig_alg13
  <2>2. IsSeq(k.client.sig_algs)
    BY <1>0 DEF Lists, IsSeq
  <2> QED
    <3> DEFINE a == select_signature_scheme(OrDefault(k.client.sig_algs), CertOf(k).key_type,
                                            k.server.sig_algs, TRUE)
    <3>1. a # None
      BY <1>0, <2>1
    <3>2. /\ a \in ToSet(OrDefault(k.client.sig_algs)) \cap ToSet(OrDefault(k.server.sig_algs))
          /\ a.fam = tls_key_type_to_sig_alg(CertOf(k).key_type).fam
          /\ TRUE => tls_scheme_allowed_for_cert_verify(a)
      BY <2>2, <3>1, SchemeFacts
    <3> QED
      BY <2>1, <3>2
<1>4. Selected13(k).alpn # "" => Selected13(k).alpn \in ToSet(k.client.alpn) \cap ToSet(k.server.alpn)
  <2> DEFINE a == k.client.alpn
             p == FirstIn(a, ToSet(k.server.alpn))
  <2> SUFFICES ASSUME Selected13(k).alpn # ""
               PROVE  Selected13(k).alpn \in ToSet(a) \cap ToSet(k.server.alpn)
    OBVIOUS
  <2>1. Selected13(k).alpn = p /\ p # None
    <3>1. Hello(k).alpn = a
      BY HelloFields
    <3>2. Selected13(k).alpn = tls_select_alpn(a, k.server.alpn)
      BY <3>1, Selected13Fields, Zenon
    <3>3. tls_select_alpn(a, k.server.alpn) = IF p = None THEN "" ELSE p
      BY Zenon DEF tls_select_alpn
    <3> HIDE DEF p
    <3> QED
      BY <3>2, <3>3
  <2>2. Len(a) \in Nat /\ DOMAIN a = 1 .. Len(a)
    <3>1. a \in Seq(STRING)
      BY <1>0, Zenon DEF Lists
    <3>2. IsSeq(a)
      BY <3>1 DEF IsSeq
    <3> QED
      BY <3>2, SeqDomain, Zenon
  <2> HIDE DEF a
  <2>3. p \in ToSet(k.server.alpn) /\ \E i \in 1 .. Len(a) : p = a[i]
    BY <2>1, <2>2, FirstInFacts
  <2> QED
    BY <2>1, <2>2, <2>3 DEF ToSet
<1> QED
  BY <1>1, <1>2, <1>3, <1>4

-----------------------------------------------------------------------------
(***************************************************************************)
(* The TLS 1.3 client of configuration k.                                  *)
(***************************************************************************)
Chosen13(k, sh) == [Waiting(k) EXCEPT !.suite = sh.suite, !.transcript = <<>>, !.ch_cache = <<>>]
Hashed13(k, sh) == transcript_updates(Chosen13(k, sh), Waiting(k).ch_cache \o <<sh>>)
Derived13(k, sh) ==
  tls13_derive_handshake_keys(Hashed13(k, sh),
                              Ecdh(ClientPriv(Hashed13(k, sh), sh.share), sh.share))
Begun13(k, sh) == [Derived13(k, sh) EXCEPT !.ks_group = sh.share.group]

FirstMessage(fl) == Head(Head(fl).msgs)
Opened13(k, fl) ==
  FoldLeft(OpenRecord, [s |-> Begun13(k, FirstMessage(fl)), ok |-> TRUE,
                        msgs |-> Tail(Head(fl).msgs)], Tail(fl))
Parsed13(k, fl) ==
  FoldLeft(LAMBDA a, m : OnMessage(a, m, k.client.trust), Parse(Opened13(k, fl).s),
           Opened13(k, fl).msgs)

Result13(k, fl) == tls13_process_server_flight(Waiting(k), fl, k.client.trust)

LEMMA Result13Steps ==
  ASSUME NEW k, NEW fl, Result13(k, fl).ok
  PROVE  LET p == Parsed13(k, fl)
             out == IF Waiting(k).quic THEN Record("handshake", <<Finished(p.s, "client")>>)
                    ELSE Protected(p.s, "application_data", <<Finished(p.s, "client")>>)
         IN /\ FirstMessage(fl).type = "server_hello" /\ Opened13(k, fl).ok /\ p.ok
            /\ Result13(k, fl).rec = out
            /\ Result13(k, fl).s =
                 transcript_update(tls13_derive_application_keys(Advance(p.s, "client")), out)
<1> DEFINE p == Parsed13(k, fl)
           out == IF Waiting(k).quic THEN Record("handshake", <<Finished(p.s, "client")>>)
                  ELSE Protected(p.s, "application_data", <<Finished(p.s, "client")>>)
           sh == FirstMessage(fl)
           refused == \/ sh.type # "server_hello" \/ select_cipher_suite(sh.suite) = None
                      \/ ~Opened13(k, fl).ok \/ ~p.ok
<1>1. Result13(k, fl) =
        IF refused THEN [ok |-> FALSE, s |-> Waiting(k), rec |-> None]
        ELSE [ok |-> TRUE,
              s |-> transcript_update(tls13_derive_application_keys(Advance(p.s, "client")), out),
              rec |-> out]
  BY Zenon DEF Result13, tls13_process_server_flight, Parsed13, Opened13, Begun13, Derived13,
     Hashed13, Chosen13, FirstMessage
<1> HIDE DEF refused, out, p, sh
<1>2. ~refused
  BY <1>1
<1>3. /\ Result13(k, fl).rec = out
      /\ Result13(k, fl).s =
           transcript_update(tls13_derive_application_keys(Advance(p.s, "client")), out)
  BY <1>1, <1>2
<1> QED
  BY <1>2, <1>3 DEF refused, out, p, sh

\* Whether a message of a type has entered the transcript.
Saw(s, type) == \E i \in DOMAIN s.transcript : s.transcript[i][2].type = type

LEMMA Begun13Facts ==
  ASSUME NEW k, NEW sh, sh.type = "server_hello"
  PROVE  LET s == Begun13(k, sh)
         IN /\ IsSession(s) /\ IsSeq(s.transcript) /\ s.suite = sh.suite
            /\ s.ks_group = sh.share.group /\ s.role = "client"
            /\ \A i \in DOMAIN s.transcript :
                 s.transcript[i][2].type \in {"client_hello", "server_hello"}
            /\ s.alpn = "" /\ s.ems = FALSE /\ s.finished = FALSE /\ s.verified = FALSE
            /\ s.skip = k.client.skip /\ s.quic = k.client.quic /\ s.sni = k.client.sni
            /\ s.sig_algs = k.client.sig_algs /\ s.client_seq = 0
<1> DEFINE s1 == Chosen13(k, sh)
           g == Hashed13(k, sh)
           d == Derived13(k, sh)
           s == Begun13(k, sh)
           e1 == <<sh.suite.hash, Hello(k)>>
           e2 == <<sh.suite.hash, sh>>
<1>1. /\ IsSession(s1) /\ Same(Waiting(k), s1, {"suite", "transcript", "ch_cache"})
      /\ s1.suite = sh.suite /\ s1.transcript = <<>>
  BY WaitingFields DEF Chosen13, IsSession, SessionFields, Same
<1>2. /\ IsSession(g) /\ Same(s1, g, {"transcript"})
      /\ g.transcript = Append(Append(<<>>, e1), e2)
  <2>1. Waiting(k).ch_cache \o <<sh>> = <<Hello(k), sh>>
    BY WaitingFields, JoinTwo, Zenon
  <2>2. IsSeq(s1.transcript)
    BY <1>1 DEF IsSeq
  <2>3. g = transcript_updates(s1, <<Hello(k), sh>>)
    BY <2>1 DEF Hashed13
  <2> QED
    BY <1>1, <2>2, <2>3, TwoUpdates
<1>3. /\ IsSeq(g.transcript)
      /\ \A i \in DOMAIN g.transcript : g.transcript[i] \in {e1, e2}
  <2> DEFINE a == Append(<<>>, e1)
             b == Append(a, e2)
  <2> HIDE DEF e1, e2
  <2>1. IsSeq(<<>>) /\ Len(<<>>) = 0
    BY DEF IsSeq
  <2>2. Grown(<<>>, a, e1)
    BY <2>1, AppendAny, Zenon
  <2> HIDE DEF a
  <2>3. Grown(a, b, e2)
    BY <2>2, AppendAny, Zenon DEF Grown
  <2> HIDE DEF b
  <2>4. IsSeq(b) /\ DOMAIN b = 1 .. 2 /\ b[1] = e1 /\ b[2] = e2
    BY <2>1, <2>2, <2>3 DEF Grown
  <2>5. g.transcript = b
    BY <1>2 DEF a, b, e1, e2
  <2> QED
    BY <2>4, <2>5
<1>4. /\ IsSession(d) /\ Same(g, d, {"base", "key", "client_seq", "server_seq"})
      /\ d.client_seq = 0
  <2> DEFINE b == <<"handshake", Ecdh(ClientPriv(g, sh.share), sh.share), g.transcript>>
             gb == [g EXCEPT !.base = b]
  <2>1. d = NewKey(gb, b)
    BY DEF Derived13, tls13_derive_handshake_keys
  <2> HIDE DEF b, g
  <2>2. IsSession(gb) /\ Same(g, gb, {"base"})
    BY <1>2 DEF IsSession, SessionFields, Same
  <2> HIDE DEF gb
  <2>3. /\ IsSession(d) /\ Same(gb, d, {"key", "client_seq", "server_seq"})
        /\ d.client_seq = 0
    BY <2>1, <2>2, NewKeyFields
  <2> QED
    BY <2>2, <2>3 DEF Same, SessionFields
<1>5. /\ IsSession(s) /\ Same(d, s, {"ks_group"}) /\ s.ks_group = sh.share.group
  BY <1>4 DEF Begun13, IsSession, SessionFields, Same
<1>6. s.transcript = g.transcript /\ s.suite = sh.suite
  <2> HIDE DEF s, d, g, s1
  <2> QED
    BY <1>1, <1>2, <1>4, <1>5 DEF Same, SessionFields
<1>7. Same(Waiting(k), s, {"suite", "transcript", "ch_cache", "base", "key", "client_seq",
                           "server_seq", "ks_group"})
  <2> HIDE DEF s, d, g, s1
  <2> QED
    BY <1>1, <1>2, <1>4, <1>5 DEF Same, SessionFields
<1>8. /\ s.role = "client" /\ s.alpn = "" /\ s.ems = FALSE /\ s.finished = FALSE
      /\ s.verified = FALSE /\ s.skip = k.client.skip /\ s.quic = k.client.quic
      /\ s.sni = k.client.sni /\ s.sig_algs = k.client.sig_algs
  <2> HIDE DEF s
  <2> QED
    BY <1>7, WaitingFields DEF Same, SessionFields
<1>9. s.client_seq = 0
  BY <1>4, <1>5 DEF Same, SessionFields
<1>10. \A i \in DOMAIN s.transcript :
         s.transcript[i][2].type \in {"client_hello", "server_hello"}
  <2> HIDE DEF s, g
  <2>1. e1[2].type = "client_hello" /\ e2[2].type = "server_hello"
    BY HelloFields
  <2> HIDE DEF e1, e2
  <2> QED
    BY <1>3, <1>6, <2>1
<1> QED
  BY <1>3, <1>5, <1>6, <1>8, <1>9, <1>10

\* The records that carry messages of U, under the keys K.
FlightRecords(U, K) ==
  [type : {"handshake", "application_data"}, msgs : Seq(U) \ {<<>>}, key : K, seq : Nat]

OpenRun(r, o, recs, n) ==
  /\ r[0] = o
  /\ \A i \in 1 .. n : r[i] = OpenRecord(r[i - 1], recs[i])
  /\ FoldLeft(OpenRecord, o, recs) = r[n]

LEMMA OpensSteps ==
  ASSUME NEW o, NEW recs, NEW n \in Nat, DOMAIN recs = 1 .. n
  PROVE  \E r : OpenRun(r, o, recs, n)
<1>1. FoldLeft(OpenRecord, o, recs) = Opens!Fold(0, o, recs)
  BY DEF OpenStep, Opens!Fold, FoldLeft, MapThenFoldSet, Max,
         Opens!FoldLeft, Opens!MapThenFoldSet, Opens!Max
<1>2. PICK r : Opens!IsRun(r, 0, o, recs, n)
  BY Opens!Steps
<1> QED
  BY <1>1, <1>2 DEF OpenStep, OpenRun, Opens!IsRun

\* The records give messages of U; the session only counts them.
LEMMA Opened13Facts ==
  ASSUME NEW k, NEW U, NEW K, NEW fl \in Seq(FlightRecords(U, K)), fl # <<>>,
         FirstMessage(fl).type = "server_hello"
  PROVE  LET o == Opened13(k, fl)
         IN /\ FirstMessage(fl) \in U
            /\ o.msgs \in Seq(U) /\ IsSession(o.s)
            /\ Same(Begun13(k, FirstMessage(fl)), o.s, {"server_seq"})
<1> DEFINE b == Begun13(k, FirstMessage(fl))
           o0 == [s |-> b, ok |-> TRUE, msgs |-> Tail(Head(fl).msgs)]
           recs == Tail(fl)
           Ok(o) == /\ DOMAIN o = {"s", "ok", "msgs"}
                    /\ o.msgs \in Seq(U) /\ IsSession(o.s) /\ Same(b, o.s, {"server_seq"})
<1>1. /\ Head(fl) \in FlightRecords(U, K) /\ recs \in Seq(FlightRecords(U, K))
  OBVIOUS
<1>2. Head(fl).msgs \in Seq(U) \ {<<>>}
  BY <1>1 DEF FlightRecords
<1>3. FirstMessage(fl) \in U /\ Tail(Head(fl).msgs) \in Seq(U)
  <2> DEFINE q == Head(fl).msgs
  <2>1. q \in Seq(U) /\ q # <<>>
    BY <1>2
  <2> HIDE DEF q
  <2>2. Head(q) \in U /\ Tail(q) \in Seq(U)
    BY <2>1
  <2> QED
    BY <2>2 DEF FirstMessage, q
<1>4. IsSession(b)
  BY Begun13Facts
<1> HIDE DEF b, recs
<1>5. Ok(o0)
  BY <1>3, <1>4 DEF Same
<1> HIDE DEF o0
<1>6. Len(recs) \in Nat /\ DOMAIN recs = 1 .. Len(recs)
  BY <1>1
<1>7. PICK r : OpenRun(r, o0, recs, Len(recs))
  BY <1>6, OpensSteps
<1>8. ASSUME NEW o, Ok(o), NEW i \in 1 .. Len(recs) PROVE Ok(OpenRecord(o, recs[i]))
  <2>1. recs[i] \in FlightRecords(U, K)
    BY <1>1
  <2>2. recs[i].msgs \in Seq(U)
    BY <2>1 DEF FlightRecords
  <2> DEFINE q == o.msgs \o recs[i].msgs
  <2>3. q \in Seq(U)
    BY <1>8, <2>2
  <2>4. IsSession(Advance(o.s, "server")) /\ Same(o.s, Advance(o.s, "server"), {"server_seq"})
    BY <1>8 DEF Advance, IsSession, SessionFields, Same
  <2>5. \/ OpenRecord(o, recs[i]) = o
        \/ OpenRecord(o, recs[i]) = [o EXCEPT !.msgs = q]
        \/ OpenRecord(o, recs[i]) = [o EXCEPT !.msgs = q, !.s = Advance(o.s, "server")]
        \/ OpenRecord(o, recs[i]) = [o EXCEPT !.ok = FALSE]
    BY Zenon DEF OpenRecord
  <2> HIDE DEF q
  <2>6. Same(b, Advance(o.s, "server"), {"server_seq"})
    BY <1>8, <2>4 DEF Same
  <2> QED
    BY <1>8, <2>3, <2>4, <2>5, <2>6
<1> DEFINE S == {i \in Nat : i \in 0 .. Len(recs) => Ok(r[i])}
<1>9. 0 \in S
  BY <1>5, <1>7 DEF OpenRun
<1>10. ASSUME NEW i \in Nat, i \in S PROVE i + 1 \in S
  <2> SUFFICES ASSUME i + 1 \in 0 .. Len(recs) PROVE Ok(r[i + 1])
    OBVIOUS
  <2>1. Ok(r[i])
    BY <1>6, <1>10
  <2>2. i + 1 \in 1 .. Len(recs) /\ (i + 1) - 1 = i
    BY <1>6
  <2> HIDE DEF Ok, S
  <2>3. r[i + 1] = OpenRecord(r[i], recs[i + 1])
    BY <1>7, <2>2 DEF OpenRun
  <2> QED
    BY <1>8, <2>1, <2>2, <2>3
<1> HIDE DEF S, Ok
<1>11. Len(recs) \in S
  BY <1>6, <1>9, <1>10, Opens!NatSetInduction
<1>12. Ok(r[Len(recs)])
  BY <1>6, <1>11 DEF S
<1> QED
  BY <1>3, <1>7, <1>12 DEF OpenRun, Ok, Opened13, o0, recs, b

\* What the TLS 1.3 server of configuration k says.
Msgs13(k) == {SH13(k), EE13(k), Crt(k), SF13(k)} \cup ToSet(CV13(k))

LEMMA Types13 ==
  ASSUME NEW k, NEW m \in Msgs13(k)
  PROVE  /\ m.type = "server_hello" => m = SH13(k)
         /\ m.type = "encrypted_extensions" => m = EE13(k)
         /\ m.type = "certificate" => m = Crt(k)
         /\ m.type = "finished" => m = SF13(k)
         /\ m.type = "cert_verify" =>
              /\ CV13(k) # <<>> /\ m = CV13(k)[1] /\ m.alg = Alg13(k)
              /\ m.sig.by = CertOf(k).key
<1>1. SH13(k).type = "server_hello" /\ EE13(k).type = "encrypted_extensions"
  BY DEF SH13, EE13, tls13_make_encrypted_extensions
<1>2. Crt(k).type = "certificate" /\ SF13(k).type = "finished"
  BY DEF Crt, tls13_make_certificate, SF13, Finished
<1>3. ASSUME m \in ToSet(CV13(k))
      PROVE  /\ CV13(k) # <<>> /\ m = CV13(k)[1] /\ m.type = "cert_verify"
             /\ m.alg = Alg13(k) /\ m.sig.by = CertOf(k).key
  <2> DEFINE s == Certified13(k)
             x == [type |-> "cert_verify", alg |-> s.sig_alg,
                   sig |-> Signature(CertOf(k), s.sig_alg, tls13_cert_verify_content(s))]
  <2>1. CV13(k) = <<x>> \/ CV13(k) = <<>>
    BY DEF CV13, tls13_make_cert_verify
  <2>2. x.type = "cert_verify" /\ x.alg = s.sig_alg /\ x.sig.by = CertOf(k).key
    BY DEF Signature
  <2>3. s.sig_alg = Alg13(k)
    BY Sent13Facts
  <2> HIDE DEF x, s
  <2>4. ToSet(<<>>) = {} /\ ToSet(<<x>>) = {x} /\ <<x>>[1] = x /\ <<x>> # <<>>
    BY DEF ToSet
  <2> QED
    BY <1>3, <2>1, <2>2, <2>3, <2>4
<1> QED
  BY <1>1, <1>2, <1>3 DEF Msgs13

\* A CertificateVerify came after a certificate.
SawSigned(s) ==
  \E i, j \in DOMAIN s.transcript :
    i < j /\ s.transcript[i][2].type = "certificate" /\ s.transcript[j][2].type = "cert_verify"

StartsWith(q, t) == Len(t) <= Len(q) /\ \A i \in 1 .. Len(t) : q[i] = t[i]

\* m is the last message of t's transcript, which is otherwise that of s.
Entered(s, t, m) ==
  /\ IsSeq(t.transcript)
  /\ \A type : Saw(t, type) <=> Saw(s, type) \/ m.type = type
  /\ SawSigned(t) <=> SawSigned(s) \/ (Saw(s, "certificate") /\ m.type = "cert_verify")
  /\ \A q : IsSeq(q) /\ StartsWith(s.transcript, q) => StartsWith(t.transcript, q)
  /\ StartsWith(t.transcript, s.transcript)

LEMMA SawNext ==
  ASSUME NEW s, NEW t, NEW h, NEW m, IsSeq(s.transcript),
         t.transcript = Append(s.transcript, <<h, m>>)
  PROVE  Entered(s, t, m)
<1> DEFINE a == s.transcript
           b == t.transcript
           e == <<h, m>>
<1>1. Len(a) \in Nat /\ DOMAIN a = 1 .. Len(a)
  BY SeqDomain
<1>2. Grown(a, b, e)
  BY AppendAny, Zenon
<1>3. e[2] = m
  OBVIOUS
<1> HIDE DEF a, b, e
<1>4. /\ DOMAIN b = 1 .. Len(a) + 1 /\ Len(b) = Len(a) + 1 /\ b[Len(a) + 1] = e
      /\ \A i \in 1 .. Len(a) : b[i] = a[i]
  BY <1>2 DEF Grown
<1>5. ASSUME NEW type PROVE Saw(t, type) <=> Saw(s, type) \/ m.type = type
  <2>1. Saw(t, type) <=> \E i \in 1 .. Len(a) + 1 : b[i][2].type = type
    BY <1>4 DEF Saw, b
  <2>2. Saw(s, type) <=> \E i \in 1 .. Len(a) : a[i][2].type = type
    BY <1>1 DEF Saw, a
  <2> QED
    BY <1>1, <1>3, <1>4, <2>1, <2>2
<1>6. SawSigned(t) <=> SawSigned(s) \/ (Saw(s, "certificate") /\ m.type = "cert_verify")
  <2>1. SawSigned(t) <=> \E i, j \in 1 .. Len(a) + 1 :
          i < j /\ b[i][2].type = "certificate" /\ b[j][2].type = "cert_verify"
    BY <1>4 DEF SawSigned, b
  <2>2. SawSigned(s) <=> \E i, j \in 1 .. Len(a) :
          i < j /\ a[i][2].type = "certificate" /\ a[j][2].type = "cert_verify"
    BY <1>1 DEF SawSigned, a
  <2>3. Saw(s, "certificate") <=> \E i \in 1 .. Len(a) : a[i][2].type = "certificate"
    BY <1>1 DEF Saw, a
  <2>4. ASSUME SawSigned(t)
        PROVE  SawSigned(s) \/ (Saw(s, "certificate") /\ m.type = "cert_verify")
    <3>1. PICK i \in 1 .. Len(a) + 1, j \in 1 .. Len(a) + 1 :
            i < j /\ b[i][2].type = "certificate" /\ b[j][2].type = "cert_verify"
      BY <2>1, <2>4
    <3>2. i \in 1 .. Len(a) /\ a[i][2].type = "certificate"
      BY <1>1, <1>4, <3>1
    <3>3. CASE j \in 1 .. Len(a)
      <4>1. a[j][2].type = "cert_verify"
        BY <1>4, <3>1, <3>3
      <4>2. i < j
        BY <3>1
      <4>3. \E x, y \in 1 .. Len(a) :
              x < y /\ a[x][2].type = "certificate" /\ a[y][2].type = "cert_verify"
        BY <3>2, <3>3, <4>1, <4>2
      <4> QED
        BY <2>2, <4>3, Zenon
    <3>4. CASE j = Len(a) + 1
      BY <1>3, <1>4, <2>3, <3>1, <3>2, <3>4
    <3> QED
      BY <1>1, <3>3, <3>4
  <2>5. ASSUME SawSigned(s) PROVE SawSigned(t)
    <3>1. PICK i \in 1 .. Len(a), j \in 1 .. Len(a) :
            i < j /\ a[i][2].type = "certificate" /\ a[j][2].type = "cert_verify"
      BY <2>2, <2>5
    <3>2. i \in 1 .. Len(a) + 1 /\ j \in 1 .. Len(a) + 1 /\ b[i] = a[i] /\ b[j] = a[j]
      BY <1>1, <1>4
    <3> QED
      BY <2>1, <3>1, <3>2
  <2>6. ASSUME Saw(s, "certificate"), m.type = "cert_verify" PROVE SawSigned(t)
    <3>1. PICK i \in 1 .. Len(a) : a[i][2].type = "certificate"
      BY <2>3, <2>6
    <3>2. /\ i \in 1 .. Len(a) + 1 /\ Len(a) + 1 \in 1 .. Len(a) + 1 /\ i < Len(a) + 1
          /\ b[i] = a[i]
      BY <1>1, <1>4
    <3> QED
      BY <1>3, <1>4, <2>1, <2>6, <3>1, <3>2
  <2> QED
    BY <2>4, <2>5, <2>6
<1>7. ASSUME NEW q, IsSeq(q), StartsWith(a, q) PROVE StartsWith(b, q)
  BY <1>1, <1>4, <1>7, SeqDomain DEF StartsWith
<1>8. StartsWith(b, a) /\ IsSeq(b)
  BY <1>1, <1>2, <1>4 DEF StartsWith, Grown
<1> QED
  BY <1>5, <1>6, <1>7, <1>8 DEF a, b, Entered

\* The certificate a TLS 1.3 client checks the signature with, once it has accepted
\* the one it was sent.
Stored(k) == ~k.client.skip /\ k.client.trust.kind = "store"
Expected13(k) ==
  CASE Stored(k) -> CertOf(k)
    [] ~k.client.skip /\ k.client.trust.kind = "manager"
         -> get_certificate(k.client.trust.manager, k.client.sni)
    [] OTHER -> None
Vetted(k) ==
  Stored(k) => tls13_verify_server_chain(<<CertOf(k)>>, k.client.trust.roots, k.client.sni)

\* The client's certificate manager has a certificate to compare the server's with.
Compares(k) == k.client.trust.kind = "manager" /\ Expected13(k) # None

\* What has been parsed of the flight; b is the session it began with.
ParseInv(k, b, p) ==
  /\ DOMAIN p = {"s", "cert", "ok"} /\ IsSession(p.s) /\ IsSeq(p.s.transcript)
  /\ Same(b, p.s, {"transcript", "alpn", "verified", "sig_alg", "finished"})
  /\ Saw(p.s, "encrypted_extensions") => p.s.alpn = EE13(k).alpn
  /\ Saw(p.s, "certificate") => Vetted(k) /\ p.cert = Expected13(k)
  /\ ~k.client.skip /\ Expected13(k) # None /\ SawSigned(p.s) => p.s.verified
  /\ p.s.verified =>
       /\ p.s.sig_alg = Alg13(k) /\ ~k.client.skip
       /\ Expected13(k) # None /\ Expected13(k).key = CertOf(k).key
  /\ p.cert \in {None, Expected13(k)}
  /\ p.s.finished => StartsWith(p.s.transcript, Signed13(k).transcript)

LEMMA ParseStep ==
  ASSUME NEW k, NEW b, NEW p, NEW m \in Msgs13(k), ParseInv(k, b, p),
         b.skip = k.client.skip, b.sni = k.client.sni
  PROVE  ParseInv(k, b, OnMessage(p, m, k.client.trust))
<1> DEFINE trust == k.client.trust
           u == transcript_update(p.s, m)
<1>1. IsSession(p.s) /\ IsSeq(p.s.transcript) /\ p.s.skip = k.client.skip /\ p.s.sni = k.client.sni
  BY DEF ParseInv, Same, SessionFields
<1>2. /\ IsSession(u) /\ Same(p.s, u, {"transcript"})
      /\ u.transcript = Append(p.s.transcript, <<p.s.suite.hash, m>>)
  BY <1>1, UpdateFields
<1>3. ASSUME NEW t, t.transcript = u.transcript PROVE Entered(p.s, t, m)
  <2>1. t.transcript = Append(p.s.transcript, <<p.s.suite.hash, m>>)
    BY <1>2, <1>3
  <2> QED
    BY <1>1, <2>1, SawNext
<1>4. ParseInv(k, b, Refused(p))
  BY DEF ParseInv, Refused
<1>5. ASSUME m.type = "encrypted_extensions"
      PROVE  ParseInv(k, b, OnEncryptedExtensions(p, m))
  <2> DEFINE t == [u EXCEPT !.alpn = m.alpn]
             q == [p EXCEPT !.s = t]
  <2>1. OnEncryptedExtensions(p, m) \in {Refused(p), q}
    BY Zenon DEF OnEncryptedExtensions
  <2>2. /\ IsSession(t) /\ t.transcript = u.transcript /\ t.alpn = EE13(k).alpn
        /\ Same(p.s, t, {"transcript", "alpn"})
    BY <1>2, <1>5, Types13 DEF IsSession, SessionFields, Same
  <2>3. q.s = t /\ q.cert = p.cert /\ DOMAIN q = {"s", "cert", "ok"}
    BY DEF ParseInv
  <2> HIDE DEF t, q, u
  <2>4. ParseInv(k, b, q)
    <3>1. Same(b, t, {"transcript", "alpn", "verified", "sig_alg", "finished"})
      BY <2>2 DEF Same, ParseInv
    <3>2. /\ t.verified = p.s.verified /\ t.finished = p.s.finished /\ t.sig_alg = p.s.sig_alg
      BY <2>2 DEF Same, SessionFields
    <3>3. IsSeq(Signed13(k).transcript)
      BY Sent13Facts
    <3> QED
      BY <1>3, <1>5, <2>2, <2>3, <3>1, <3>2, <3>3 DEF ParseInv, Entered
  <2> QED
    BY <1>4, <2>1, <2>4
<1>6. ASSUME m.type = "certificate" PROVE ParseInv(k, b, OnCertificate(p, m, trust))
  <2> DEFINE x == CASE ~u.skip /\ trust.kind = "store" -> Head(m.chain)
                    [] ~u.skip /\ trust.kind = "manager" -> get_certificate(trust.manager, u.sni)
                    [] OTHER -> None
             q == [p EXCEPT !.s = u, !.cert = x]
  <2>1. \/ OnCertificate(p, m, trust) = Refused(p)
        \/ /\ OnCertificate(p, m, trust) = q
           /\ ~u.skip /\ trust.kind = "store" =>
                tls13_verify_server_chain(m.chain, trust.roots, u.sni)
    BY Zenon DEF OnCertificate
  <2>2. u.skip = k.client.skip /\ u.sni = k.client.sni
    BY <1>1, <1>2 DEF Same, SessionFields
  <2>3. m.chain = <<CertOf(k)>> /\ Head(m.chain) = CertOf(k)
    <3>1. m.chain = <<CertOf(k)>>
      BY <1>6, Types13 DEF Crt, tls13_make_certificate
    <3>2. \A y : Head(<<y>>) = y
      OBVIOUS
    <3> QED
      BY <3>1, <3>2, Zenon
  <2>4. x = Expected13(k)
    BY <2>2, <2>3, Zenon DEF Expected13, Stored
  <2>5. (~u.skip /\ trust.kind = "store" => tls13_verify_server_chain(m.chain, trust.roots, u.sni))
          => Vetted(k)
    BY <2>2, <2>3, Zenon DEF Vetted, Stored
  <2>6. q.s = u /\ q.cert = x /\ DOMAIN q = {"s", "cert", "ok"}
    BY DEF ParseInv
  <2> HIDE DEF x, q, u
  <2>7. ASSUME Vetted(k) PROVE ParseInv(k, b, q)
    <3>1. Same(b, u, {"transcript", "alpn", "verified", "sig_alg", "finished"})
      BY <1>2 DEF Same, ParseInv
    <3>2. /\ u.verified = p.s.verified /\ u.finished = p.s.finished /\ u.sig_alg = p.s.sig_alg
          /\ u.alpn = p.s.alpn
      BY <1>2 DEF Same, SessionFields
    <3>3. IsSeq(Signed13(k).transcript)
      BY Sent13Facts
    <3> QED
      BY <1>2, <1>3, <1>6, <2>4, <2>6, <2>7, <3>1, <3>2, <3>3 DEF ParseInv, Entered
  <2> QED
    BY <1>4, <2>1, <2>5, <2>7
<1>7. ASSUME m.type = "cert_verify" PROVE ParseInv(k, b, OnCertVerify(p, m))
  <2> DEFINE t == [u EXCEPT !.verified = TRUE, !.sig_alg = m.alg]
             q == [p EXCEPT !.s = t]
             w == [p EXCEPT !.s = u]
  <2>1. \/ OnCertVerify(p, m) = Refused(p)
        \/ /\ ~p.s.skip /\ p.cert # None
           /\ tls13_verify_cert_verify(p.cert, p.s, m)
           /\ OnCertVerify(p, m) = q
        \/ /\ p.s.skip \/ p.cert = None
           /\ OnCertVerify(p, m) = w
    BY Zenon DEF OnCertVerify
  <2>2. /\ IsSession(t) /\ t.transcript = u.transcript /\ t.verified = TRUE /\ t.sig_alg = m.alg
        /\ Same(p.s, t, {"transcript", "verified", "sig_alg"})
    BY <1>2 DEF IsSession, SessionFields, Same
  <2>3. /\ q.s = t /\ q.cert = p.cert /\ DOMAIN q = {"s", "cert", "ok"}
        /\ w.s = u /\ w.cert = p.cert /\ DOMAIN w = {"s", "cert", "ok"}
    BY DEF ParseInv
  <2>4. m.alg = Alg13(k) /\ m.sig.by = CertOf(k).key
    BY <1>7, Types13
  <2> HIDE DEF t, q, u, w
  <2>5. IsSeq(Signed13(k).transcript)
    BY Sent13Facts
  <2>6. ASSUME ~p.s.skip, p.cert # None, tls13_verify_cert_verify(p.cert, p.s, m)
        PROVE  ParseInv(k, b, q)
    <3>1. Same(b, t, {"transcript", "alpn", "verified", "sig_alg", "finished"})
      BY <2>2 DEF Same, ParseInv
    <3>2. t.finished = p.s.finished /\ t.alpn = p.s.alpn
      BY <2>2 DEF Same, SessionFields
    <3>3. p.cert.key = m.sig.by /\ p.cert = Expected13(k)
      BY <2>6 DEF tls13_verify_cert_verify, verify_scheme, ParseInv
    <3> QED
      BY <1>1, <1>3, <1>7, <2>2, <2>3, <2>4, <2>5, <2>6, <3>1, <3>2, <3>3 DEF ParseInv, Entered
  <2>7. ASSUME p.s.skip \/ p.cert = None PROVE ParseInv(k, b, w)
    <3>1. Same(b, u, {"transcript", "alpn", "verified", "sig_alg", "finished"})
      BY <1>2 DEF Same, ParseInv
    <3>2. /\ u.verified = p.s.verified /\ u.finished = p.s.finished /\ u.sig_alg = p.s.sig_alg
          /\ u.alpn = p.s.alpn
      BY <1>2 DEF Same, SessionFields
    <3> QED
      BY <1>1, <1>2, <1>3, <1>7, <2>3, <2>5, <2>7, <3>1, <3>2 DEF ParseInv, Entered
  <2> QED
    BY <1>4, <2>1, <2>6, <2>7
<1>8. ASSUME m.type = "finished" PROVE ParseInv(k, b, OnFinished(p, m))
  <2> DEFINE t == [u EXCEPT !.finished = TRUE]
             q == [p EXCEPT !.s = t]
  <2>1. \/ OnFinished(p, m) = Refused(p)
        \/ verify_finished(p.s, m, "server") /\ OnFinished(p, m) = q
    BY Zenon DEF OnFinished
  <2>2. /\ IsSession(t) /\ t.transcript = u.transcript
        /\ Same(p.s, t, {"transcript", "finished"})
    BY <1>2 DEF IsSession, SessionFields, Same
  <2>3. q.s = t /\ q.cert = p.cert /\ DOMAIN q = {"s", "cert", "ok"}
    BY DEF ParseInv
  <2> HIDE DEF t, q, u
  <2>4. ASSUME verify_finished(p.s, m, "server") PROVE ParseInv(k, b, q)
    <3>1. Same(b, t, {"transcript", "alpn", "verified", "sig_alg", "finished"})
      BY <2>2 DEF Same, ParseInv
    <3>2. t.alpn = p.s.alpn /\ t.verified = p.s.verified /\ t.sig_alg = p.s.sig_alg
      BY <2>2 DEF Same, SessionFields
    <3>3. p.s.transcript = Signed13(k).transcript
      <4>1. Finished(p.s, "server") = Finished(Signed13(k), "server")
        BY <1>8, <2>4, Types13 DEF verify_finished, SF13
      <4> QED
        BY <4>1 DEF Finished
    <3>4. StartsWith(t.transcript, Signed13(k).transcript)
      BY <1>3, <2>2, <3>3 DEF Entered
    <3> QED
      BY <1>3, <1>8, <2>2, <2>3, <3>1, <3>2, <3>4 DEF ParseInv, Entered
  <2> QED
    BY <1>4, <2>1, <2>4
<1>9. \/ OnMessage(p, m, trust) = p
      \/ m.type = "encrypted_extensions" /\ OnMessage(p, m, trust) = OnEncryptedExtensions(p, m)
      \/ m.type = "certificate" /\ OnMessage(p, m, trust) = OnCertificate(p, m, trust)
      \/ m.type = "cert_verify" /\ OnMessage(p, m, trust) = OnCertVerify(p, m)
      \/ m.type = "finished" /\ OnMessage(p, m, trust) = OnFinished(p, m)
  BY Zenon DEF OnMessage
<1> QED
  BY <1>5, <1>6, <1>7, <1>8, <1>9

ParseRun(r, p, ms, trust, n) ==
  /\ r[0] = p
  /\ \A i \in 1 .. n : r[i] = OnMessage(r[i - 1], ms[i], trust)
  /\ FoldLeft(LAMBDA a, m : OnMessage(a, m, trust), p, ms) = r[n]

LEMMA ParsesSteps ==
  ASSUME NEW p, NEW ms, NEW trust, NEW n \in Nat, DOMAIN ms = 1 .. n
  PROVE  \E r : ParseRun(r, p, ms, trust, n)
<1>1. FoldLeft(LAMBDA a, m : OnMessage(a, m, trust), p, ms) = Parses!Fold(trust, p, ms)
  BY DEF Parses!Fold, FoldLeft, MapThenFoldSet, Max,
         Parses!FoldLeft, Parses!MapThenFoldSet, Parses!Max
<1>2. PICK r : Parses!IsRun(r, trust, p, ms, n)
  BY Parses!Steps
<1> QED
  BY <1>1, <1>2 DEF ParseRun, Parses!IsRun

LEMMA Parsed13Facts ==
  ASSUME NEW k, NEW K, NEW fl \in Seq(FlightRecords(Msgs13(k), K)), fl # <<>>,
         FirstMessage(fl).type = "server_hello"
  PROVE  ParseInv(k, Opened13(k, fl).s, Parsed13(k, fl))
<1> DEFINE sh == FirstMessage(fl)
           b == Begun13(k, sh)
           o == Opened13(k, fl)
           n == Len(o.msgs)
           trust == k.client.trust
<1>1. o.msgs \in Seq(Msgs13(k)) /\ IsSession(o.s) /\ Same(b, o.s, {"server_seq"})
  BY Opened13Facts
<1>2. /\ IsSession(b) /\ IsSeq(b.transcript)
      /\ \A i \in DOMAIN b.transcript :
           b.transcript[i][2].type \in {"client_hello", "server_hello"}
      /\ b.finished = FALSE /\ b.verified = FALSE /\ b.skip = k.client.skip
      /\ b.sni = k.client.sni
  BY Begun13Facts
<1> HIDE DEF b, o
<1>3. /\ IsSeq(o.s.transcript)
      /\ \A i \in DOMAIN o.s.transcript :
           o.s.transcript[i][2].type \in {"client_hello", "server_hello"}
      /\ o.s.finished = FALSE /\ o.s.verified = FALSE /\ o.s.skip = k.client.skip
      /\ o.s.sni = k.client.sni
  BY <1>1, <1>2 DEF Same, SessionFields
<1>4. ParseInv(k, o.s, Parse(o.s))
  <2>1. /\ DOMAIN Parse(o.s) = {"s", "cert", "ok"}
        /\ Parse(o.s).s = o.s /\ Parse(o.s).cert = None
    BY DEF Parse
  <2>2. ~Saw(o.s, "encrypted_extensions") /\ ~Saw(o.s, "certificate") /\ ~SawSigned(o.s)
    BY <1>3 DEF Saw, SawSigned
  <2> QED
    BY <1>1, <1>3, <2>1, <2>2 DEF ParseInv, Same
<1>5. n \in Nat /\ DOMAIN o.msgs = 1 .. n
  BY <1>1
<1> HIDE DEF n
<1>6. PICK r : ParseRun(r, Parse(o.s), o.msgs, trust, n)
  BY <1>5, ParsesSteps
<1> DEFINE S == {i \in Nat : i \in 0 .. n => ParseInv(k, o.s, r[i])}
<1>7. 0 \in S
  BY <1>4, <1>6 DEF ParseRun
<1>8. ASSUME NEW i \in Nat, i \in S PROVE i + 1 \in S
  <2> SUFFICES ASSUME i + 1 \in 0 .. n PROVE ParseInv(k, o.s, r[i + 1])
    OBVIOUS
  <2>1. ParseInv(k, o.s, r[i])
    BY <1>5, <1>8
  <2>2. i + 1 \in 1 .. n /\ (i + 1) - 1 = i
    BY <1>5
  <2>3. r[i + 1] = OnMessage(r[i], o.msgs[i + 1], trust)
    BY <1>6, <2>2 DEF ParseRun
  <2>4. o.msgs[i + 1] \in Msgs13(k)
    BY <1>1, <1>5, <2>2
  <2> QED
    BY <1>3, <2>1, <2>3, <2>4, ParseStep
<1> HIDE DEF S
<1>9. n \in S
  BY <1>5, <1>7, <1>8, Parses!NatSetInduction
<1>10. ParseInv(k, o.s, r[n])
  BY <1>5, <1>9 DEF S
<1>11. Parsed13(k, fl) = r[n]
  <2>1. FoldLeft(LAMBDA x, m : OnMessage(x, m, trust), Parse(o.s), o.msgs) = r[n]
    BY <1>6, Zenon DEF ParseRun
  <2> QED
    BY <2>1, Zenon DEF Parsed13, o
<1> QED
  BY <1>10, <1>11 DEF o

\* The session of a client that has finished TLS 1.3.
Done13(k, s) ==
  /\ s.suite = Suite13(k) /\ s.ks_group = Group13(k) /\ s.quic = k.client.quic
  /\ s.ems = FALSE /\ s.client_seq = 0 /\ s.server_seq = 0
  /\ s.alpn = Selected13(k).alpn /\ Vetted(k)
  /\ s.verified =>
       /\ s.sig_alg = Alg13(k) /\ ~k.client.skip
       /\ Expected13(k) # None /\ Expected13(k).key = CertOf(k).key
  /\ ~k.client.skip /\ Expected13(k) # None /\ CV13(k) # <<>> => s.verified

\* Its keys cover the same transcript as its Finished.
Replied13(s, r) ==
  \E t : /\ s.key = <<"application", s.base, t>>
         /\ r.msgs = <<[type |-> "finished", mac |-> <<"client", s.base, t>>]>>

LEMMA Finished13 ==
  ASSUME NEW k, NEW K, NEW fl \in Seq(FlightRecords(Msgs13(k), K)), fl # <<>>,
         Result13(k, fl).ok, Result13(k, fl).s.finished
  PROVE  Done13(k, Result13(k, fl).s) /\ Replied13(Result13(k, fl).s, Result13(k, fl).rec)
<1> DEFINE sh == FirstMessage(fl)
           b == Begun13(k, sh)
           o == Opened13(k, fl)
           p == Parsed13(k, fl)
           out == IF Waiting(k).quic THEN Record("handshake", <<Finished(p.s, "client")>>)
                  ELSE Protected(p.s, "application_data", <<Finished(p.s, "client")>>)
           a == Advance(p.s, "client")
           y == tls13_derive_application_keys(a)
           z == transcript_update(y, out)
<1>1. /\ sh.type = "server_hello" /\ Result13(k, fl).rec = out /\ Result13(k, fl).s = z
  BY Result13Steps
<1>2. sh = SH13(k) /\ IsSession(o.s) /\ Same(b, o.s, {"server_seq"})
  <2>1. sh \in Msgs13(k) /\ IsSession(o.s) /\ Same(b, o.s, {"server_seq"})
    BY <1>1, Opened13Facts
  <2> QED
    BY <1>1, <2>1, Types13
<1>3. ParseInv(k, o.s, p)
  BY <1>1, Parsed13Facts
<1>4. /\ IsSession(b) /\ b.suite = Suite13(k) /\ b.ks_group = Group13(k)
      /\ b.quic = k.client.quic /\ b.ems = FALSE
  <2>1. SH13(k).suite = Suite13(k) /\ SH13(k).share.group = Group13(k)
    BY DEF SH13, KeyPair
  <2>2. /\ IsSession(b) /\ b.suite = sh.suite /\ b.ks_group = sh.share.group
        /\ b.quic = k.client.quic /\ b.ems = FALSE
    BY <1>1, Begun13Facts
  <2> HIDE DEF b, sh
  <2> QED
    BY <1>2, <2>1, <2>2
<1> HIDE DEF b, o, p
<1>5. /\ IsSession(a) /\ Same(p.s, a, {"client_seq"})
  BY <1>3 DEF ParseInv, Advance, IsSession, SessionFields, Same
<1>6. /\ IsSession(y) /\ Same(a, y, {"key", "client_seq", "server_seq"})
      /\ y.key = <<"application", a.base, a.transcript>> /\ y.client_seq = 0 /\ y.server_seq = 0
  <2> HIDE DEF a
  <2> QED
    BY <1>5, NewKeyFields DEF tls13_derive_application_keys
<1>7. IsSession(z) /\ Same(y, z, {"transcript"})
  <2> HIDE DEF y, out
  <2> QED
    BY <1>6, UpdateFields
<1> HIDE DEF a, y, z
<1>8. Same(b, p.s, {"transcript", "alpn", "verified", "sig_alg", "finished", "server_seq"})
  BY <1>2, <1>3 DEF ParseInv, Same
<1>9. Same(p.s, z, {"key", "client_seq", "server_seq", "transcript"})
  BY <1>5, <1>6, <1>7 DEF Same
<1>10. /\ z.key = <<"application", p.s.base, p.s.transcript>>
       /\ z.client_seq = 0 /\ z.server_seq = 0
  <2>1. z.key = y.key /\ z.client_seq = y.client_seq /\ z.server_seq = y.server_seq
    BY <1>7 DEF Same, SessionFields
  <2>2. a.base = p.s.base /\ a.transcript = p.s.transcript
    BY <1>5 DEF Same, SessionFields
  <2> QED
    BY <1>6, <2>1, <2>2
<1>11. Replied13(z, out)
  <2>1. z.base = p.s.base
    BY <1>9 DEF Same, SessionFields
  <2>2. out.msgs = <<Finished(p.s, "client")>>
    BY DEF Record, Protected
  <2> QED
    BY <1>10, <2>1, <2>2 DEF Replied13, Finished
<1>12. p.s.finished
  BY <1>1, <1>9 DEF Same, SessionFields
<1>13. StartsWith(p.s.transcript, Signed13(k).transcript)
  BY <1>3, <1>12 DEF ParseInv
<1>14. /\ Saw(p.s, "encrypted_extensions") /\ Saw(p.s, "certificate")
       /\ CV13(k) # <<>> => SawSigned(p.s)
  <2> DEFINE q == p.s.transcript
             t == Signed13(k).transcript
             h == Suite13(k).hash
             e == <<h, CV13(k)[1]>>
  <2>1. IsSeq(q) /\ Len(q) \in Nat /\ DOMAIN q = 1 .. Len(q)
    BY <1>3, SeqDomain DEF ParseInv
  <2>2. /\ IsSeq(t) /\ Len(t) >= 4 /\ t[3] = <<h, EE13(k)>> /\ t[4] = <<h, Crt(k)>>
        /\ CV13(k) # <<>> => Len(t) = 5 /\ t[5] = e
    BY Sent13Facts
  <2>3. Len(t) \in Nat /\ StartsWith(q, t)
    BY <1>13, <2>2, SeqDomain
  <2>4. /\ t[3][2].type = "encrypted_extensions" /\ t[4][2].type = "certificate"
        /\ CV13(k) # <<>> => e[2].type = "cert_verify"
    <3>1. EE13(k).type = "encrypted_extensions" /\ Crt(k).type = "certificate"
      BY DEF EE13, tls13_make_encrypted_extensions, Crt, tls13_make_certificate
    <3>2. CV13(k) # <<>> => CV13(k)[1].type = "cert_verify"
      BY DEF CV13, tls13_make_cert_verify
    <3> QED
      BY <2>2, <3>1, <3>2
  <2> HIDE DEF q, t, h, e
  <2>5. /\ 3 \in DOMAIN q /\ 4 \in DOMAIN q /\ q[3] = t[3] /\ q[4] = t[4]
        /\ CV13(k) # <<>> => 5 \in DOMAIN q /\ q[5] = e
    BY <2>1, <2>2, <2>3 DEF StartsWith
  <2>6. CV13(k) # <<>> => SawSigned(p.s)
    <3> SUFFICES ASSUME CV13(k) # <<>> PROVE SawSigned(p.s)
      OBVIOUS
    <3>1. 4 < 5 /\ 5 \in DOMAIN q /\ q[5][2].type = "cert_verify"
      BY <2>4, <2>5
    <3> QED
      BY <2>4, <2>5, <3>1 DEF SawSigned, q
  <2> QED
    BY <2>4, <2>5, <2>6 DEF Saw, q
<1>15. Done13(k, z)
  <2>1. /\ z.suite = Suite13(k) /\ z.ks_group = Group13(k) /\ z.quic = k.client.quic
        /\ z.ems = FALSE
    BY <1>4, <1>8, <1>9 DEF Same, SessionFields
  <2>2. z.alpn = p.s.alpn /\ z.verified = p.s.verified /\ z.sig_alg = p.s.sig_alg
    BY <1>9 DEF Same, SessionFields
  <2>3. EE13(k).alpn = Selected13(k).alpn
    BY Sent13Facts
  <2> QED
    BY <1>3, <1>10, <1>14, <2>1, <2>2, <2>3 DEF Done13, ParseInv
<1> QED
  BY <1>1, <1>11, <1>15

-----------------------------------------------------------------------------
(***************************************************************************)
(* The TLS 1.2 server of configuration k.                                  *)
(***************************************************************************)
Suite12(k) ==
  tls12_select_server_suite(Hello(k), CertOf(k), k.server.psks, k.server.enabled)
Group12(k) == select_group12(Suite12(k), Hello(k))
Alg12(k) == IF Signed(Suite12(k)) THEN select_sig_alg12(ServerStart(k), Hello(k), CertOf(k))
            ELSE ServerStart(k).sig_alg
Skx12(k) == MakeServerKeyExchange(Suite12(k), Group12(k), Alg12(k), CertOf(k))
SH12(k) == [type |-> "server_hello", suite |-> Suite12(k), ems |-> Hello(k).ems,
            session_id |-> "fresh id"]
HelloDone == [type |-> "server_hello_done"]
BeforeDone12(k) ==
  <<SH12(k)>> \o (IF tls12_is_psk(Suite12(k)) THEN <<>> ELSE <<Crt(k)>>) \o Skx12(k)
Flight12(k) == BeforeDone12(k) \o <<HelloDone>>
Chosen12(k) ==
  [ServerStart(k) EXCEPT !.suite = Suite12(k), !.ems = Hello(k).ems, !.sni = Hello(k).sni,
                         !.transcript = <<>>, !.session_id = "fresh id", !.sig_alg = Alg12(k),
                         !.ks_group = IF Group12(k) = None THEN @ ELSE Group12(k),
                         !.ks_priv = IF Group12(k) = None THEN @
                                     ELSE KeyPair("server", Group12(k))]
Sent12(k) == transcript_updates(Chosen12(k), <<Hello(k)>> \o Flight12(k))

Answer12(k) ==
  tls12_make_server_hello_flight(ServerStart(k), Hello(k), k.server.manager,
                                 k.server.psks, k.server.enabled)

LEMMA Answer12Steps ==
  ASSUME NEW k, Answer12(k).ok
  PROVE  /\ Suite12(k) # None /\ (Signed(Suite12(k)) => Alg12(k) # None)
         /\ Answer12(k).s = Sent12(k) /\ Answer12(k).msgs = Flight12(k)
<1> DEFINE refused ==
             \/ Suite12(k) = None
             \/ ~(ToSet(Hello(k).sig_algs_cert) \subseteq ToSet(Hello(k).sig_algs))
             \/ Signed(Suite12(k)) /\ Alg12(k) = None
             \/ Suite12(k).kx = "DHE" /\ Skx12(k) = <<>>
<1>1. Answer12(k) = IF refused THEN [ok |-> FALSE, s |-> ServerStart(k), msgs |-> <<>>]
                    ELSE [ok |-> TRUE, s |-> Sent12(k), msgs |-> Flight12(k)]
  BY Zenon DEF Answer12, tls12_make_server_hello_flight, Sent12, Chosen12, Flight12, BeforeDone12,
     HelloDone, SH12, Skx12, Alg12, Group12, Suite12, CertOf, Crt
<1> HIDE DEF refused
<1>2. ~refused
  BY <1>1
<1> QED
  BY <1>1, <1>2 DEF refused

LEMMA Negotiated12 ==
  ASSUME NEW k \in Configurations, k.client.ver = "1.2", Answer12(k).ok
  PROVE  /\ Suite12(k) \in ToSet(tls12_client_suite_list(ClientStart(k))) \cap k.server.enabled
         /\ ~tls12_is_psk(Suite12(k)) => CertOf(k) # None
         /\ Signed(Suite12(k)) =>
              /\ Alg12(k) \in ToSet(OrDefault(k.client.sig_algs)) \cap ToSet(OrDefault(k.server.sig_algs))
              /\ Alg12(k).fam = tls_key_type_to_sig_alg(CertOf(k).key_type).fam
<1>0. Suite12(k) # None /\ (Signed(Suite12(k)) => Alg12(k) # None)
  BY Answer12Steps
<1>1. /\ Suite12(k) \in ToSet(Hello(k).suites) /\ Suite12(k) \in k.server.enabled
      /\ Fits12(Suite12(k), CertOf(k), k.server.psks, Hello(k))
  <2> DEFINE S == {cs \in ToSet(Hello(k).suites) :
                     cs \in k.server.enabled /\ Fits12(cs, CertOf(k), k.server.psks, Hello(k))}
             q == tls12_server_suites
  <2>1. Suite12(k) = FirstIn(q, S)
    BY DEF Suite12, tls12_select_server_suite
  <2>2. Len(q) \in Nat /\ DOMAIN q = 1 .. Len(q)
    <3>1. IsSeq(tls12_client_suites)
      BY FifteenSeq, Zenon DEF tls12_client_suites
    <3>2. IsSeq(tls12_psk_suites)
      BY TenSeq, Zenon DEF tls12_psk_suites
    <3>3. IsSeq(q)
      BY <3>1, <3>2, JoinAny, Zenon DEF tls12_server_suites
    <3> HIDE DEF q
    <3> QED
      BY <3>3, SeqDomain
  <2> HIDE DEF S, q
  <2>3. Suite12(k) \in S
    BY <1>0, <2>1, <2>2, FirstInFacts
  <2> QED
    BY <2>3 DEF S
<1>2. ~tls12_is_psk(Suite12(k)) => CertOf(k) # None
  BY <1>1, Zenon DEF Fits12
<1>3. ASSUME Signed(Suite12(k))
      PROVE  /\ Alg12(k) \in ToSet(OrDefault(k.client.sig_algs)) \cap ToSet(OrDefault(k.server.sig_algs))
             /\ Alg12(k).fam = tls_key_type_to_sig_alg(CertOf(k).key_type).fam
  <2> DEFINE tls13 == FALSE
             a == select_signature_scheme(OrDefault(k.client.sig_algs), CertOf(k).key_type,
                                          k.server.sig_algs, tls13)
  <2>1. IsSeq(k.client.sig_algs)
    BY ConfigurationsAssumption DEF Lists, IsSeq
  <2>2. Hello(k).sig_algs = OrDefault(k.client.sig_algs) /\ Hello(k).sig_algs # <<>>
    BY <2>1, HelloFields, ServerDefaults
  <2>3. ServerStart(k).sig_algs = k.server.sig_algs
    BY ServerStartFields
  <2>4. Alg12(k) = a /\ a # None
    BY <1>0, <1>3, <2>2, <2>3, Zenon DEF Alg12, select_sig_alg12
  <2>5. /\ a \in ToSet(OrDefault(k.client.sig_algs)) \cap ToSet(OrDefault(k.server.sig_algs))
        /\ a.fam = tls_key_type_to_sig_alg(CertOf(k).key_type).fam
        /\ tls13 => tls_scheme_allowed_for_cert_verify(a)
    <3> HIDE DEF tls13
    <3> QED
      BY <2>1, <2>4, SchemeFacts
  <2> HIDE DEF a
  <2> QED
    BY <2>4, <2>5
<1> QED
  BY <1>1, <1>2, <1>3, HelloFields

\* What the TLS 1.2 server of configuration k says before its ServerHelloDone.
Msgs12(k) == {SH12(k), Crt(k)} \cup ToSet(Skx12(k))

LEMMA Types12 ==
  ASSUME NEW k, NEW m \in Msgs12(k)
  PROVE  /\ m.type = "server_hello" => m = SH12(k)
         /\ m.type = "certificate" => m = Crt(k)
         /\ m.type = "server_key_exchange" =>
              \/ m.sig = None
              \/ /\ Signed(Suite12(k))
                 /\ m.sig.alg = Alg12(k) /\ m.sig.by = CertOf(k).key
         /\ m # HelloDone
         /\ m.type # "finished" /\ m.type # "server_hello_done"
<1>1. SH12(k).type = "server_hello" /\ Crt(k).type = "certificate"
  BY DEF SH12, Crt, tls13_make_certificate
<1>2. ASSUME m \in ToSet(Skx12(k))
      PROVE  /\ m.type = "server_key_exchange"
             /\ \/ m.sig = None
                \/ /\ Signed(Suite12(k))
                   /\ m.sig.alg = Alg12(k) /\ m.sig.by = CertOf(k).key
  <2> DEFINE x(sig) == [type |-> "server_key_exchange", share |-> KeyPair("server", Group12(k)),
                        sig |-> sig]
             g == Signature(CertOf(k), Alg12(k), SkxContent(KeyPair("server", Group12(k))))
  <2>1. \/ Signed(Suite12(k)) /\ Skx12(k) = <<x(g)>>
        \/ Skx12(k) = <<x(None)>>
        \/ Skx12(k) = <<>>
    BY DEF Skx12, MakeServerKeyExchange
  <2>2. g.alg = Alg12(k) /\ g.by = CertOf(k).key
    BY DEF Signature
  <2>3. \A y : x(y).type = "server_key_exchange" /\ x(y).sig = y
    OBVIOUS
  <2>4. ToSet(<<>>) = {} /\ \A y : ToSet(<<y>>) = {y}
    BY DEF ToSet
  <2> HIDE DEF x, g
  <2> QED
    BY <1>2, <2>1, <2>2, <2>3, <2>4
<1>3. HelloDone.type = "server_hello_done"
  BY DEF HelloDone
<1> QED
  BY <1>1, <1>2, <1>3 DEF Msgs12

LEMMA Sent12Facts ==
  ASSUME NEW k, k.client.ver = "1.2"
  PROVE  LET s == Sent12(k)
         IN /\ IsSession(s) /\ s.role = "server" /\ s.suite = Suite12(k) /\ s.ems = TRUE
            /\ s.alpn = "" /\ s.client_seq = 0 /\ s.server_seq = 0 /\ s.sni = Hello(k).sni
            /\ BeforeDone12(k) \in Seq(Msgs12(k))
<1> DEFINE c12 == Chosen12(k)
           ms == <<Hello(k)>> \o Flight12(k)
           s == Sent12(k)
           U == Msgs12(k) \cup {HelloDone, Hello(k)}
<1>1. BeforeDone12(k) \in Seq(Msgs12(k))
  <2> DEFINE a == <<SH12(k)>>
             b == IF tls12_is_psk(Suite12(k)) THEN <<>> ELSE <<Crt(k)>>
             d == Skx12(k)
             M == Msgs12(k)
  <2>1. SH12(k) \in M /\ Crt(k) \in M /\ ToSet(d) \subseteq M
    BY DEF Msgs12
  <2>2. a \in Seq(M) /\ b \in Seq(M)
    <3> HIDE DEF M
    <3> QED
      BY <2>1
  <2>3. d \in Seq(M)
    <3>1. d = <<>> \/ (\E x : d = <<x>>)
      BY DEF Skx12, MakeServerKeyExchange
    <3>2. \A x : ToSet(<<x>>) = {x}
      BY DEF ToSet
    <3> HIDE DEF M, d
    <3>3. CASE d = <<>>
      BY <3>3
    <3>4. ASSUME NEW x, d = <<x>> PROVE d \in Seq(M)
      <4>1. x \in M
        BY <2>1, <3>2, <3>4
      <4> QED
        BY <3>4, <4>1
    <3> QED
      BY <3>1, <3>3, <3>4
  <2>4. BeforeDone12(k) = a \o b \o d
    BY DEF BeforeDone12
  <2> HIDE DEF a, b, d, M
  <2> QED
    BY <2>2, <2>3, <2>4 DEF M
<1>2. ms \in Seq(U)
  <2> DEFINE a == <<Hello(k)>>
             b == BeforeDone12(k)
             d == <<HelloDone>>
  <2>1. ms = a \o (b \o d)
    BY DEF Flight12
  <2>2. b \in Seq(U)
    BY <1>1
  <2>3. a \in Seq(U) /\ d \in Seq(U)
    OBVIOUS
  <2> HIDE DEF a, b, d, U
  <2> QED
    <3>1. b \o d \in Seq(U)
      BY <2>2, <2>3
    <3> DEFINE e == b \o d
    <3> HIDE DEF e
    <3>2. e \in Seq(U)
      BY <3>1 DEF e
    <3>3. a \o e \in Seq(U)
      BY <2>3, <3>2
    <3> QED
      BY <2>1, <3>3 DEF e
<1>3. Len(ms) \in Nat /\ DOMAIN ms = 1 .. Len(ms)
  <2> HIDE DEF ms, U
  <2> QED
    BY <1>2
<1>4. /\ IsSession(c12) /\ c12.role = "server" /\ c12.suite = Suite12(k) /\ c12.ems = TRUE
      /\ c12.alpn = "" /\ c12.client_seq = 0 /\ c12.server_seq = 0 /\ c12.sni = Hello(k).sni
  BY ServerStartFields, HelloFields DEF Chosen12, IsSession, SessionFields
<1>5. IsSession(s) /\ Same(c12, s, {"transcript"})
  <2>1. s = transcript_updates(c12, ms)
    BY DEF Sent12
  <2> HIDE DEF s, c12, ms
  <2> QED
    BY <1>3, <1>4, <2>1, UpdatesSame
<1> HIDE DEF s, c12
<1>6. /\ s.role = "server" /\ s.suite = Suite12(k) /\ s.ems = TRUE
      /\ s.alpn = "" /\ s.client_seq = 0 /\ s.server_seq = 0 /\ s.sni = Hello(k).sni
  BY <1>4, <1>5 DEF Same, SessionFields
<1> QED
  BY <1>1, <1>5, <1>6 DEF s

-----------------------------------------------------------------------------
(***************************************************************************)
(* The TLS 1.2 client of configuration k.                                  *)
(***************************************************************************)
Greeted12(k, sh) ==
  [Waiting(k) EXCEPT !.suite = sh.suite, !.ems = sh.ems, !.session_id = sh.session_id]
Hashed12(k, sh) == transcript_updates(Greeted12(k, sh), Waiting(k).ch_cache \o <<sh>>)
Unread12(k, sh) ==
  [s |-> Hashed12(k, sh), ok |-> TRUE, cert |-> None, leaf |-> None, skx |-> None]
Read12(k, ms) ==
  FoldLeft(LAMBDA a, m : FlightStep(a, m, k.client.trust), Unread12(k, Head(ms)), Tail(ms))
Peer12(k, ms) == ServerCert(Read12(k, ms), k.client.trust)
Exchange12(k, ms) == MakeClientKeyExchange(Read12(k, ms).s, Read12(k, ms).skx, Peer12(k, ms))
Keyed12(k, ms) ==
  tls12_derive_keys(transcript_updates(Read12(k, ms).s, Exchange12(k, ms).cke),
                    Exchange12(k, ms).premaster)
Replied12(k, ms) ==
  [transcript_update(Keyed12(k, ms), Finished(Keyed12(k, ms), "client"))
   EXCEPT !.verified = Peer12(k, ms) # None /\ Keyed12(k, ms).suite.kx \in {"ECDHE", "DHE"},
          !.sig_alg = IF Read12(k, ms).skx = None \/ Read12(k, ms).skx.sig = None THEN None
                      ELSE Read12(k, ms).skx.sig.alg]

Result12(k, ms) == tls12_process_server_flight(Waiting(k), ms, k.client.trust)

LEMMA Result12Steps ==
  ASSUME NEW k, NEW ms, Result12(k, ms).ok
  PROVE  /\ Head(ms).type = "server_hello" /\ Read12(k, ms).ok /\ Exchange12(k, ms).ok
         /\ Result12(k, ms).s = Replied12(k, ms)
         /\ Result12(k, ms).cke = Exchange12(k, ms).cke
         /\ Result12(k, ms).cf = Finished(Keyed12(k, ms), "client")
<1> DEFINE refused ==
             \/ Head(ms).type # "server_hello"
             \/ Head(ms).suite \notin ToSet(tls12_client_suite_list(Waiting(k)))
             \/ ~Read12(k, ms).ok \/ ~Exchange12(k, ms).ok
<1>1. Result12(k, ms) =
        IF refused THEN [ok |-> FALSE, s |-> Waiting(k), cke |-> <<>>, cf |-> None]
        ELSE [ok |-> TRUE, s |-> Replied12(k, ms), cke |-> Exchange12(k, ms).cke,
              cf |-> Finished(Keyed12(k, ms), "client")]
  BY Zenon DEF Result12, tls12_process_server_flight, Replied12, Keyed12, Exchange12, Peer12,
     Read12, Unread12, Hashed12, Greeted12
<1> HIDE DEF refused
<1>2. ~refused
  BY <1>1
<1> QED
  BY <1>1, <1>2 DEF refused

LEMMA Hashed12Facts ==
  ASSUME NEW k, NEW sh
  PROVE  LET s == Hashed12(k, sh)
         IN /\ IsSession(s) /\ s.suite = sh.suite /\ s.ems = sh.ems /\ s.role = "client"
            /\ s.alpn = "" /\ s.skip = k.client.skip /\ s.sni = k.client.sni
<1> DEFINE g == Greeted12(k, sh)
           s == Hashed12(k, sh)
           ms == Waiting(k).ch_cache \o <<sh>>
<1>1. /\ IsSession(g) /\ g.suite = sh.suite /\ g.ems = sh.ems /\ g.role = "client"
      /\ g.alpn = "" /\ g.skip = k.client.skip /\ g.sni = k.client.sni
  BY WaitingFields DEF Greeted12, IsSession, SessionFields
<1>2. ms = <<Hello(k), sh>>
  BY WaitingFields, JoinTwo, Zenon
<1>3. DOMAIN ms = 1 .. 2
  BY <1>2
<1> HIDE DEF ms
<1>4. s = transcript_updates(g, ms)
  BY DEF Hashed12, ms
<1> HIDE DEF g, s
<1>5. IsSession(s) /\ Same(g, s, {"transcript"})
  BY <1>1, <1>3, <1>4, UpdatesSame, 2 \in Nat
<1>6. /\ s.suite = sh.suite /\ s.ems = sh.ems /\ s.role = "client"
      /\ s.alpn = "" /\ s.skip = k.client.skip /\ s.sni = k.client.sni
  BY <1>1, <1>5 DEF Same, SessionFields
<1> QED
  BY <1>5, <1>6 DEF s

\* What has been read of the flight; b is the session it began with.
ReadInv(k, b, p) ==
  /\ DOMAIN p = {"s", "ok", "cert", "leaf", "skx"} /\ IsSession(p.s)
  /\ Same(b, p.s, {"transcript"})
  /\ \/ p.leaf = None /\ p.cert = None
     \/ /\ p.leaf = CertOf(k) /\ Vetted(k)
        /\ p.cert = IF Stored(k) THEN CertOf(k) ELSE None
  /\ p.skx = None \/ (p.skx \in Msgs12(k) /\ p.skx.type = "server_key_exchange")

LEMMA ReadStep ==
  ASSUME NEW k, NEW b, NEW p, NEW m \in Msgs12(k) \cup {HelloDone}, ReadInv(k, b, p),
         b.skip = k.client.skip, b.sni = k.client.sni
  PROVE  ReadInv(k, b, FlightStep(p, m, k.client.trust))
<1> DEFINE trust == k.client.trust
           u == transcript_update(p.s, m)
           stored == ~u.skip /\ trust.kind = "store"
           q == [p EXCEPT !.s = u]
           x == [p EXCEPT !.s = u, !.leaf = Head(m.chain),
                          !.cert = IF stored THEN Head(m.chain) ELSE @]
           y == [p EXCEPT !.s = u, !.skx = m]
<1>1. /\ IsSession(u) /\ Same(p.s, u, {"transcript"})
  BY UpdateFields DEF ReadInv
<1>2. Same(b, u, {"transcript"})
  BY <1>1 DEF Same, ReadInv
<1>3. u.skip = k.client.skip /\ u.sni = k.client.sni
  BY <1>2 DEF Same, SessionFields
<1>4. stored <=> Stored(k)
  BY <1>3, Zenon DEF Stored
<1>5. \/ FlightStep(p, m, trust) = p
      \/ FlightStep(p, m, trust) = Refused(p)
      \/ FlightStep(p, m, trust) = q
      \/ /\ m.type = "certificate" /\ FlightStep(p, m, trust) = x
         /\ stored => tls13_verify_server_chain(m.chain, trust.roots, u.sni)
      \/ /\ m.type = "server_key_exchange" /\ FlightStep(p, m, trust) = y
  BY Zenon DEF FlightStep
<1>6. /\ q.s = u /\ q.leaf = p.leaf /\ q.cert = p.cert /\ q.skx = p.skx
      /\ DOMAIN q = {"s", "ok", "cert", "leaf", "skx"}
      /\ y.s = u /\ y.leaf = p.leaf /\ y.cert = p.cert /\ y.skx = m
      /\ DOMAIN y = {"s", "ok", "cert", "leaf", "skx"}
      /\ x.s = u /\ x.leaf = Head(m.chain) /\ x.skx = p.skx
      /\ x.cert = IF stored THEN Head(m.chain) ELSE p.cert
      /\ DOMAIN x = {"s", "ok", "cert", "leaf", "skx"}
  BY DEF ReadInv
<1> HIDE DEF u, q, x, y, stored
<1>7. ReadInv(k, b, Refused(p)) /\ ReadInv(k, b, q)
  BY <1>1, <1>2, <1>6 DEF ReadInv, Refused
<1>8. ASSUME m.type = "server_key_exchange" PROVE ReadInv(k, b, y)
  <2>1. m \in Msgs12(k)
    BY <1>8 DEF HelloDone
  <2> QED
    BY <1>1, <1>2, <1>6, <1>8, <2>1 DEF ReadInv
<1>9. ASSUME m.type = "certificate",
             stored => tls13_verify_server_chain(m.chain, trust.roots, u.sni)
      PROVE  ReadInv(k, b, x)
  <2>1. m \in Msgs12(k)
    BY <1>9 DEF HelloDone
  <2>2. m.chain = <<CertOf(k)>>
    BY <1>9, <2>1, Types12 DEF Crt, tls13_make_certificate
  <2>3. Head(m.chain) = CertOf(k)
    <3>1. \A z : Head(<<z>>) = z
      OBVIOUS
    <3> QED
      BY <2>2, <3>1, Zenon
  <2>4. Vetted(k)
    BY <1>3, <1>4, <1>9, <2>2, Zenon DEF Vetted
  <2>5. ~Stored(k) => p.cert = None
    BY DEF ReadInv
  <2> QED
    BY <1>1, <1>2, <1>4, <1>6, <2>3, <2>4, <2>5 DEF ReadInv
<1> QED
  BY <1>5, <1>7, <1>8, <1>9

FlightRun(r, p, ms, trust, n) ==
  /\ r[0] = p
  /\ \A i \in 1 .. n : r[i] = FlightStep(r[i - 1], ms[i], trust)
  /\ FoldLeft(LAMBDA a, m : FlightStep(a, m, trust), p, ms) = r[n]

LEMMA FlightsSteps ==
  ASSUME NEW p, NEW ms, NEW trust, NEW n \in Nat, DOMAIN ms = 1 .. n
  PROVE  \E r : FlightRun(r, p, ms, trust, n)
<1>1. FoldLeft(LAMBDA a, m : FlightStep(a, m, trust), p, ms) = Flights!Fold(trust, p, ms)
  BY DEF Flights!Fold, FoldLeft, MapThenFoldSet, Max,
         Flights!FoldLeft, Flights!MapThenFoldSet, Flights!Max
<1>2. PICK r : Flights!IsRun(r, trust, p, ms, n)
  BY Flights!Steps
<1> QED
  BY <1>1, <1>2 DEF FlightRun, Flights!IsRun

LEMMA Read12Facts ==
  ASSUME NEW k, NEW ms \in Seq(Msgs12(k) \cup {HelloDone}), ms # <<>>,
         Head(ms).type = "server_hello"
  PROVE  Head(ms) = SH12(k) /\ ReadInv(k, Hashed12(k, SH12(k)), Read12(k, ms))
<1> DEFINE b == Hashed12(k, SH12(k))
           p0 == Unread12(k, SH12(k))
           tl == Tail(ms)
           U == Msgs12(k) \cup {HelloDone}
           n == Len(tl)
           trust == k.client.trust
<1>1. Head(ms) = SH12(k)
  <2>1. Head(ms) \in U
    OBVIOUS
  <2>2. Head(ms) \in Msgs12(k)
    BY <2>1 DEF HelloDone
  <2> QED
    BY <2>2, Types12
<1>2. tl \in Seq(U) /\ n \in Nat /\ DOMAIN tl = 1 .. n
  OBVIOUS
<1>3. IsSession(b) /\ b.skip = k.client.skip /\ b.sni = k.client.sni
  BY Hashed12Facts
<1>4. ReadInv(k, b, p0)
  <2>1. /\ DOMAIN p0 = {"s", "ok", "cert", "leaf", "skx"} /\ p0.s = b
        /\ p0.leaf = None /\ p0.cert = None /\ p0.skx = None
    BY DEF Unread12
  <2> HIDE DEF b, p0
  <2> QED
    BY <1>3, <2>1 DEF ReadInv, Same
<1> HIDE DEF b, p0, tl, U, n
<1>5. PICK r : FlightRun(r, p0, tl, trust, n)
  BY <1>2, FlightsSteps
<1> DEFINE S == {i \in Nat : i \in 0 .. n => ReadInv(k, b, r[i])}
<1>6. 0 \in S
  BY <1>4, <1>5 DEF FlightRun
<1>7. ASSUME NEW i \in Nat, i \in S PROVE i + 1 \in S
  <2> SUFFICES ASSUME i + 1 \in 0 .. n PROVE ReadInv(k, b, r[i + 1])
    OBVIOUS
  <2>1. ReadInv(k, b, r[i])
    BY <1>2, <1>7
  <2>2. i + 1 \in 1 .. n /\ (i + 1) - 1 = i
    BY <1>2
  <2>3. r[i + 1] = FlightStep(r[i], tl[i + 1], trust)
    BY <1>5, <2>2 DEF FlightRun
  <2>4. tl[i + 1] \in Msgs12(k) \cup {HelloDone}
    BY <1>2, <2>2 DEF U
  <2> QED
    BY <1>3, <2>1, <2>3, <2>4, ReadStep
<1> HIDE DEF S
<1>8. n \in S
  BY <1>2, <1>6, <1>7, Flights!NatSetInduction
<1>9. ReadInv(k, b, r[n])
  BY <1>2, <1>8 DEF S
<1>10. Read12(k, ms) = r[n]
  <2>1. FoldLeft(LAMBDA x, m : FlightStep(x, m, trust), p0, tl) = r[n]
    BY <1>5, Zenon DEF FlightRun
  <2> QED
    BY <1>1, <2>1, Zenon DEF Read12, p0, tl
<1> QED
  BY <1>1, <1>9, <1>10 DEF b

\* The session of a TLS 1.2 client that has answered the server's flight.
Replying12(k, s) ==
  /\ IsSession(s) /\ s.role = "client" /\ s.alpn = ""
  /\ s.suite = Suite12(k) /\ s.ems = TRUE /\ s.key = <<"tls12", s.base>>
  /\ s.verified => Signed(Suite12(k)) /\ s.sig_alg = Alg12(k)
  /\ ~k.client.skip /\ Suite12(k).kx \in {"ECDHE", "DHE", "RSA"} => Vetted(k)
  /\ ~k.client.skip /\ Signed(Suite12(k)) =>
       /\ s.verified
       /\ Compares(k) => Expected13(k).key = CertOf(k).key

\* Its ClientKeyExchange, which in an RSA exchange is for the certificate it checked.
KeyExchange12(k, m) ==
  /\ m.type = "client_key_exchange"
  /\ Suite12(k).kx = "RSA" /\ ~k.client.skip /\ Compares(k)
       => m.enc.to = Expected13(k).key

LEMMA Exchange12Facts ==
  ASSUME NEW k, NEW p, NEW b, ReadInv(k, b, p), b.suite = Suite12(k), b.skip = k.client.skip,
         b.sni = k.client.sni,
         Suite12(k).kx \in {"ECDHE", "DHE", "RSA", "PSK", "DHE_PSK"}
  PROVE  LET cert == ServerCert(p, k.client.trust)
             x == MakeClientKeyExchange(p.s, p.skx, cert)
         IN x.ok /\ x.cke # <<>> =>
              /\ \E m : x.cke = <<m>> /\ KeyExchange12(k, m)
              /\ cert # None => ~k.client.skip
              /\ ~k.client.skip /\ Suite12(k).kx \in {"ECDHE", "DHE", "RSA"} => Vetted(k)
              /\ ~k.client.skip /\ Signed(Suite12(k)) =>
                   /\ cert # None /\ p.skx # None /\ p.skx.sig # None
                   /\ p.skx.sig.alg = Alg12(k)
                   /\ Compares(k) => Expected13(k).key = CertOf(k).key
<1> DEFINE trust == k.client.trust
           expected == IF trust.kind = "manager" THEN get_certificate(trust.manager, p.s.sni)
                       ELSE None
           cert == ServerCert(p, trust)
           x == MakeClientKeyExchange(p.s, p.skx, cert)
           own == KeyPair("client", p.skx.share.group)
           enc == [to |-> cert.key, pms |-> "client pms"]
<1>1. p.s.suite = Suite12(k) /\ p.s.skip = k.client.skip /\ p.s.sni = k.client.sni
  BY DEF ReadInv, Same, SessionFields
<1>2. /\ cert # None => ~k.client.skip
      /\ cert # None => Vetted(k)
      /\ ~k.client.skip /\ Compares(k) => cert = Expected13(k)
  <2>1. CASE p.s.skip
    BY <1>1, <2>1 DEF ServerCert
  <2>2. CASE ~p.s.skip /\ p.cert # None
    BY <1>1, <2>2 DEF ServerCert, ReadInv, Stored, Compares
  <2>3. CASE ~p.s.skip /\ p.cert = None /\ expected # None
    <3>1. cert = expected
      BY <2>3, Zenon DEF ServerCert
    <3>2. trust.kind = "manager" /\ expected = get_certificate(trust.manager, k.client.sni)
      BY <1>1, <2>3
    <3>3. Expected13(k) = expected
      BY <1>1, <2>3, <3>2 DEF Expected13, Stored
    <3>4. Vetted(k)
      BY <3>2 DEF Vetted, Stored
    <3> QED
      BY <1>1, <2>3, <3>1, <3>3, <3>4
  <2>4. CASE ~p.s.skip /\ p.cert = None /\ expected = None
    <3>1. cert = p.leaf
      BY <2>4, Zenon DEF ServerCert
    <3>2. ~Compares(k)
      <4>1. SUFFICES ASSUME Compares(k) PROVE FALSE
        OBVIOUS
      <4>2. Expected13(k) = get_certificate(trust.manager, k.client.sni) /\ trust.kind = "manager"
        BY <1>1, <2>4, <4>1 DEF Expected13, Stored, Compares
      <4> QED
        BY <1>1, <2>4, <4>1, <4>2 DEF Compares
    <3> HIDE DEF cert, expected
    <3> QED
      BY <1>1, <2>4, <3>1, <3>2 DEF ReadInv
  <2> QED
    BY <2>1, <2>2, <2>3, <2>4
<1> HIDE DEF cert
<1>3. \A a, z : Exchanged(a, z).cke = <<z>>
  BY DEF Exchanged
<1>4. \A a, z, e, f : Cke(a, z, e, f).type = "client_key_exchange" /\ Cke(a, z, e, f).enc = e
  BY DEF Cke
<1>5. \A z : <<z>> # <<>>
  OBVIOUS
<1>6. ~NoExchange.ok
  BY DEF NoExchange
<1>11. ASSUME NEW a, NEW z, KeyExchange12(k, z)
       PROVE  \E m : Exchanged(a, z).cke = <<m>> /\ KeyExchange12(k, m)
  BY <1>3, <1>11, Zenon
<1>12. ASSUME Suite12(k).kx # "RSA", NEW a, NEW z, NEW e, NEW f
       PROVE  KeyExchange12(k, Cke(a, z, e, f))
  BY <1>4, <1>12 DEF KeyExchange12
<1> SUFFICES ASSUME x.ok, x.cke # <<>>
             PROVE  /\ \E m : x.cke = <<m>> /\ KeyExchange12(k, m)
                    /\ ~k.client.skip /\ Suite12(k).kx \in {"ECDHE", "DHE", "RSA"} => Vetted(k)
                    /\ ~k.client.skip /\ Signed(Suite12(k)) =>
                         /\ cert # None /\ p.skx # None /\ p.skx.sig # None
                         /\ p.skx.sig.alg = Alg12(k)
                         /\ Compares(k) => Expected13(k).key = CertOf(k).key
  BY <1>2 DEF cert
<1>7. CASE Signed(Suite12(k))
  <2>1. x = IF SkxAccepted(p.s, p.skx, cert) /\ p.skx # None
            THEN Exchanged(Ecdh(own, p.skx.share), Cke(own, None, None, TRUE)) ELSE NoExchange
    BY <1>1, <1>7, Zenon DEF MakeClientKeyExchange, Signed
  <2> HIDE DEF x, own
  <2>2. /\ SkxAccepted(p.s, p.skx, cert) /\ p.skx # None
        /\ x = Exchanged(Ecdh(own, p.skx.share), Cke(own, None, None, TRUE))
    BY <1>6, <2>1
  <2>3. Suite12(k).kx # "RSA"
    BY <1>7 DEF Signed
  <2>4. \E m : x.cke = <<m>> /\ KeyExchange12(k, m)
    BY <1>11, <1>12, <2>2, <2>3
  <2>5. ASSUME ~k.client.skip
        PROVE  /\ cert # None /\ p.skx # None /\ p.skx.sig # None
               /\ verify_scheme(cert, p.skx.sig, SkxContent(p.skx.share))
    BY <1>1, <2>2, <2>5, Zenon DEF SkxAccepted, tls12_verify_skx_signature
  <2>6. p.skx.sig = None \/ (p.skx.sig.alg = Alg12(k) /\ p.skx.sig.by = CertOf(k).key)
    BY <2>2, Types12 DEF ReadInv
  <2> QED
    BY <1>2, <2>4, <2>5, <2>6 DEF verify_scheme
<1>8. CASE Suite12(k).kx = "DHE_PSK"
  <2>1. x = IF p.skx # None /\ p.s.psk # None
            THEN Exchanged(tls12_psk_premaster(p.s.psk.value, Ecdh(own, p.skx.share)),
                           Cke(own, p.s.psk.id, None, TRUE))
            ELSE NoExchange
    BY <1>1, <1>8 DEF MakeClientKeyExchange
  <2> HIDE DEF x, own
  <2>2. \E a, z, e, f, g : x = Exchanged(g, Cke(a, z, e, f))
    BY <1>6, <2>1
  <2>3. \E m : x.cke = <<m>> /\ KeyExchange12(k, m)
    BY <1>8, <1>11, <1>12, <2>2
  <2> QED
    BY <1>8, <2>3 DEF Signed
<1>9. CASE Suite12(k).kx = "PSK"
  <2>1. x = IF p.s.psk # None
            THEN Exchanged(tls12_psk_premaster(p.s.psk.value, <<>>),
                           Cke(None, p.s.psk.id, None, TRUE))
            ELSE NoExchange
    BY <1>1, <1>9 DEF MakeClientKeyExchange
  <2> HIDE DEF x, own
  <2>2. \E a, z, e, f, g : x = Exchanged(g, Cke(a, z, e, f))
    BY <1>6, <2>1
  <2>3. \E m : x.cke = <<m>> /\ KeyExchange12(k, m)
    BY <1>9, <1>11, <1>12, <2>2
  <2> QED
    BY <1>9, <2>3 DEF Signed
<1>10. CASE Suite12(k).kx = "RSA"
  <2>1. x = IF cert # None
            THEN Exchanged(<<"rsa", "client pms">>,
                           Cke(None, None, enc, cert.key_type # "RSA_3072"))
            ELSE [ok |-> TRUE, premaster |-> <<"rsa", "client pms">>, cke |-> <<>>]
    BY <1>1, <1>10 DEF MakeClientKeyExchange
  <2>2. enc.to = cert.key
    OBVIOUS
  <2> HIDE DEF x, enc
  <2>3. cert # None
    BY <2>1
  <2>4. x.cke = <<Cke(None, None, enc, cert.key_type # "RSA_3072")>>
    BY <1>3, <2>1, <2>3
  <2>5. KeyExchange12(k, Cke(None, None, enc, cert.key_type # "RSA_3072"))
    <3>1. ~k.client.skip /\ Compares(k) => cert = Expected13(k)
      BY <1>2
    <3> QED
      BY <1>4, <2>2, <3>1 DEF KeyExchange12
  <2> QED
    BY <1>2, <1>10, <2>3, <2>4, <2>5 DEF Signed
<1> QED
  BY <1>7, <1>8, <1>9, <1>10 DEF Signed

LEMMA DerivedFields ==
  ASSUME NEW s, NEW premaster, IsSession(s)
  PROVE  LET t == tls12_derive_keys(s, premaster)
         IN /\ IsSession(t) /\ Same(s, t, {"base", "key", "client_seq", "server_seq"})
            /\ t.key = <<"tls12", t.base>> /\ t.client_seq = 0 /\ t.server_seq = 0
<1> DEFINE x == <<"master", premaster, IF s.ems THEN s.transcript ELSE <<>>>>
           u == [s EXCEPT !.base = x]
           t == tls12_derive_keys(s, premaster)
<1>1. t = NewKey(u, <<"tls12", x>>)
  BY DEF tls12_derive_keys
<1>2. IsSession(u) /\ Same(s, u, {"base"}) /\ u.base = x
  BY DEF IsSession, SessionFields, Same
<1> HIDE DEF x, u, t
<1>3. /\ IsSession(t) /\ Same(u, t, {"key", "client_seq", "server_seq"})
      /\ t.key = <<"tls12", x>> /\ t.client_seq = 0 /\ t.server_seq = 0
  BY <1>1, <1>2, NewKeyFields
<1> QED
  BY <1>2, <1>3 DEF Same, SessionFields, t

\* The client's answer: its session, its ClientKeyExchange and its Finished.
LEMMA Replied12Facts ==
  ASSUME NEW k, k.client.ver = "1.2", NEW ms \in Seq(Msgs12(k) \cup {HelloDone}), ms # <<>>,
         Suite12(k).kx \in {"ECDHE", "DHE", "RSA", "PSK", "DHE_PSK"},
         Result12(k, ms).ok, Result12(k, ms).cke # <<>>
  PROVE  LET r == Result12(k, ms)
         IN /\ Replying12(k, r.s) /\ r.s.client_seq = 0 /\ r.s.server_seq = 0
            /\ \E m : r.cke = <<m>> /\ KeyExchange12(k, m)
            /\ \E t : /\ r.cf = [type |-> "finished", mac |-> <<"client", r.s.base, t>>]
                      /\ r.s.transcript = Append(t, <<Suite12(k).hash, r.cf>>)
<1> DEFINE b == Hashed12(k, SH12(k))
           p == Read12(k, ms)
           x == Exchange12(k, ms)
           u == transcript_updates(p.s, x.cke)
           d == Keyed12(k, ms)
           w == transcript_update(d, Finished(d, "client"))
           z == Replied12(k, ms)
           cert == Peer12(k, ms)
<1>1. /\ Head(ms).type = "server_hello" /\ x.ok /\ Result12(k, ms).s = z
      /\ Result12(k, ms).cke = x.cke /\ Result12(k, ms).cf = Finished(d, "client")
  BY Result12Steps
<1>2. ReadInv(k, b, p)
  BY <1>1, Read12Facts
<1>3. /\ b.suite = Suite12(k) /\ b.ems = TRUE /\ b.role = "client" /\ b.alpn = ""
      /\ b.skip = k.client.skip /\ b.sni = k.client.sni
  <2>1. SH12(k).suite = Suite12(k) /\ SH12(k).ems = TRUE
    BY HelloFields DEF SH12
  <2> QED
    BY <2>1, Hashed12Facts
<1> HIDE DEF b, p
<1>4. /\ \E m : x.cke = <<m>> /\ KeyExchange12(k, m)
      /\ cert # None => ~k.client.skip
      /\ ~k.client.skip /\ Suite12(k).kx \in {"ECDHE", "DHE", "RSA"} => Vetted(k)
      /\ ~k.client.skip /\ Signed(Suite12(k)) =>
           /\ cert # None /\ p.skx # None /\ p.skx.sig # None
           /\ p.skx.sig.alg = Alg12(k)
           /\ Compares(k) => Expected13(k).key = CertOf(k).key
  <2>1. cert = ServerCert(p, k.client.trust)
    BY DEF Peer12, p
  <2>2. x = MakeClientKeyExchange(p.s, p.skx, ServerCert(p, k.client.trust))
    BY DEF Exchange12, Peer12, p
  <2> HIDE DEF x, cert
  <2> QED
    BY <1>1, <1>2, <1>3, <2>1, <2>2, Exchange12Facts
<1>5. PICK m : x.cke = <<m>> /\ KeyExchange12(k, m)
  BY <1>4
<1>6. IsSession(p.s) /\ Same(b, p.s, {"transcript"})
  BY <1>2 DEF ReadInv
<1>7. IsSession(u) /\ Same(p.s, u, {"transcript"})
  <2>1. u = transcript_update(p.s, m)
    BY <1>5, FewUpdates
  <2> QED
    BY <1>6, <2>1, UpdateFields
<1>8. /\ IsSession(d) /\ Same(u, d, {"base", "key", "client_seq", "server_seq"})
      /\ d.key = <<"tls12", d.base>> /\ d.client_seq = 0 /\ d.server_seq = 0
  <2>1. d = tls12_derive_keys(u, x.premaster)
    BY DEF Keyed12, p
  <2> HIDE DEF d, u
  <2> QED
    BY <1>7, <2>1, DerivedFields
<1>9. /\ IsSession(w) /\ Same(d, w, {"transcript"})
      /\ w.transcript = Append(d.transcript, <<d.suite.hash, Finished(d, "client")>>)
  <2> HIDE DEF d
  <2> QED
    BY <1>8, UpdateFields
<1>10. /\ IsSession(z) /\ Same(w, z, {"verified", "sig_alg"})
       /\ z.verified <=> cert # None /\ d.suite.kx \in {"ECDHE", "DHE"}
       /\ z.sig_alg = IF p.skx = None \/ p.skx.sig = None THEN None ELSE p.skx.sig.alg
  <2>1. z = [w EXCEPT !.verified = cert # None /\ d.suite.kx \in {"ECDHE", "DHE"},
                      !.sig_alg = IF p.skx = None \/ p.skx.sig = None THEN None
                                  ELSE p.skx.sig.alg]
    BY DEF Replied12, p
  <2> HIDE DEF z, w, d, cert
  <2> QED
    BY <1>9, <2>1 DEF IsSession, SessionFields, Same
<1> HIDE DEF u, d, w, z, x, cert
<1>11. Same(b, d, {"transcript", "base", "key", "client_seq", "server_seq"})
  BY <1>6, <1>7, <1>8 DEF Same
<1>12. Same(d, z, {"transcript", "verified", "sig_alg"})
  BY <1>9, <1>10 DEF Same
<1>13. /\ z.role = "client" /\ z.alpn = "" /\ z.suite = Suite12(k) /\ z.ems = TRUE
       /\ d.suite = Suite12(k)
  BY <1>3, <1>11, <1>12 DEF Same, SessionFields
<1>14. z.key = <<"tls12", z.base>> /\ z.client_seq = 0 /\ z.server_seq = 0 /\ z.base = d.base
  BY <1>8, <1>12 DEF Same, SessionFields
<1>15. Replying12(k, z)
  BY <1>4, <1>10, <1>13, <1>14 DEF Replying12, Signed
<1>16. Finished(d, "client") = [type |-> "finished", mac |-> <<"client", z.base, d.transcript>>]
  BY <1>14 DEF Finished
<1>17. z.transcript = Append(d.transcript, <<Suite12(k).hash, Finished(d, "client")>>)
  BY <1>9, <1>10, <1>13 DEF Same, SessionFields
<1> QED
  BY <1>1, <1>4, <1>14, <1>15, <1>16, <1>17

-----------------------------------------------------------------------------
(***************************************************************************)
(* The suites of TLS 1.2 and what its server makes of the answer.          *)
(***************************************************************************)
LEMMA TenElements ==
  ASSUME NEW U, NEW e1 \in U, NEW e2 \in U, NEW e3 \in U, NEW e4 \in U, NEW e5 \in U,
         NEW e6 \in U, NEW e7 \in U, NEW e8 \in U, NEW e9 \in U, NEW e10 \in U
  PROVE  <<e1, e2, e3, e4, e5, e6, e7, e8, e9, e10>> \in Seq(U)
OBVIOUS

LEMMA FifteenElements ==
  ASSUME NEW U, NEW e1 \in U, NEW e2 \in U, NEW e3 \in U, NEW e4 \in U, NEW e5 \in U,
         NEW e6 \in U, NEW e7 \in U, NEW e8 \in U, NEW e9 \in U, NEW e10 \in U,
         NEW e11 \in U, NEW e12 \in U, NEW e13 \in U, NEW e14 \in U, NEW e15 \in U
  PROVE  <<e1, e2, e3, e4, e5, e6, e7, e8, e9, e10, e11, e12, e13, e14, e15>> \in Seq(U)
OBVIOUS

\* The key exchanges of the suites a TLS 1.2 client lists.
LEMMA KeyExchanges ==
  ASSUME NEW s, NEW cs \in ToSet(tls12_client_suite_list(s))
  PROVE  cs.kx \in {"ECDHE", "DHE", "RSA", "PSK", "DHE_PSK"}
<1> DEFINE X == {"ECDHE", "DHE", "RSA", "PSK", "DHE_PSK"}
           A == {"ECDSA", "RSA", "PSK", "AES_256_GCM", "AES_128_GCM", "CHACHA20",
                 "AES_256_CBC", "AES_128_CBC", "SHA256", "SHA384"}
           U == [kx : X, auth : A, aead : A, hash : A]
           q == tls12_client_suite_list(s)
<1>1. \A auth, aead, hash \in A :
        /\ Ecdhe(auth, aead, hash) \in U /\ DheRsa(aead, hash) \in U /\ Rsa(aead, hash) \in U
        /\ Psk(aead, hash) \in U /\ DhePsk(aead, hash) \in U
  BY DEF Ecdhe, DheRsa, Rsa, Psk, DhePsk, Suite
<1>0. /\ "ECDSA" \in A /\ "RSA" \in A /\ "AES_256_GCM" \in A
      /\ "AES_128_GCM" \in A /\ "CHACHA20" \in A /\ "AES_256_CBC" \in A
      /\ "AES_128_CBC" \in A /\ "SHA256" \in A /\ "SHA384" \in A
  OBVIOUS
<1> HIDE DEF U, A
<1>2. tls12_client_suites \in Seq(U)
  BY <1>0, <1>1, FifteenElements, Zenon DEF tls12_client_suites
<1>3. tls12_psk_suites \in Seq(U)
  BY <1>0, <1>1, TenElements, Zenon DEF tls12_psk_suites
<1>4. q \in Seq(U)
  <2>1. \A a, z : a \in Seq(U) /\ z \in Seq(U) => a \o z \in Seq(U)
    OBVIOUS
  <2>2. <<>> \in Seq(U)
    OBVIOUS
  <2>3. (IF s.psk = None THEN <<>> ELSE tls12_psk_suites) \in Seq(U)
    BY <1>3, <2>2
  <2> QED
    BY <1>2, <2>1, <2>3, Zenon DEF tls12_client_suite_list
<1> HIDE DEF q
<1>5. cs \in U
  BY <1>4 DEF ToSet, q
<1> QED
  BY <1>5 DEF U

LEMMA Suite12Known ==
  ASSUME NEW k \in Configurations, k.client.ver = "1.2", Answer12(k).ok
  PROVE  Suite12(k).kx \in {"ECDHE", "DHE", "RSA", "PSK", "DHE_PSK"}
BY Negotiated12, KeyExchanges

\* The server's session before and after the ClientKeyExchange.
Answered12(k, s) ==
  /\ IsSession(s) /\ s.role = "server" /\ s.alpn = "" /\ s.suite = Suite12(k) /\ s.ems = TRUE
  /\ s.sni = Hello(k).sni
Keyed12Server(k, s) ==
  Answered12(k, s) /\ s.key = <<"tls12", s.base>>

LEMMA ServerKeys12 ==
  ASSUME NEW k, NEW s, Answered12(k, s), NEW m, NEW psks,
         Suite12(k).kx \in {"ECDHE", "DHE", "RSA", "PSK", "DHE_PSK"}
  PROVE  LET x == tls12_process_client_key_exchange(transcript_update(s, m), m, CertOf(k), psks)
         IN x.ok => /\ Keyed12Server(k, x.s) /\ x.s.client_seq = 0 /\ x.s.server_seq = 0
                    /\ Suite12(k).kx = "RSA" => m.enc.to = CertOf(k).key
<1> DEFINE u == transcript_update(s, m)
           known == SelectSeq(psks, LAMBDA e : e.id = m.identity)
           x == tls12_process_client_key_exchange(u, m, CertOf(k), psks)
           keys(y) == [ok |-> TRUE, s |-> tls12_derive_keys(u, y)]
           no == [ok |-> FALSE, s |-> u]
<1>0. IsSession(s) /\ s.suite = Suite12(k)
  BY Zenon DEF Answered12
<1>1. IsSession(u) /\ Same(s, u, {"transcript"}) /\ u.suite = Suite12(k)
  BY <1>0, UpdateFields DEF Same, SessionFields
<1> HIDE DEF u
<1>2. \/ x = no
      \/ /\ \E y : x = keys(y)
         /\ Suite12(k).kx = "RSA" => m.enc.to = CertOf(k).key
  <2> DEFINE secret == Ecdh(u.ks_priv, m.share)
  <2>1. CASE Suite12(k).kx \in {"ECDHE", "DHE"}
    <3>0. /\ ~tls12_is_psk(u.suite) /\ u.suite.kx \in {"ECDHE", "DHE"}
          /\ u.suite.kx # "DHE_PSK" /\ u.suite.kx # "PSK" /\ u.suite.kx # "RSA"
      BY <1>1, <2>1 DEF tls12_is_psk
    <3>1. x = keys(secret)
      BY <3>0 DEF tls12_process_client_key_exchange
    <3> HIDE DEF x, keys, secret
    <3> QED
      BY <2>1, <3>1
  <2>2. CASE Suite12(k).kx = "PSK"
    <3>1. tls12_is_psk(u.suite)
      BY <1>1, <2>2 DEF tls12_is_psk
    <3>2. \/ x = no
          \/ x = keys(tls12_psk_premaster(Head(known).value, <<>>))
      BY <1>1, <2>2, <3>1 DEF tls12_process_client_key_exchange
    <3> HIDE DEF x, keys, no
    <3> QED
      BY <2>2, <3>2
  <2>3. CASE Suite12(k).kx = "DHE_PSK"
    <3>1. tls12_is_psk(u.suite)
      BY <1>1, <2>3 DEF tls12_is_psk
    <3>2. \/ x = no
          \/ x = keys(tls12_psk_premaster(Head(known).value, secret))
      BY <1>1, <2>3, <3>1 DEF tls12_process_client_key_exchange
    <3> HIDE DEF x, keys, no, secret
    <3> QED
      BY <2>3, <3>2
  <2>4. CASE Suite12(k).kx = "RSA"
    <3>1. ~tls12_is_psk(u.suite)
      BY <1>1, <2>4 DEF tls12_is_psk
    <3>2. x = IF m.enc.to = CertOf(k).key THEN keys(<<"rsa", m.enc.pms>>) ELSE no
      BY <1>1, <2>4, <3>1 DEF tls12_process_client_key_exchange
    <3> HIDE DEF x, keys, no
    <3> QED
      BY <3>2
  <2> QED
    BY <2>1, <2>2, <2>3, <2>4
<1>3. ASSUME NEW y, x = keys(y)
      PROVE  Keyed12Server(k, x.s) /\ x.s.client_seq = 0 /\ x.s.server_seq = 0
  <2> DEFINE t == tls12_derive_keys(u, y)
  <2>1. x.s = t
    BY <1>3
  <2>2. /\ IsSession(t) /\ Same(u, t, {"base", "key", "client_seq", "server_seq"})
        /\ t.key = <<"tls12", t.base>> /\ t.client_seq = 0 /\ t.server_seq = 0
    BY <1>1, DerivedFields
  <2> HIDE DEF t, x
  <2>3. Same(s, t, {"transcript", "base", "key", "client_seq", "server_seq"})
    BY <1>1, <2>2 DEF Same
  <2> QED
    BY <2>1, <2>2, <2>3 DEF Keyed12Server, Answered12, Same, SessionFields
<1>4. ~no.ok
  OBVIOUS
<1> QED
  <2> HIDE DEF x, keys, no
  <2> SUFFICES ASSUME x.ok
               PROVE  /\ Keyed12Server(k, x.s) /\ x.s.client_seq = 0 /\ x.s.server_seq = 0
                      /\ Suite12(k).kx = "RSA" => m.enc.to = CertOf(k).key
    BY DEF x, u
  <2> QED
    BY <1>2, <1>3, <1>4

-----------------------------------------------------------------------------
(***************************************************************************)
(* The records of the server's flight.                                     *)
(***************************************************************************)
LEMMA Flat ==
  ASSUME NEW U, NEW ss \in Seq(Seq(U))
  PROVE  FlattenSeq(ss) \in Seq(U) /\ (Len(ss) = 1 => FlattenSeq(ss) = ss[1])
<1>1. FlattenSeq(ss) = Updates!FlattenSeq(ss)
  BY DEF FlattenSeq, Updates!FlattenSeq
<1> QED
  BY <1>1, Updates!Flattened

\* Framed, for any configuration.
FramedFor(k, recs) ==
  IF ~k.server.foreign \/ k.client.quic THEN recs
  ELSE FlattenSeq([i \in DOMAIN recs |->
           OneRecordEach(recs[i])
           \o (IF i = 1 /\ Len(recs) > 1 THEN <<Ccs>> ELSE <<>>)])

LEMMA OneEach ==
  ASSUME NEW U, NEW K, NEW r \in FlightRecords(U, K)
  PROVE  OneRecordEach(r) \in Seq(FlightRecords(U, K))
<1> DEFINE n == Len(r.msgs)
           f(i) == [r EXCEPT !.msgs = <<r.msgs[i]>>, !.seq = r.seq + i - 1]
<1>1. r.msgs \in Seq(U) /\ n \in Nat /\ DOMAIN r.msgs = 1 .. n
  BY DEF FlightRecords
<1>2. ASSUME NEW i \in 1 .. n PROVE f(i) \in FlightRecords(U, K)
  <2>1. r.msgs[i] \in U
    BY <1>1
  <2> DEFINE q == <<r.msgs[i]>>
  <2>2. q \in Seq(U) \ {<<>>}
    BY <2>1
  <2> HIDE DEF q
  <2>3. r.seq + i - 1 \in Nat
    BY <1>1 DEF FlightRecords
  <2> QED
    BY <2>2, <2>3 DEF FlightRecords, q
<1> HIDE DEF f, n
<1>3. [i \in 1 .. n |-> f(i)] \in Seq(FlightRecords(U, K))
  BY <1>1, <1>2
<1> QED
  BY <1>1, <1>3 DEF OneRecordEach, f

\* Cutting the flight into records keeps its messages and the keys.
LEMMA FramedType ==
  ASSUME NEW k, NEW U, NEW K, NEW recs \in Seq(FlightRecords(U, K))
  PROVE  FramedFor(k, recs) \in Seq(FlightRecords(U, K) \cup {Ccs})
<1> DEFINE R == FlightRecords(U, K) \cup {Ccs}
           extra(i) == IF i = 1 /\ Len(recs) > 1 THEN <<Ccs>> ELSE <<>>
           f(i) == OneRecordEach(recs[i]) \o extra(i)
           ss == [i \in DOMAIN recs |-> f(i)]
<1>1. ASSUME NEW i \in DOMAIN recs PROVE f(i) \in Seq(R)
  <2>1. recs[i] \in FlightRecords(U, K)
    OBVIOUS
  <2> DEFINE a == OneRecordEach(recs[i])
             b == extra(i)
  <2>2. a \in Seq(FlightRecords(U, K))
    BY <2>1, OneEach
  <2> HIDE DEF a
  <2>3. a \in Seq(R)
    BY <2>2
  <2>4. b \in Seq(R)
    <3>1. Ccs \in R
      OBVIOUS
    <3> HIDE DEF R
    <3>2. <<Ccs>> \in Seq(R) /\ <<>> \in Seq(R)
      BY <3>1
    <3> QED
      BY <3>2
  <2> HIDE DEF b, R
  <2> QED
    BY <2>3, <2>4 DEF a, b
<1>2. Len(recs) \in Nat /\ DOMAIN recs = 1 .. Len(recs)
  OBVIOUS
<1>3. recs \in Seq(R)
  OBVIOUS
<1> HIDE DEF R, f
<1>4. ss \in Seq(Seq(R))
  BY <1>1, <1>2
<1> HIDE DEF ss
<1>5. FlattenSeq(ss) \in Seq(R)
  BY <1>4, Flat
<1> QED
  BY <1>3, <1>5, Zenon DEF FramedFor, ss, f, R

\* The messages of the records, and where each comes from.
LEMMA MessagesFacts ==
  ASSUME NEW U, NEW K, NEW recs \in Seq(FlightRecords(U, K))
  PROVE  /\ Messages(recs) \in Seq(U)
         /\ \A m \in ToSet(Messages(recs)) : \E i \in DOMAIN recs : m \in ToSet(recs[i].msgs)
<1> DEFINE n == Len(recs)
           ss == [i \in DOMAIN recs |-> recs[i].msgs]
<1>1. n \in Nat /\ DOMAIN recs = 1 .. n /\ \A i \in 1 .. n : recs[i].msgs \in Seq(U)
  <2>1. \A i \in 1 .. n : recs[i] \in FlightRecords(U, K)
    OBVIOUS
  <2> QED
    BY <2>1 DEF FlightRecords
<1> HIDE DEF n
<1>2. ASSUME NEW V, \A i \in 1 .. n : recs[i].msgs \in Seq(V) PROVE Messages(recs) \in Seq(V)
  <2>1. ss \in Seq(Seq(V))
    BY <1>1, <1>2
  <2> HIDE DEF ss
  <2>2. FlattenSeq(ss) \in Seq(V)
    BY <2>1, Flat
  <2> QED
    BY <2>2 DEF Messages, ss
<1>3. ASSUME NEW m \in ToSet(Messages(recs)), \A i \in 1 .. n : m \notin ToSet(recs[i].msgs)
      PROVE  FALSE
  <2>1. \A q, x : q \in Seq(U) /\ x \notin ToSet(q) => q \in Seq(U \ {x})
    BY DEF ToSet
  <2>2. Messages(recs) \in Seq(U \ {m})
    BY <1>1, <1>2, <1>3, <2>1
  <2> QED
    BY <1>3, <2>2 DEF ToSet
<1> QED
  BY <1>1, <1>2, <1>3

Holds(r) == HelloDone \in ToSet(r.msgs)
OnlyLastHolds(q) == \A i \in DOMAIN q : Holds(q[i]) => i = Len(q)

Plain12(k) == FlightRecords(Msgs12(k) \cup {HelloDone}, {None})

\* The TLS 1.2 flight is in clear, and ends with ServerHelloDone.
LEMMA Out12 ==
  ASSUME NEW k, k.client.ver = "1.2"
  PROVE  LET out == FramedFor(k, <<Record("handshake", Flight12(k))>>)
         IN out \in Seq(Plain12(k) \cup {Ccs}) /\ OnlyLastHolds(out)
<1> DEFINE rec == Record("handshake", Flight12(k))
           recs == <<rec>>
           U == Msgs12(k) \cup {HelloDone}
           b == BeforeDone12(k)
           n == Len(Flight12(k))
<1>1. b \in Seq(Msgs12(k))
  BY Sent12Facts
<1>2. /\ Flight12(k) \in Seq(U) /\ n = Len(b) + 1
      /\ \A i \in 1 .. n : Flight12(k)[i] = HelloDone => i = n
  <2>1. Flight12(k) = b \o <<HelloDone>>
    BY DEF Flight12
  <2>2. \A i \in 1 .. Len(b) : b[i] # HelloDone
    BY <1>1, Types12
  <2> HIDE DEF b
  <2> DEFINE d == <<HelloDone>>
  <2>3. d \in Seq(U) /\ b \in Seq(U) /\ Len(d) = 1
    BY <1>1
  <2> HIDE DEF U, d
  <2>4. /\ b \o d \in Seq(U) /\ Len(b \o d) = Len(b) + 1
        /\ \A i \in 1 .. Len(b) + 1 : i <= Len(b) => (b \o d)[i] = b[i]
    <3>1. /\ b \o d \in Seq(U) /\ Len(b \o d) = Len(b) + Len(d)
          /\ \A i \in 1 .. Len(b) + Len(d) :
               (b \o d)[i] = IF i <= Len(b) THEN b[i] ELSE d[i - Len(b)]
      BY <2>3, ConcatProperties
    <3> QED
      BY <2>3, <3>1
  <2>5. Len(b) \in Nat
    BY <1>1
  <2> QED
    BY <2>1, <2>2, <2>4, <2>5 DEF d
<1>3. n \in Nat /\ DOMAIN Flight12(k) = 1 .. n /\ Flight12(k) # <<>>
  <2> HIDE DEF U
  <2>1. Len(b) \in Nat
    BY <1>1
  <2> QED
    BY <1>2, <2>1
<1>4. /\ rec \in Plain12(k) /\ rec.msgs = Flight12(k)
  BY <1>2, <1>3 DEF Record, Plain12, FlightRecords
<1>5. recs \in Seq(Plain12(k)) /\ Len(recs) = 1 /\ recs[1] = rec
  <2> HIDE DEF rec
  <2> QED
    BY <1>4
<1>6. FramedFor(k, recs) \in Seq(Plain12(k) \cup {Ccs})
  <2> HIDE DEF recs
  <2> QED
    BY <1>5, FramedType DEF Plain12
<1>7. FramedFor(k, recs) \in {recs, OneRecordEach(rec)}
  <2> DEFINE f(i) == OneRecordEach(recs[i])
                     \o (IF i = 1 /\ Len(recs) > 1 THEN <<Ccs>> ELSE <<>>)
             ss == [i \in DOMAIN recs |-> f(i)]
             P == Seq(Plain12(k))
  <2>1. OneRecordEach(rec) \in P
    BY <1>4, OneEach, Zenon DEF Plain12
  <2>2. f(1) = OneRecordEach(rec)
    <3> HIDE DEF recs, rec
    <3>1. f(1) = OneRecordEach(rec) \o <<>>
      BY <1>5
    <3> QED
      BY <2>1, <3>1
  <2> HIDE DEF f
  <2>3. DOMAIN recs = 1 .. 1
    OBVIOUS
  <2> HIDE DEF recs, P
  <2>4. ss \in Seq(P) /\ Len(ss) = 1 /\ ss[1] = OneRecordEach(rec)
    BY <2>1, <2>2, <2>3
  <2> HIDE DEF ss
  <2>5. FlattenSeq(ss) = OneRecordEach(rec)
    BY <2>4, Flat DEF P
  <2> QED
    BY <2>5, Zenon DEF FramedFor, ss, f
<1>8. OnlyLastHolds(recs)
  <2>1. DOMAIN recs = 1 .. 1
    OBVIOUS
  <2> HIDE DEF recs
  <2> QED
    BY <1>5, <2>1 DEF OnlyLastHolds
<1>9. OnlyLastHolds(OneRecordEach(rec))
  <2> DEFINE q == OneRecordEach(rec)
             m(i) == Flight12(k)[i]
  <2>1. DOMAIN q = 1 .. n /\ Len(q) = n /\ \A i \in 1 .. n : q[i].msgs = <<m(i)>>
    <3>1. DOMAIN rec.msgs = 1 .. n
      BY <1>3, <1>4
    <3> QED
      BY <1>3, <1>4, <3>1 DEF OneRecordEach, Record
  <2>2. \A x : ToSet(<<x>>) = {x}
    BY DEF ToSet
  <2> HIDE DEF q, rec, n
  <2>3. ASSUME NEW i \in 1 .. n, Holds(q[i]) PROVE i = n
    <3>1. HelloDone \in {m(i)}
      BY <2>1, <2>2, <2>3 DEF Holds
    <3> HIDE DEF m
    <3>2. m(i) = HelloDone
      BY <3>1
    <3> QED
      BY <1>2, <3>2 DEF m
  <2>4. OnlyLastHolds(q)
    BY <2>1, <2>3 DEF OnlyLastHolds
  <2> QED
    BY <2>4 DEF q
<1> QED
  BY <1>6, <1>7, <1>8, <1>9

\* The TLS 1.3 flight: ServerHello in clear, the rest under the server's key.
Keys13(k) == {None, <<Sent13(k).role, Sent13(k).key>>}

LEMMA Out13 ==
  ASSUME NEW k
  PROVE  FramedFor(k, Records13(k)) \in Seq(FlightRecords(Msgs13(k), Keys13(k)) \cup {Ccs})
<1> DEFINE M == Msgs13(k)
           F == FlightRecords(M, Keys13(k))
           a == <<EE13(k), Crt(k)>>
           d == CV13(k)
           f == <<SF13(k)>>
           h == <<SH13(k)>>
           ms == a \o d \o f
<1>1. a \in Seq(M) /\ f \in Seq(M) /\ h \in Seq(M) \ {<<>>} /\ Len(f) = 1
  <2>1. EE13(k) \in M /\ Crt(k) \in M /\ SF13(k) \in M /\ SH13(k) \in M
    BY DEF Msgs13
  <2> HIDE DEF M
  <2> QED
    BY <2>1
<1>2. d \in Seq(M)
  <2>1. d = <<>> \/ (\E x : d = <<x>>)
    BY DEF CV13, tls13_make_cert_verify
  <2>2. \A x : ToSet(<<x>>) = {x}
    BY DEF ToSet
  <2>3. ToSet(d) \subseteq M
    BY DEF Msgs13
  <2> HIDE DEF M, d
  <2>4. CASE d = <<>>
    BY <2>4
  <2>5. ASSUME NEW x, d = <<x>> PROVE d \in Seq(M)
    <3>1. x \in M
      BY <2>2, <2>3, <2>5
    <3> QED
      BY <2>5, <3>1
  <2> QED
    BY <2>1, <2>4, <2>5
<1> HIDE DEF a, d, f, h, M
<1>3. ms \in Seq(M) \ {<<>>} /\ h \o ms \in Seq(M) \ {<<>>}
  <2> DEFINE b == a \o d
  <2>1. b \in Seq(M)
    BY <1>1, <1>2
  <2> HIDE DEF b
  <2>2. b \o f \in Seq(M) /\ Len(b \o f) = Len(b) + Len(f)
    BY <1>1, <2>1, ConcatProperties
  <2> DEFINE e == b \o f
  <2> HIDE DEF e
  <2>3. e \in Seq(M) /\ e # <<>>
    BY <1>1, <2>1, <2>2 DEF e
  <2>4. h \o e \in Seq(M) /\ Len(h \o e) = Len(h) + Len(e)
    BY <1>1, <2>3, ConcatProperties
  <2> DEFINE w == h \o e
  <2> HIDE DEF w
  <2>5. w \in Seq(M) /\ w # <<>>
    BY <1>1, <2>3, <2>4 DEF w
  <2> QED
    BY <2>3, <2>5 DEF w, e, b
<1>4. Protected13(k) = ms
  BY DEF Protected13, a, d, f
<1> HIDE DEF ms
<1>5. ASSUME NEW q \in Seq(M) \ {<<>>} PROVE Record("handshake", q) \in F
  BY <1>5 DEF Record, FlightRecords, Keys13
<1>6. Protected(Sent13(k), "application_data", ms) \in F
  <2> DEFINE s == Sent13(k)
             p == Protected(s, "application_data", ms)
  <2>1. s.role = "server" /\ s.server_seq = 0
    <3>1. /\ s.server_seq = 0
          /\ Same(Selected13(k), s, {"transcript", "base", "key", "client_seq", "server_seq"})
      BY Sent13Facts, Zenon
    <3>2. Selected13(k).role = "server"
      BY Selected13Fields, Zenon
    <3> HIDE DEF s
    <3> QED
      BY <3>1, <3>2 DEF Same, SessionFields
  <2>2. RecordSeq(s, s.role) = 0
    BY <2>1 DEF RecordSeq
  <2>3. <<s.role, s.key>> \in Keys13(k)
    BY DEF Keys13
  <2> HIDE DEF s
  <2>4. p = [type |-> "application_data", msgs |-> ms, key |-> <<s.role, s.key>>, seq |-> 0]
    BY <2>2 DEF Protected
  <2> DEFINE key == <<s.role, s.key>>
  <2>5. p = [type |-> "application_data", msgs |-> ms, key |-> key, seq |-> 0]
        /\ key \in Keys13(k)
    BY <2>3, <2>4
  <2> HIDE DEF key, p
  <2>6. p \in F
    BY <1>3, <2>5 DEF FlightRecords
  <2> QED
    BY <2>6 DEF p, s
<1> HIDE DEF F
<1>7. Records13(k) \in Seq(F)
  <2> DEFINE x == Record("handshake", h \o ms)
             y == Record("handshake", h)
             z == Protected(Sent13(k), "application_data", ms)
  <2>1. x \in F /\ y \in F /\ z \in F
    BY <1>1, <1>3, <1>5, <1>6
  <2>2. Records13(k) = IF ServerStart(k).quic THEN <<x>> ELSE <<y, z>>
    BY <1>4 DEF Records13, h
  <2> HIDE DEF x, y, z
  <2> QED
    BY <2>1, <2>2
<1> QED
  BY <1>7, FramedType DEF F, M

-----------------------------------------------------------------------------
(***************************************************************************)
(* The Finished messages make the two sessions agree.                      *)
(***************************************************************************)
Agree(s, t) == s.key = t.key /\ s.base = t.base /\ s.suite = t.suite /\ s.ems = t.ems

LEMMA AdvanceFields ==
  ASSUME NEW s, NEW role, IsSession(s)
  PROVE  /\ IsSession(Advance(s, role)) /\ Same(s, Advance(s, role), {"client_seq", "server_seq"})
         /\ role = "client" => /\ Advance(s, role).client_seq = s.client_seq + 1
                               /\ Advance(s, role).server_seq = s.server_seq
         /\ role # "client" => /\ Advance(s, role).server_seq = s.server_seq + 1
                               /\ Advance(s, role).client_seq = s.client_seq
BY DEF Advance, IsSession, SessionFields, Same

LEMMA Agreed13 ==
  ASSUME NEW k, Accepts13(k), NEW s, NEW r, Done13(k, s), Replied13(s, r),
         tls13_process_client_finished(Answer13(k).s, r).ok
  PROVE  LET t == tls13_process_client_finished(Answer13(k).s, r).s
         IN /\ Agree(s, t) /\ s.alpn = t.alpn
            /\ s.client_seq = t.client_seq /\ s.server_seq = t.server_seq
<1> DEFINE a == Answer13(k).s
           u == IF a.quic THEN a ELSE Advance(a, "client")
           d == tls13_derive_application_keys(u)
           m == Head(r.msgs)
           w == transcript_update(d, m)
           z == [w EXCEPT !.finished = TRUE]
           x == tls13_process_client_finished(a, r)
<1>1. verify_finished(a, m, "client") /\ x.s = z
  <2>1. x = IF (a.quic \/ CanOpen(a, r)) /\ verify_finished(a, m, "client")
            THEN [ok |-> TRUE, s |-> z] ELSE [ok |-> FALSE, s |-> a]
    BY Zenon DEF tls13_process_client_finished
  <2> HIDE DEF z, a, m
  <2> QED
    BY <2>1 DEF a
<1>2. /\ IsSession(a) /\ a.suite = Suite13(k) /\ a.ems = FALSE /\ a.alpn = Selected13(k).alpn
  <2> DEFINE n == Sent13(k)
             e == Advance(n, "server")
  <2>1. IsSession(n) /\ Same(Selected13(k), n, {"transcript", "base", "key", "client_seq", "server_seq"})
    BY Sent13Facts, Zenon
  <2>2. Selected13(k).suite = Suite13(k) /\ Selected13(k).ems = FALSE
    BY Selected13Fields, Zenon
  <2>3. a = n \/ a = e
    BY Answer13Steps
  <2> HIDE DEF n
  <2>4. IsSession(e) /\ Same(n, e, {"client_seq", "server_seq"})
    BY <2>1, AdvanceFields
  <2> HIDE DEF e, a
  <2> QED
    BY <2>1, <2>2, <2>3, <2>4 DEF Same, SessionFields
<1> HIDE DEF a
<1>3. IsSession(u) /\ Same(a, u, {"client_seq", "server_seq"})
  <2>1. IsSession(Advance(a, "client")) /\ Same(a, Advance(a, "client"), {"client_seq", "server_seq"})
    BY <1>2, AdvanceFields
  <2> QED
    BY <1>2, <2>1 DEF Same
<1> HIDE DEF u
<1>4. /\ IsSession(d) /\ Same(u, d, {"key", "client_seq", "server_seq"})
      /\ d.key = <<"application", u.base, u.transcript>> /\ d.client_seq = 0 /\ d.server_seq = 0
  BY <1>3, NewKeyFields DEF tls13_derive_application_keys
<1> HIDE DEF d, m
<1>5. IsSession(w) /\ Same(d, w, {"transcript"})
  BY <1>4, UpdateFields
<1> HIDE DEF w
<1>6. IsSession(z) /\ Same(w, z, {"finished"})
  BY <1>5 DEF IsSession, SessionFields, Same
<1> HIDE DEF z
<1>7. /\ z.base = a.base /\ z.suite = Suite13(k) /\ z.ems = FALSE /\ z.alpn = Selected13(k).alpn
      /\ z.key = <<"application", a.base, a.transcript>> /\ z.client_seq = 0 /\ z.server_seq = 0
  BY <1>2, <1>3, <1>4, <1>5, <1>6 DEF Same, SessionFields
<1>8. s.key = <<"application", a.base, a.transcript>> /\ s.base = a.base
  <2>1. PICK t : /\ s.key = <<"application", s.base, t>>
                 /\ r.msgs = <<[type |-> "finished", mac |-> <<"client", s.base, t>>]>>
    BY DEF Replied13
  <2>2. m = [type |-> "finished", mac |-> <<"client", s.base, t>>]
    BY <2>1 DEF m
  <2>3. m = [type |-> "finished", mac |-> <<"client", a.base, a.transcript>>]
    BY <1>1 DEF verify_finished, Finished
  <2>4. <<"client", s.base, t>> = <<"client", a.base, a.transcript>>
    BY <2>2, <2>3
  <2>5. s.base = a.base /\ t = a.transcript
    BY <2>4
  <2> QED
    BY <2>1, <2>5
<1> QED
  BY <1>1, <1>7, <1>8 DEF a, Agree, Done13

\* The server's Finished record for a client whose session is s.
ServerFinished(s) ==
  [type |-> "handshake", msgs |-> <<Finished(s, "server")>>, key |-> <<"server", s.key>>,
   seq |-> 0]

\* The client's Finished in TLS 1.2: its session covers it.
Covered12(k, s, m) ==
  \E t : /\ m = [type |-> "finished", mac |-> <<"client", s.base, t>>]
         /\ s.transcript = Append(t, <<Suite12(k).hash, m>>)

LEMMA Agreed12 ==
  ASSUME NEW k, NEW s, NEW m, NEW a, Replying12(k, s), Covered12(k, s, m),
         Keyed12Server(k, a), a.client_seq = 0, a.server_seq = 0,
         verify_finished(a, m, "client")
  PROVE  LET u == transcript_update(Advance(a, "client"), m)
             z == [Advance(u, "server") EXCEPT !.finished = TRUE]
         IN /\ Protected(u, "handshake", <<Finished(u, "server")>>) = ServerFinished(s)
            /\ Agree(s, z) /\ z.alpn = s.alpn /\ z.client_seq = 1 /\ z.server_seq = 1
<1> DEFINE e == Advance(a, "client")
           u == transcript_update(e, m)
           y == Advance(u, "server")
           z == [y EXCEPT !.finished = TRUE]
<1>1. /\ IsSession(a) /\ a.role = "server" /\ a.alpn = s.alpn /\ a.suite = Suite12(k)
      /\ a.ems = TRUE /\ a.key = <<"tls12", a.base>>
      /\ s.suite = Suite12(k) /\ s.ems = TRUE /\ s.key = <<"tls12", s.base>>
  BY Zenon DEF Keyed12Server, Answered12, Replying12
<1>2. /\ IsSession(e) /\ Same(a, e, {"client_seq", "server_seq"})
      /\ e.client_seq = 1 /\ e.server_seq = 0
  <2>1. 0 + 1 = 1
    OBVIOUS
  <2> QED
    BY <1>1, <2>1, AdvanceFields
<1> HIDE DEF e
<1>3. /\ IsSession(u) /\ Same(e, u, {"transcript"})
      /\ u.transcript = Append(e.transcript, <<e.suite.hash, m>>)
  BY <1>2, UpdateFields
<1> HIDE DEF u
<1>4. /\ u.role = "server" /\ u.alpn = s.alpn /\ u.suite = Suite12(k) /\ u.ems = TRUE
      /\ u.key = a.key /\ u.base = a.base /\ u.client_seq = 1 /\ u.server_seq = 0
      /\ u.transcript = Append(a.transcript, <<Suite12(k).hash, m>>)
  BY <1>1, <1>2, <1>3 DEF Same, SessionFields
<1>5. PICK t : /\ m = [type |-> "finished", mac |-> <<"client", s.base, t>>]
               /\ s.transcript = Append(t, <<Suite12(k).hash, m>>)
  BY DEF Covered12
<1>6. s.base = a.base /\ t = a.transcript
  <2>1. m = [type |-> "finished", mac |-> <<"client", a.base, a.transcript>>]
    BY DEF verify_finished, Finished
  <2>2. <<"client", s.base, t>> = <<"client", a.base, a.transcript>>
    BY <1>5, <2>1
  <2> QED
    BY <2>2
<1>7. u.transcript = s.transcript /\ u.base = s.base /\ u.key = s.key
  BY <1>1, <1>4, <1>5, <1>6
<1>8. Protected(u, "handshake", <<Finished(u, "server")>>) = ServerFinished(s)
  <2>1. Finished(u, "server") = Finished(s, "server")
    BY <1>7 DEF Finished
  <2> QED
    BY <1>4, <1>7, <2>1 DEF Protected, ServerFinished, RecordSeq
<1>9. /\ IsSession(y) /\ Same(u, y, {"client_seq", "server_seq"})
      /\ y.client_seq = 1 /\ y.server_seq = 1
  <2>1. 0 + 1 = 1 /\ "server" # "client"
    OBVIOUS
  <2> QED
    BY <1>3, <1>4, <2>1, AdvanceFields
<1> HIDE DEF y
<1>10. IsSession(z) /\ Same(y, z, {"finished"})
  BY <1>9 DEF IsSession, SessionFields, Same
<1> HIDE DEF z
<1>11. /\ z.key = s.key /\ z.base = s.base /\ z.suite = s.suite /\ z.ems = s.ems
       /\ z.alpn = s.alpn /\ z.client_seq = 1 /\ z.server_seq = 1
  BY <1>1, <1>4, <1>7, <1>9, <1>10 DEF Same, SessionFields
<1> QED
  BY <1>8, <1>11 DEF Agree, z, y, u, e

\* A client that waits for the first record of the server can open it.
LEMMA OpensFinished12 ==
  ASSUME NEW s, s.role = "client", s.server_seq = 0
  PROVE  LET r == ServerFinished(s)
         IN CanOpen(s, r) /\ verify_finished(s, Head(r.msgs), "server")
<1> DEFINE m == Finished(s, "server")
           r == ServerFinished(s)
<1>1. r.key = <<"server", s.key>> /\ r.seq = 0 /\ r.msgs = <<m>>
  BY DEF ServerFinished
<1>2. m.type = "finished"
  BY DEF Finished
<1> HIDE DEF m, r
<1>3. Head(r.msgs) = m
  BY <1>1
<1>4. CanOpen(s, r)
  BY <1>1 DEF CanOpen, Opposite, RecordSeq
<1> QED
  BY <1>2, <1>3, <1>4 DEF verify_finished, m, r

-----------------------------------------------------------------------------
(***************************************************************************)
(* The inductive invariant, for the configuration k.                       *)
(***************************************************************************)
HelloRecord(k) == Record("handshake", <<Hello(k)>>)

\* What may be on its way to the client: nothing but alerts of a server that refused.
Flight13(k) == FlightRecords(Msgs13(k), Keys13(k))
Wire13(k) == IF Accepts13(k) THEN Flight13(k) \cup {Ccs, Alert} ELSE {Alert}
Wire12(k) == IF Answer12(k).ok THEN Plain12(k) \cup {Ccs, Alert} ELSE {Alert}

Beginning(k) ==
  /\ conf = k
  /\ DOMAIN c = {"s", "pc", "flight", "tried"} /\ DOMAIN v = {"s", "pc", "out"}
  /\ c.pc = "start" => v.pc = "hello" /\ c2s = <<>> /\ c.s = ClientStart(k)
  /\ c.pc \in {"flight12", "flight13"} => c.s = Waiting(k)
  /\ v.pc = "hello" =>
       /\ v.s = ServerStart(k) /\ v.out = <<>> /\ s2c = <<>> /\ c.flight = <<>>
       /\ c2s \in {<<>>, <<HelloRecord(k)>>}
       /\ c.pc \in {"start", "flight12", "flight13", "failed"}

Inv13(k) ==
  /\ c.pc \in {"start", "flight13", "done", "failed"}
  /\ v.pc \in {"hello", "finished13", "done", "failed"}
  /\ s2c \in Seq(Wire13(k)) /\ v.out \in Seq(Wire13(k)) /\ c.flight \in Seq(Flight13(k))
  /\ c.flight # <<>> => Accepts13(k)
  /\ v.pc = "finished13" => Accepts13(k) /\ v.s = Answer13(k).s
  /\ v.pc # "hello" /\ c.pc = "flight13" => c2s = <<>>
  /\ v.pc = "finished13" /\ c.pc = "failed" => c2s = <<>>
  /\ c.pc = "done" => Accepts13(k) /\ Done13(k, c.s)
  /\ v.pc = "finished13" /\ c.pc = "done" => \E r : c2s = <<r>> /\ Replied13(c.s, r)
  /\ v.pc = "done" =>
       /\ c.pc = "done" /\ Agree(c.s, v.s) /\ c.s.alpn = v.s.alpn
       /\ c.s.client_seq = v.s.client_seq /\ c.s.server_seq = v.s.server_seq

\* The client collects the flight: the record that ends it is the last of all.
Flying12(k) ==
  /\ c.flight \in Seq(Plain12(k)) /\ s2c \in Seq(Wire12(k)) /\ v.out \in Seq(Wire12(k))
  /\ OnlyLastHolds(v.out)
  /\ \A i \in DOMAIN s2c : Holds(s2c[i]) => i = Len(s2c) /\ v.out = <<>>
  /\ (\E i \in DOMAIN c.flight : Holds(c.flight[i])) => s2c = <<>> /\ v.out = <<>>
  /\ v.pc \in {"hello", "cke12", "failed"}
  /\ v.pc # "hello" => c2s = <<>>
  /\ v.pc = "failed" => s2c \in Seq({Alert}) /\ v.out \in Seq({Alert})

\* The record with the client's ClientKeyExchange, and the one with its Finished.
ExchangeRecord(k, r) ==
  r.type = "handshake" /\ \E m : r.msgs = <<m>> /\ KeyExchange12(k, m)
FinishedRecord(k, s, r) ==
  r.type = "handshake" /\ \E m : r.msgs = <<m>> /\ Covered12(k, s, m)

\* The client has answered; the server follows.
Exchanging12(k) ==
  /\ Answer12(k).ok /\ Replying12(k, c.s) /\ c.s.client_seq = 1
  /\ c.s.server_seq = IF c.pc = "done" THEN 1 ELSE 0
  /\ v.pc # "hello"
  /\ v.pc # "done" => c.pc = "ccs12" /\ s2c \in Seq({Alert}) /\ v.out \in Seq({Alert})
  /\ v.pc \in {"cke12", "swallow12", "ccs12", "finished12"} => s2c = <<>> /\ v.out = <<>>
  /\ v.pc = "cke12" =>
       \E x, f : /\ c2s = <<x, Ccs, f>> /\ ExchangeRecord(k, x)
                 /\ FinishedRecord(k, c.s, f)
  /\ v.pc = "ccs12" => \E f : c2s = <<Ccs, f>> /\ FinishedRecord(k, c.s, f)
  /\ v.pc = "finished12" => \E f : c2s = <<f>> /\ FinishedRecord(k, c.s, f)
  /\ v.pc \in {"ccs12", "finished12"} =>
       Keyed12Server(k, v.s) /\ v.s.client_seq = 0 /\ v.s.server_seq = 0
  /\ v.pc \in {"ccs12", "finished12", "done"} =>
       (Suite12(k).kx = "RSA" /\ ~k.client.skip /\ Compares(k)
          => Expected13(k).key = CertOf(k).key)
  /\ v.pc = "done" =>
       /\ Agree(c.s, v.s) /\ v.s.alpn = c.s.alpn
       /\ v.s.client_seq = 1 /\ v.s.server_seq = 1
       /\ c.pc = "ccs12" =>
            \/ s2c = <<>> /\ v.out = <<Ccs, ServerFinished(c.s)>>
            \/ s2c = <<Ccs>> /\ v.out = <<ServerFinished(c.s)>>
            \/ s2c = <<Ccs, ServerFinished(c.s)>> /\ v.out = <<>>
       /\ c.pc = "finished12" =>
            \/ s2c = <<>> /\ v.out = <<ServerFinished(c.s)>>
            \/ s2c = <<ServerFinished(c.s)>> /\ v.out = <<>>
       /\ c.pc = "done" => s2c = <<>> /\ v.out = <<>>

Inv12(k) ==
  /\ c.pc \in {"start", "flight12", "ccs12", "finished12", "done", "failed"}
  /\ v.pc \in {"hello", "cke12", "swallow12", "ccs12", "finished12", "done", "failed"}
  /\ v.pc = "cke12" => Answer12(k).ok /\ v.s = Sent12(k)
  /\ c.pc = "flight12" => Flying12(k)
  /\ c.pc \in {"ccs12", "finished12", "done"} => Exchanging12(k)
  /\ c.pc = "failed" =>
       /\ v.pc \notin {"ccs12", "finished12", "done"}
       /\ v.pc = "cke12" => c2s = <<>>

Versions(k) ==
  /\ k.client.ver = "1.2" => Inv12(k)
  /\ k.client.ver # "1.2" => Inv13(k)

Inv(k) == Beginning(k) /\ Versions(k)
IInv == \E k \in Configurations : Inv(k)

LEMMA InitInv ==
  ASSUME NEW k \in Configurations, Init, conf = k
  PROVE  Inv(k)
<1>1. /\ c.pc = "start" /\ c.flight = <<>> /\ c.s = ClientStart(k)
      /\ v.pc = "hello" /\ v.out = <<>> /\ v.s = ServerStart(k)
      /\ c2s = <<>> /\ s2c = <<>>
      /\ DOMAIN c = {"s", "pc", "flight", "tried"} /\ DOMAIN v = {"s", "pc", "out"}
  BY DEF Init, ClientStart, ServerStart
<1>2. Beginning(k)
  BY <1>1 DEF Beginning
<1>3. Inv12(k)
  BY <1>1 DEF Inv12
<1>4. Inv13(k)
  BY <1>1 DEF Inv13
<1> QED
  BY <1>2, <1>3, <1>4 DEF Inv, Versions

LEMMA Empty == (\A S : <<>> \in Seq(S)) /\ DOMAIN <<>> = {}
OBVIOUS

LEMMA SendHelloInv ==
  ASSUME NEW k \in Configurations, Inv(k), SendHello
  PROVE  Inv(k)'
<1>1. /\ conf = k /\ c.pc = "start" /\ v.pc = "hello" /\ c2s = <<>> /\ c.s = ClientStart(k)
      /\ v.s = ServerStart(k) /\ v.out = <<>> /\ s2c = <<>> /\ c.flight = <<>>
      /\ DOMAIN c = {"s", "pc", "flight", "tried"} /\ DOMAIN v = {"s", "pc", "out"}
  BY DEF Inv, Beginning, SendHello
<1>2. /\ c' = [c EXCEPT !.s = Waiting(k),
                        !.pc = IF k.client.ver = "1.2" THEN "flight12" ELSE "flight13"]
      /\ c2s' = Append(c2s, Record("handshake", <<Hello(k)>>))
      /\ UNCHANGED <<conf, v, s2c>>
  BY <1>1, Zenon DEF SendHello, HelloStep, Hello, Waiting, tls_router_client_use_tls12
<1>3. /\ c'.s = Waiting(k) /\ c'.flight = <<>> /\ DOMAIN c' = {"s", "pc", "flight", "tried"}
      /\ c'.pc = IF k.client.ver = "1.2" THEN "flight12" ELSE "flight13"
      /\ c2s' = <<HelloRecord(k)>>
      /\ conf' = conf /\ v' = v /\ s2c' = s2c
  BY <1>1, <1>2 DEF HelloRecord
<1>4. Beginning(k)'
  BY <1>1, <1>3 DEF Beginning
<1>5. ASSUME k.client.ver = "1.2" PROVE Inv12(k)'
  <2>1. Flying12(k)'
    BY <1>1, <1>3, Empty DEF Flying12, OnlyLastHolds
  <2> QED
    BY <1>1, <1>3, <1>5, <2>1 DEF Inv12
<1>6. ASSUME k.client.ver # "1.2" PROVE Inv13(k)'
  <2>1. v'.out \in Seq(Wire13(k)') /\ s2c' \in Seq(Wire13(k)') /\ c'.flight \in Seq(Flight13(k)')
    BY <1>1, <1>3, Empty
  <2> QED
    BY <1>1, <1>3, <1>6, <2>1 DEF Inv13
<1> QED
  BY <1>4, <1>5, <1>6 DEF Inv, Versions

LEMMA Kinds ==
  /\ Alert.type = "alert" /\ Ccs.type = "change_cipher_spec" /\ ~Holds(Alert) /\ ~Holds(Ccs)
  /\ \A U, K : \A r \in FlightRecords(U, K) : r.type \in {"handshake", "application_data"}
BY DEF Alert, Ccs, Record, FlightRecords, Holds, ToSet

LEMMA CFailFacts ==
  ASSUME DOMAIN c = {"s", "pc", "flight", "tried"}, CFail
  PROVE  c'.pc = "failed" /\ c'.flight = c.flight /\ DOMAIN c' = DOMAIN c
BY DEF CFail

LEMMA VFailFacts ==
  ASSUME DOMAIN v = {"s", "pc", "out"}, VFail
  PROVE  v'.pc = "failed" /\ v'.out \in Seq({Alert}) /\ DOMAIN v' = DOMAIN v
<1>1. <<>> \in Seq({Alert}) /\ <<Alert>> \in Seq({Alert})
  OBVIOUS
<1> QED
  BY <1>1 DEF VFail

LEMMA ReadFlight13Inv ==
  ASSUME NEW k \in Configurations, Inv(k), ReadFlight13
  PROVE  Inv(k)'
<1> DEFINE r == Head(s2c)
<1>1. /\ c.pc = "flight13" /\ s2c # <<>> /\ s2c' = Tail(s2c)
      /\ conf' = conf /\ v' = v /\ c2s' = c2s
      /\ \/ r.type = "alert" /\ CFail
         \/ r.type = "change_cipher_spec" /\ c' = [c EXCEPT !.tried = FALSE]
         \/ /\ r.type \notin {"alert", "change_cipher_spec"}
            /\ c' = [c EXCEPT !.flight = Append(@, r), !.tried = FALSE]
  BY DEF ReadFlight13
<1>2. k.client.ver # "1.2" /\ Beginning(k) /\ Inv13(k)
  BY <1>1 DEF Inv, Versions, Inv12
<1>3. v.pc # "hello" /\ c2s = <<>> /\ c.s = Waiting(k)
  BY <1>1, <1>2 DEF Beginning, Inv13
<1>4. r \in Wire13(k) /\ s2c' \in Seq(Wire13(k))
  BY <1>1, <1>2 DEF Inv13
<1>5. /\ DOMAIN c' = DOMAIN c
      /\ \/ c'.pc = "failed" /\ c'.flight = c.flight
         \/ c'.pc = "flight13" /\ c'.s = c.s /\ c'.flight = c.flight
         \/ /\ c'.pc = "flight13" /\ c'.s = c.s /\ c'.flight = Append(c.flight, r)
            /\ r.type \notin {"alert", "change_cipher_spec"}
  BY <1>1, <1>2, CFailFacts DEF Beginning
<1>6. c'.flight \in Seq(Flight13(k)) /\ (c'.flight # <<>> => Accepts13(k))
  <2>1. c.flight \in Seq(Flight13(k)) /\ (c.flight # <<>> => Accepts13(k))
    BY <1>2 DEF Inv13
  <2>2. r.type \notin {"alert", "change_cipher_spec"} => r \in Flight13(k) /\ Accepts13(k)
    BY <1>4, Kinds DEF Wire13
  <2> HIDE DEF r
  <2> QED
    BY <1>5, <2>1, <2>2
<1>7. Beginning(k)'
  BY <1>1, <1>2, <1>3, <1>5 DEF Beginning
<1>8. Inv13(k)'
  BY <1>1, <1>2, <1>3, <1>4, <1>5, <1>6 DEF Inv13
<1> QED
  BY <1>2, <1>7, <1>8 DEF Inv, Versions

LEMMA TryFlight13Inv ==
  ASSUME NEW k \in Configurations, Inv(k), TryFlight13
  PROVE  Inv(k)'
<1> DEFINE x == Result13(k, c.flight)
<1>1. c.pc = "flight13" /\ c.flight # <<>> /\ conf' = conf /\ v' = v /\ s2c' = s2c
  BY DEF TryFlight13, GotServerHello
<1>2. k.client.ver # "1.2" /\ Beginning(k) /\ Inv13(k)
  BY <1>1 DEF Inv, Versions, Inv12
<1>3. /\ v.pc # "hello" /\ c2s = <<>> /\ c.s = Waiting(k) /\ conf = k /\ Accepts13(k)
      /\ c.flight \in Seq(Flight13(k)) /\ DOMAIN c = {"s", "pc", "flight", "tried"}
  BY <1>1, <1>2 DEF Beginning, Inv13
<1>4. Trial = x
  BY <1>3, Zenon DEF Trial, Trust, Result13
<1>5. \/ /\ x.ok /\ x.s.finished /\ c2s' = Append(c2s, x.rec)
         /\ c' = [c EXCEPT !.s = x.s, !.pc = "done"]
      \/ c' = [c EXCEPT !.tried = TRUE] /\ c2s' = c2s
  BY <1>4, Zenon DEF TryFlight13
<1> HIDE DEF x
<1>6. CASE x.ok /\ x.s.finished /\ c2s' = Append(c2s, x.rec) /\ c' = [c EXCEPT !.s = x.s, !.pc = "done"]
  <2>1. Done13(k, x.s) /\ Replied13(x.s, x.rec)
    BY <1>1, <1>3, <1>6, Finished13 DEF x, Flight13
  <2>2. /\ c'.s = x.s /\ c'.pc = "done" /\ c'.flight = c.flight /\ DOMAIN c' = DOMAIN c
        /\ c2s' = <<x.rec>>
    BY <1>3, <1>6
  <2>3. Beginning(k)'
    BY <1>1, <1>2, <1>3, <2>2 DEF Beginning
  <2>4. Inv13(k)'
    BY <1>1, <1>2, <1>3, <2>1, <2>2 DEF Inv13
  <2> QED
    BY <1>2, <2>3, <2>4 DEF Inv, Versions
<1>7. CASE c' = [c EXCEPT !.tried = TRUE] /\ c2s' = c2s
  <2>1. c'.s = c.s /\ c'.pc = c.pc /\ c'.flight = c.flight /\ DOMAIN c' = DOMAIN c
    BY <1>3, <1>7
  <2>2. Beginning(k)'
    BY <1>1, <1>2, <1>7, <2>1 DEF Beginning
  <2>3. Inv13(k)'
    BY <1>1, <1>2, <1>7, <2>1 DEF Inv13
  <2> QED
    BY <1>2, <2>2, <2>3 DEF Inv, Versions
<1> QED
  BY <1>5, <1>6, <1>7

LEMMA GiveUp13Inv ==
  ASSUME NEW k \in Configurations, Inv(k), GiveUp13
  PROVE  Inv(k)'
<1>1. /\ c.pc = "flight13" /\ conf' = conf /\ v' = v /\ c2s' = c2s /\ s2c' = s2c
      /\ CFail
  BY DEF GiveUp13
<1>2. k.client.ver # "1.2" /\ Beginning(k) /\ Inv13(k)
  BY <1>1 DEF Inv, Versions, Inv12
<1>3. c'.pc = "failed" /\ c'.flight = c.flight /\ DOMAIN c' = DOMAIN c
  BY <1>1, <1>2, CFailFacts DEF Beginning
<1>4. Beginning(k)'
  BY <1>1, <1>2, <1>3 DEF Beginning
<1>5. Inv13(k)'
  BY <1>1, <1>2, <1>3 DEF Inv13
<1> QED
  BY <1>2, <1>4, <1>5 DEF Inv, Versions

LEMMA ReadHelloInv ==
  ASSUME NEW k \in Configurations, Inv(k), ReadHello
  PROVE  Inv(k)'
<1> DEFINE old == k.client.ver = "1.2"
           out13 == FramedFor(k, Records13(k))
           out12 == FramedFor(k, <<Record("handshake", Flight12(k))>>)
<1>1. /\ v.pc = "hello" /\ c2s # <<>> /\ conf' = conf /\ c' = c /\ s2c' = s2c /\ c2s' = Tail(c2s)
  BY DEF ReadHello
<1>2. Beginning(k) /\ (old => Inv12(k)) /\ (~old => Inv13(k))
  BY DEF Inv, Versions
<1>3. /\ conf = k /\ v.s = ServerStart(k) /\ v.out = <<>> /\ s2c = <<>> /\ c.flight = <<>>
      /\ c2s = <<HelloRecord(k)>> /\ c.pc \in {"flight12", "flight13", "failed"}
      /\ DOMAIN v = {"s", "pc", "out"}
  BY <1>1, <1>2 DEF Beginning
<1>4. Head(Head(c2s).msgs) = Hello(k) /\ c2s' = <<>>
  BY <1>1, <1>3 DEF HelloRecord, Record
<1>5. \A recs : Framed(recs) = FramedFor(k, recs)
  BY <1>3, Zenon DEF Framed, FramedFor
<1>6. \/ "1.3" \in Hello(k).versions /\ Answer13(k).ok
         /\ v' = [v EXCEPT !.s = Answer13(k).s, !.pc = "finished13",
                           !.out = Framed(Answer13(k).recs)]
      \/ "1.3" \notin Hello(k).versions /\ Answer12(k).ok
         /\ v' = [v EXCEPT !.s = Answer12(k).s, !.pc = "cke12",
                           !.out = Framed(<<Record("handshake", Answer12(k).msgs)>>)]
      \/ VFail
  <2> DEFINE ch == Head(Head(c2s).msgs)
             f13 == tls13_make_server_flight(v.s, ch, conf.server.manager)
             f12 == tls12_make_server_hello_flight(v.s, ch, conf.server.manager,
                      conf.server.psks, conf.server.enabled)
  <2>1. \/ tls_router_server_supports_tls13(ch) /\ f13.ok
           /\ v' = [v EXCEPT !.s = f13.s, !.pc = "finished13", !.out = Framed(f13.recs)]
        \/ ~tls_router_server_supports_tls13(ch) /\ f12.ok
           /\ v' = [v EXCEPT !.s = f12.s, !.pc = "cke12",
                             !.out = Framed(<<Record("handshake", f12.msgs)>>)]
        \/ VFail
    BY DEF ReadHello
  <2>2. ch = Hello(k)
    BY <1>4
  <2> HIDE DEF ch
  <2>3. f13 = Answer13(k) /\ f12 = Answer12(k)
    BY <2>2, <1>3 DEF Answer13, Answer12
  <2> HIDE DEF f13, f12
  <2> QED
    BY <2>1, <2>2, <2>3, Zenon DEF tls_router_server_supports_tls13
<1>7. (old => Hello(k).versions = {"1.2"}) /\ (~old => Hello(k).versions = {"1.3"})
  BY HelloFields
<1>8. /\ DOMAIN v' = DOMAIN v
      /\ \/ /\ ~old /\ Accepts13(k) /\ v'.pc = "finished13" /\ v'.s = Answer13(k).s
            /\ v'.out = out13
         \/ old /\ Answer12(k).ok /\ v'.pc = "cke12" /\ v'.s = Sent12(k) /\ v'.out = out12
         \/ v'.pc = "failed" /\ v'.out \in Seq({Alert})
  <2> HIDE DEF old, out13, out12
  <2>1. CASE VFail
    BY <2>1, <1>3, VFailFacts
  <2>2. CASE "1.3" \in Hello(k).versions /\ Answer13(k).ok
             /\ v' = [v EXCEPT !.s = Answer13(k).s, !.pc = "finished13",
                               !.out = Framed(Answer13(k).recs)]
    <3>1. ~old /\ Accepts13(k) /\ Answer13(k).recs = Records13(k)
      BY <2>2, <1>7, Answer13Steps
    <3>2. Framed(Answer13(k).recs) = out13
      BY <3>1, <1>5 DEF out13
    <3> QED
      BY <2>2, <3>1, <3>2, <1>3
  <2>3. CASE "1.3" \notin Hello(k).versions /\ Answer12(k).ok
             /\ v' = [v EXCEPT !.s = Answer12(k).s, !.pc = "cke12",
                               !.out = Framed(<<Record("handshake", Answer12(k).msgs)>>)]
    <3>1. old /\ Answer12(k).s = Sent12(k) /\ Answer12(k).msgs = Flight12(k)
      BY <2>3, <1>7, Answer12Steps
    <3>2. Framed(<<Record("handshake", Answer12(k).msgs)>>) = out12
      BY <3>1, <1>5 DEF out12
    <3> QED
      BY <2>3, <3>1, <3>2, <1>3
  <2> QED
    BY <1>6, <2>1, <2>2, <2>3
<1>9. Beginning(k)'
  BY <1>1, <1>2, <1>3, <1>8 DEF Beginning
<1>10. ASSUME ~old PROVE Inv13(k)'
  <2>1. out13 \in Seq(Flight13(k) \cup {Ccs})
    BY Out13 DEF Flight13
  <2>2. v'.out \in Seq(Wire13(k))
    <3> HIDE DEF out13
    <3>1. Accepts13(k) => out13 \in Seq(Wire13(k))
      BY <2>1 DEF Wire13
    <3>2. v'.out \in Seq({Alert}) => v'.out \in Seq(Wire13(k))
      BY DEF Wire13
    <3> QED
      BY <1>8, <1>10, <3>1, <3>2
  <2> QED
    BY <1>1, <1>2, <1>3, <1>4, <1>8, <1>10, <2>2 DEF Inv13
<1>11. ASSUME old PROVE Inv12(k)'
  <2>1. out12 \in Seq(Plain12(k) \cup {Ccs}) /\ OnlyLastHolds(out12)
    BY <1>11, Out12
  <2>2. v'.out \in Seq(Wire12(k)) /\ OnlyLastHolds(v'.out)
    <3> HIDE DEF out12
    <3>1. Answer12(k).ok => out12 \in Seq(Wire12(k))
      BY <2>1 DEF Wire12
    <3>2. v'.out \in Seq({Alert}) => v'.out \in Seq(Wire12(k)) /\ OnlyLastHolds(v'.out)
      BY Kinds DEF Wire12, OnlyLastHolds
    <3> QED
      BY <1>8, <1>11, <2>1, <3>1, <3>2
  <2>3. Flying12(k)'
    BY <1>1, <1>3, <1>4, <1>8, <1>11, <2>2, Empty DEF Flying12
  <2> QED
    BY <1>1, <1>2, <1>3, <1>4, <1>8, <1>11, <2>3 DEF Inv12
<1> QED
  BY <1>9, <1>10, <1>11 DEF Inv, Versions

\* The head of a sequence and the rest.
LEMMA HeadTail ==
  ASSUME NEW S, NEW q \in Seq(S), q # <<>>
  PROVE  /\ Head(q) \in S /\ Tail(q) \in Seq(S) /\ Head(q) = q[1] /\ 1 \in DOMAIN q
         /\ Len(Tail(q)) = Len(q) - 1 /\ Len(q) \in Nat
         /\ \A i \in DOMAIN Tail(q) : i + 1 \in DOMAIN q /\ Tail(q)[i] = q[i + 1]
         /\ Len(q) = 1 => Tail(q) = <<>>
<1> DEFINE t == Tail(q)
<1>1. t \in Seq(S) /\ Len(t) = Len(q) - 1 /\ Len(q) \in Nat
  OBVIOUS
<1> HIDE DEF t
<1>2. t # <<>> => Len(t) \in Nat \ {0}
  BY <1>1, EmptySeq
<1>3. Len(q) = 1 => t = <<>>
  BY <1>1, <1>2
<1> QED
  BY <1>3 DEF t

\* What Append, Head and Tail make of one and of two records.
LEMMA ShortQueues ==
  \A x, y : /\ Append(<<>>, x) = <<x>> /\ Append(<<x>>, y) = <<x, y>>
           /\ Head(<<x>>) = x /\ Tail(<<x>>) = <<>>
           /\ Head(<<x, y>>) = x /\ Tail(<<x, y>>) = <<y>>
<1> SUFFICES ASSUME NEW x, NEW y
             PROVE  /\ Append(<<>>, x) = <<x>> /\ Append(<<x>>, y) = <<x, y>>
                    /\ Head(<<x>>) = x /\ Tail(<<x>>) = <<>>
                    /\ Head(<<x, y>>) = x /\ Tail(<<x, y>>) = <<y>>
  OBVIOUS
<1>1. Append(<<>>, x) = <<x>>
  OBVIOUS
<1>2. Append(<<x>>, y) = <<x, y>>
  <2> DEFINE a == <<x>>
             q == <<x, y>>
             S == {x, y}
             z == Append(a, y)
  <2>1. /\ a \in Seq(S) /\ q \in Seq(S) /\ y \in S /\ Len(a) = 1 /\ a[1] = x
        /\ Len(q) = 2 /\ q[1] = x /\ q[2] = y
    OBVIOUS
  <2> HIDE DEF a, q, S
  <2>2. z \in Seq(S) /\ Len(z) = 2 /\ z[1] = x /\ z[2] = y
    <3>1. Grown(a, z, y)
      BY <2>1, AppendAny DEF IsSeq
    <3>2. z \in Seq(S)
      BY <2>1
    <3> HIDE DEF z
    <3> QED
      BY <2>1, <3>1, <3>2 DEF Grown
  <2> HIDE DEF z
  <2>3. \A i \in 1 .. Len(z) : z[i] = q[i]
    BY <2>1, <2>2
  <2>4. z = q
    BY <2>1, <2>2, <2>3, SeqEqual
  <2> QED
    BY <2>4 DEF z, a, q
<1>3. Head(<<x>>) = x /\ Head(<<x, y>>) = x
  OBVIOUS
<1>4. Tail(<<x>>) = <<>>
  OBVIOUS
<1>5. Tail(<<x, y>>) = <<y>>
  <2> DEFINE q == <<x, y>>
             t == <<y>>
             S == {x, y}
             z == Tail(q)
  <2>1. q \in Seq(S) /\ t \in Seq(S) /\ Len(q) = 2 /\ Len(t) = 1 /\ q[2] = y /\ t[1] = y
    OBVIOUS
  <2> HIDE DEF q, t, S
  <2>2. z \in Seq(S) /\ Len(z) = 1 /\ z[1] = q[2]
    BY <2>1
  <2> HIDE DEF z
  <2>3. \A i \in 1 .. Len(z) : z[i] = t[i]
    BY <2>1, <2>2
  <2>4. z = t
    BY <2>1, <2>2, <2>3, SeqEqual
  <2> QED
    BY <2>4 DEF z, q, t
<1> QED
  BY <1>1, <1>2, <1>3, <1>4, <1>5

LEMMA ServerWriteInv ==
  ASSUME NEW k \in Configurations, Inv(k), ServerWrite
  PROVE  Inv(k)'
<1> DEFINE old == k.client.ver = "1.2"
           r == Head(v.out)
<1>1. /\ v.out # <<>> /\ v' = [v EXCEPT !.out = Tail(@)] /\ s2c' = Append(s2c, r)
      /\ conf' = conf /\ c' = c /\ c2s' = c2s
  BY DEF ServerWrite
<1>2. Beginning(k) /\ (old => Inv12(k)) /\ (~old => Inv13(k))
  BY DEF Inv, Versions
<1>3. /\ v.pc # "hello" /\ DOMAIN v' = DOMAIN v /\ v'.pc = v.pc /\ v'.s = v.s
      /\ v'.out = Tail(v.out)
  BY <1>1, <1>2 DEF Beginning
<1>4. Beginning(k)'
  BY <1>1, <1>2, <1>3 DEF Beginning
<1>5. ASSUME NEW S, v.out \in Seq(S), s2c \in Seq(S)
      PROVE  v'.out \in Seq(S) /\ s2c' \in Seq(S)
  BY <1>1, <1>3, <1>5, HeadTail
<1>6. ASSUME ~old PROVE Inv13(k)'
  <2>1. v'.out \in Seq(Wire13(k)) /\ s2c' \in Seq(Wire13(k))
    BY <1>2, <1>5, <1>6 DEF Inv13
  <2> QED
    BY <1>1, <1>2, <1>3, <1>6, <2>1 DEF Inv13
<1>7. ASSUME Flying12(k) PROVE Flying12(k)'
  <2>1. v'.out \in Seq(Wire12(k)) /\ s2c' \in Seq(Wire12(k))
    BY <1>5, <1>7 DEF Flying12
  <2>2. v.pc = "failed" => v'.out \in Seq({Alert}) /\ s2c' \in Seq({Alert})
    BY <1>5, <1>7 DEF Flying12
  <2>3. /\ v.out \in Seq(Wire12(k)) /\ OnlyLastHolds(v.out) /\ s2c \in Seq(Wire12(k))
        /\ \A i \in DOMAIN s2c : ~Holds(s2c[i])
        /\ \A i \in DOMAIN c.flight : ~Holds(c.flight[i])
    BY <1>1, <1>7 DEF Flying12
  <2>4. OnlyLastHolds(v'.out)
    <3> DEFINE q == v.out
    <3>1. /\ Len(Tail(q)) = Len(q) - 1 /\ Len(q) \in Nat
          /\ \A i \in DOMAIN Tail(q) : i \in Nat /\ i + 1 \in DOMAIN q /\ Tail(q)[i] = q[i + 1]
      BY <1>1, <2>3, HeadTail
    <3> QED
      BY <1>3, <2>3, <3>1 DEF OnlyLastHolds
  <2>5. Holds(r) => v'.out = <<>>
    <3>1. r = v.out[1] /\ 1 \in DOMAIN v.out /\ (Len(v.out) = 1 => Tail(v.out) = <<>>)
      BY <1>1, <2>3, HeadTail
    <3>2. Holds(r) => Len(v.out) = 1
      BY <2>3, <3>1 DEF OnlyLastHolds
    <3> QED
      BY <1>3, <3>1, <3>2
  <2>6. \A i \in DOMAIN s2c' : Holds(s2c'[i]) => i = Len(s2c') /\ v'.out = <<>>
    <3> HIDE DEF r
    <3>1. \A i \in DOMAIN s2c' : IF i = Len(s2c') THEN s2c'[i] = r
                                 ELSE i \in DOMAIN s2c /\ s2c'[i] = s2c[i]
      BY <1>1, <2>3
    <3> QED
      BY <2>3, <2>5, <3>1
  <2> QED
    BY <1>1, <1>3, <1>7, <2>1, <2>2, <2>3, <2>4, <2>6 DEF Flying12
<1>8. ASSUME Exchanging12(k) PROVE Exchanging12(k)'
  <2>1. v.pc \in {"failed", "done"} \/ v.pc \notin {"cke12", "swallow12", "ccs12", "finished12"}
    BY <1>1, <1>8 DEF Exchanging12
  <2>2. CASE v.pc # "done"
    <3>1. v'.out \in Seq({Alert}) /\ s2c' \in Seq({Alert})
      BY <1>5, <1>8, <2>2 DEF Exchanging12
    <3> QED
      BY <1>1, <1>3, <1>8, <2>1, <2>2, <3>1 DEF Exchanging12
  <2>3. CASE v.pc = "done"
    <3> DEFINE sf == ServerFinished(c.s)
    <3>1. c.pc # "done"
      BY <1>1, <1>8, <2>3 DEF Exchanging12
    <3>2. c.pc = "ccs12" =>
             \/ s2c' = <<Ccs>> /\ v'.out = <<sf>>
             \/ s2c' = <<Ccs, sf>> /\ v'.out = <<>>
      <4>1. c.pc = "ccs12" =>
             \/ s2c = <<>> /\ v.out = <<Ccs, sf>>
             \/ s2c = <<Ccs>> /\ v.out = <<sf>>
        BY <1>1, <1>8, <2>3 DEF Exchanging12
      <4> HIDE DEF sf
      <4> QED
        BY <4>1, ShortQueues, <1>1, <1>3
    <3>3. c.pc = "finished12" => s2c' = <<sf>> /\ v'.out = <<>>
      <4>1. c.pc = "finished12" => s2c = <<>> /\ v.out = <<sf>>
        BY <1>1, <1>8, <2>3 DEF Exchanging12
      <4> HIDE DEF sf
      <4> QED
        BY <4>1, ShortQueues, <1>1, <1>3
    <3> QED
      BY <1>1, <1>3, <1>8, <2>3, <3>1, <3>2, <3>3 DEF Exchanging12
  <2> QED
    BY <2>2, <2>3
<1>9. ASSUME old PROVE Inv12(k)'
  BY <1>1, <1>2, <1>3, <1>7, <1>8, <1>9 DEF Inv12
<1> QED
  BY <1>4, <1>6, <1>9 DEF Inv, Versions

LEMMA ReadClientFinished13Inv ==
  ASSUME NEW k \in Configurations, Inv(k), ReadClientFinished13
  PROVE  Inv(k)'
<1>1. /\ v.pc = "finished13" /\ c2s # <<>>
      /\ conf' = conf /\ c' = c /\ s2c' = s2c /\ c2s' = Tail(c2s)
  BY DEF ReadClientFinished13
<1>2. k.client.ver # "1.2" /\ Beginning(k) /\ Inv13(k)
  BY <1>1 DEF Inv, Versions, Inv12
<1>3. /\ c.pc = "done" /\ v.s = Answer13(k).s /\ Accepts13(k) /\ Done13(k, c.s)
      /\ DOMAIN v = {"s", "pc", "out"}
  BY <1>1, <1>2 DEF Inv13, Beginning
<1>4. PICK r : c2s = <<r>> /\ Replied13(c.s, r)
  BY <1>1, <1>2, <1>3 DEF Inv13
<1> DEFINE f == tls13_process_client_finished(Answer13(k).s, r)
<1>5. Head(c2s) = r /\ c2s' = <<>>
  BY <1>1, <1>4
<1>6. IF f.ok THEN v' = [v EXCEPT !.s = f.s, !.pc = "done"] ELSE VFail
  BY <1>3, <1>5, Zenon DEF ReadClientFinished13
<1>7. f.ok => /\ Agree(c.s, f.s) /\ c.s.alpn = f.s.alpn
              /\ c.s.client_seq = f.s.client_seq /\ c.s.server_seq = f.s.server_seq
  BY <1>3, <1>4, Agreed13
<1> HIDE DEF f
<1>8. CASE f.ok
  <2>1. v'.s = f.s /\ v'.pc = "done" /\ v'.out = v.out /\ DOMAIN v' = DOMAIN v
    BY <1>3, <1>6, <1>8
  <2>2. Beginning(k)'
    BY <1>1, <1>2, <1>3, <2>1 DEF Beginning
  <2>3. Inv13(k)'
    BY <1>1, <1>2, <1>3, <1>7, <1>8, <2>1 DEF Inv13
  <2> QED
    BY <1>2, <2>2, <2>3 DEF Inv, Versions
<1>9. CASE ~f.ok
  <2>1. v'.pc = "failed" /\ v'.out \in Seq({Alert}) /\ DOMAIN v' = DOMAIN v
    BY <1>3, <1>6, <1>9, VFailFacts
  <2>2. Beginning(k)'
    BY <1>1, <1>2, <1>3, <2>1 DEF Beginning
  <2>3. v'.out \in Seq(Wire13(k))
    BY <2>1 DEF Wire13
  <2>4. Inv13(k)'
    BY <1>1, <1>2, <1>3, <2>1, <2>3 DEF Inv13
  <2> QED
    BY <1>2, <2>2, <2>4 DEF Inv, Versions
<1> QED
  BY <1>8, <1>9

\* Nothing of the answer depends on the record numbers.
LEMMA ReplyingSame ==
  ASSUME NEW k, NEW s, NEW t, Replying12(k, s), IsSession(t),
         Same(s, t, {"client_seq", "server_seq", "finished"})
  PROVE  Replying12(k, t)
<1>1. /\ t.role = s.role /\ t.alpn = s.alpn /\ t.suite = s.suite /\ t.ems = s.ems
      /\ t.key = s.key /\ t.base = s.base /\ t.verified = s.verified /\ t.sig_alg = s.sig_alg
  BY DEF Same, SessionFields
<1> QED
  BY <1>1, Zenon DEF Replying12

\* What the client sends when it has the whole flight.
LEMMA AnswerInv ==
  ASSUME NEW k \in Configurations, k.client.ver = "1.2", Answer12(k).ok,
         NEW ms \in Seq(Msgs12(k) \cup {HelloDone}), ms # <<>>,
         Result12(k, ms).ok, Result12(k, ms).cke # <<>>
  PROVE  LET p == Result12(k, ms)
             s == Advance(p.s, "client")
         IN /\ Replying12(k, s) /\ s.client_seq = 1 /\ s.server_seq = 0
            /\ ExchangeRecord(k, Record("handshake", p.cke))
            /\ FinishedRecord(k, s, Protected(p.s, "handshake", <<p.cf>>))
<1> DEFINE p == Result12(k, ms)
           s == Advance(p.s, "client")
           x == Record("handshake", p.cke)
           f == Protected(p.s, "handshake", <<p.cf>>)
<1>1. Suite12(k).kx \in {"ECDHE", "DHE", "RSA", "PSK", "DHE_PSK"}
  BY Suite12Known
<1>2. /\ Replying12(k, p.s) /\ p.s.client_seq = 0 /\ p.s.server_seq = 0
      /\ \E m : p.cke = <<m>> /\ KeyExchange12(k, m)
      /\ \E t : /\ p.cf = [type |-> "finished", mac |-> <<"client", p.s.base, t>>]
                /\ p.s.transcript = Append(t, <<Suite12(k).hash, p.cf>>)
  BY <1>1, Replied12Facts
<1>3. x.type = "handshake" /\ x.msgs = p.cke /\ f.type = "handshake" /\ f.msgs = <<p.cf>>
  BY DEF Record, Protected
<1> HIDE DEF p, x, f
<1>4. IsSession(p.s)
  BY <1>2 DEF Replying12
<1> DEFINE q == p.s
<1>5. IsSession(s) /\ Same(q, s, {"client_seq", "server_seq"}) /\ s.client_seq = 1 /\ s.server_seq = 0
  BY <1>2, <1>4, AdvanceFields
<1> HIDE DEF s, q
<1>6. /\ Same(q, s, {"client_seq", "server_seq", "finished"})
      /\ s.base = q.base /\ s.transcript = q.transcript
  BY <1>5 DEF Same, SessionFields
<1>7. Replying12(k, s)
  BY <1>2, <1>5, <1>6, ReplyingSame DEF q
<1>8. ExchangeRecord(k, x)
  BY <1>2, <1>3, Zenon DEF ExchangeRecord
<1>9. Covered12(k, s, p.cf)
  BY <1>2, <1>6, Zenon DEF Covered12, q
<1>10. FinishedRecord(k, s, f)
  BY <1>3, <1>9, Zenon DEF FinishedRecord
<1> QED
  BY <1>5, <1>7, <1>8, <1>10 DEF p, s, x, f

LEMMA ReadFlight12Inv ==
  ASSUME NEW k \in Configurations, Inv(k), ReadFlight12
  PROVE  Inv(k)'
<1> DEFINE r == Head(s2c)
           fl == IF r.type = "handshake" THEN Append(c.flight, r) ELSE c.flight
           complete == HelloDone \in ToSet(Messages(fl))
           p == Result12(k, Messages(fl))
           fin == Protected(p.s, "handshake", <<p.cf>>)
           next == Advance(p.s, "client")
           x == Record("handshake", p.cke)
<1>1. /\ c.pc = "flight12" /\ s2c # <<>> /\ s2c' = Tail(s2c) /\ conf' = conf /\ v' = v
  BY DEF ReadFlight12
<1>2. k.client.ver = "1.2" /\ Beginning(k) /\ Inv12(k) /\ Flying12(k)
  BY <1>1 DEF Inv, Versions, Inv13, Inv12
<1>3. /\ conf = k /\ c.s = Waiting(k) /\ v.pc \in {"cke12", "failed"} /\ c2s = <<>>
      /\ DOMAIN c = {"s", "pc", "flight", "tried"} /\ c.flight \in Seq(Plain12(k))
      /\ s2c \in Seq(Wire12(k)) /\ v.out \in Seq(Wire12(k)) /\ OnlyLastHolds(v.out)
  BY <1>1, <1>2 DEF Beginning, Flying12
<1>4. \/ r.type = "alert" /\ CFail /\ c2s' = c2s
      \/ r.type # "alert" /\ ~complete /\ c' = [c EXCEPT !.flight = fl] /\ c2s' = c2s
      \/ /\ r.type # "alert" /\ complete /\ p.ok /\ p.cke # <<>>
         /\ c' = [c EXCEPT !.s = next, !.pc = "ccs12"]
         /\ c2s' = c2s \o <<x, Ccs, fin>>
      \/ r.type # "alert" /\ complete /\ CFail /\ c2s' = c2s
  <2>1. p = tls12_process_server_flight(c.s, Messages(fl), Trust)
    BY <1>3, Zenon DEF Result12, Trust
  <2>2. HelloDone = [type |-> "server_hello_done"]
    BY DEF HelloDone
  <2> DEFINE P == tls12_process_server_flight(c.s, Messages(fl), Trust)
             done == [type |-> "server_hello_done"] \in ToSet(Messages(fl))
  <2>3. \/ r.type = "alert" /\ CFail /\ c2s' = c2s
        \/ r.type # "alert" /\ ~done /\ c' = [c EXCEPT !.flight = fl] /\ c2s' = c2s
        \/ /\ r.type # "alert" /\ done /\ P.ok /\ P.cke # <<>>
           /\ c' = [c EXCEPT !.s = Advance(P.s, "client"), !.pc = "ccs12"]
           /\ c2s' = c2s \o <<Record("handshake", P.cke), Ccs,
                              Protected(P.s, "handshake", <<P.cf>>)>>
        \/ r.type # "alert" /\ done /\ CFail /\ c2s' = c2s
    BY DEF ReadFlight12
  <2> QED
    BY <2>1, <2>2, <2>3, Zenon
<1>5. r \in Wire12(k) /\ Tail(s2c) \in Seq(Wire12(k)) /\ r = s2c[1] /\ 1 \in DOMAIN s2c
      /\ Len(Tail(s2c)) = Len(s2c) - 1 /\ Len(s2c) \in Nat /\ (Len(s2c) = 1 => Tail(s2c) = <<>>)
      /\ \A i \in DOMAIN Tail(s2c) : i \in Nat /\ i + 1 \in DOMAIN s2c /\ Tail(s2c)[i] = s2c[i + 1]
  <2> HIDE DEF r
  <2>1. s2c \in Seq(Wire12(k)) /\ s2c # <<>>
    BY <1>1, <1>3
  <2>2. \A i \in DOMAIN Tail(s2c) : i \in Nat
    BY <2>1
  <2> QED
    BY <2>1, <2>2, HeadTail DEF r
<1>6. CASE CFail /\ c2s' = c2s
  <2>1. c'.pc = "failed" /\ c'.flight = c.flight /\ DOMAIN c' = DOMAIN c
    BY <1>3, <1>6, CFailFacts
  <2>2. Beginning(k)'
    BY <1>1, <1>2, <1>3, <1>6, <2>1 DEF Beginning
  <2>3. Inv12(k)'
    BY <1>1, <1>2, <1>3, <1>6, <2>1 DEF Inv12
  <2> QED
    BY <1>2, <2>2, <2>3 DEF Inv, Versions
<1>7. ASSUME r.type # "alert"
      PROVE  /\ Answer12(k).ok /\ v.pc = "cke12" /\ fl \in Seq(Plain12(k))
             /\ (\E i \in DOMAIN fl : Holds(fl[i])) => Tail(s2c) = <<>> /\ v.out = <<>>
  <2> HIDE DEF r
  <2>1. r # Alert
    BY <1>7, Kinds
  <2>2. Answer12(k).ok /\ r \in Plain12(k) \cup {Ccs}
    BY <1>5, <2>1 DEF Wire12
  <2>3. v.pc = "cke12"
    <3>1. v.pc = "failed" => s2c \in Seq({Alert})
      BY <1>1, <1>2 DEF Flying12
    <3>2. s2c \in Seq({Alert}) => r = Alert
      BY <1>1, <1>5
    <3> QED
      BY <1>3, <2>1, <3>1, <3>2
  <2>4. fl \in Seq(Plain12(k))
    BY <1>3, <2>2, Kinds
  <2>5. ASSUME NEW i \in DOMAIN fl, Holds(fl[i])
        PROVE  Tail(s2c) = <<>> /\ v.out = <<>>
    <3>1. \/ i \in DOMAIN c.flight /\ Holds(c.flight[i])
          \/ Holds(r)
      BY <1>3, <2>2, <2>5
    <3>2. ~(i \in DOMAIN c.flight /\ Holds(c.flight[i]))
      BY <1>1, <1>2 DEF Flying12
    <3>3. Holds(s2c[1]) => 1 = Len(s2c) /\ v.out = <<>>
      BY <1>2, <1>5 DEF Flying12
    <3> QED
      BY <1>5, <3>1, <3>2, <3>3
  <2> QED
    BY <2>2, <2>3, <2>4, <2>5
<1>8. CASE r.type # "alert" /\ ~complete /\ c' = [c EXCEPT !.flight = fl] /\ c2s' = c2s
  <2> HIDE DEF r, fl, complete
  <2>1. c'.flight = fl /\ c'.pc = c.pc /\ c'.s = c.s /\ DOMAIN c' = DOMAIN c
    BY <1>3, <1>8
  <2>2. Beginning(k)'
    BY <1>1, <1>2, <1>3, <1>8, <2>1 DEF Beginning
  <2>3. \A i \in DOMAIN s2c' : Holds(s2c'[i]) => i = Len(s2c') /\ v'.out = <<>>
    <3>1. \A i \in DOMAIN s2c : Holds(s2c[i]) => i = Len(s2c) /\ v.out = <<>>
      BY <1>2 DEF Flying12
    <3> QED
      BY <1>1, <1>5, <3>1
  <2>4. Flying12(k)'
    BY <1>1, <1>2, <1>3, <1>5, <1>7, <1>8, <2>1, <2>3 DEF Flying12
  <2>5. Inv12(k)'
    BY <1>1, <1>2, <1>3, <1>7, <1>8, <2>1, <2>4 DEF Inv12
  <2> QED
    BY <1>2, <2>2, <2>5 DEF Inv, Versions
<1>9. CASE /\ r.type # "alert" /\ complete /\ p.ok /\ p.cke # <<>>
           /\ c' = [c EXCEPT !.s = next, !.pc = "ccs12"]
           /\ c2s' = c2s \o <<x, Ccs, fin>>
  <2> DEFINE ms == Messages(fl)
  <2>1. Answer12(k).ok /\ v.pc = "cke12" /\ fl \in Seq(Plain12(k))
    BY <1>7, <1>9
  <2>2. ms \in Seq(Msgs12(k) \cup {HelloDone}) /\ \E i \in DOMAIN fl : Holds(fl[i])
    <3>1. HelloDone \in ToSet(ms)
      BY <1>9
    <3> HIDE DEF fl
    <3> QED
      BY <2>1, <3>1, MessagesFacts DEF Plain12, Holds
  <2>3. Tail(s2c) = <<>> /\ v.out = <<>>
    BY <1>7, <1>9, <2>2
  <2>4. ms # <<>>
    BY <1>9 DEF ToSet
  <2>5. p.ok /\ p.cke # <<>>
    BY <1>9
  <2>6. /\ c' = [c EXCEPT !.s = next, !.pc = "ccs12"]
        /\ c2s' = c2s \o <<x, Ccs, fin>>
    BY <1>9
  <2> HIDE DEF fl, complete
  <2>7. /\ Replying12(k, next) /\ next.client_seq = 1 /\ next.server_seq = 0
        /\ ExchangeRecord(k, x) /\ FinishedRecord(k, next, fin)
    <3> HIDE DEF ms
    <3> QED
      BY <1>2, <2>1, <2>2, <2>4, <2>5, AnswerInv DEF ms
  <2> HIDE DEF p, next, x, fin
  <2>8. /\ c'.s = next /\ c'.pc = "ccs12" /\ c'.flight = c.flight /\ DOMAIN c' = DOMAIN c
        /\ c2s' = <<x, Ccs, fin>>
    BY <1>3, <2>6
  <2>9. Beginning(k)'
    BY <1>1, <1>2, <1>3, <2>8 DEF Beginning
  <2>10. /\ s2c' = <<>> /\ s2c' \in Seq({Alert}) /\ v'.out \in Seq({Alert}) /\ v'.pc = "cke12"
         /\ v'.out = <<>>
    BY <1>1, <2>1, <2>3, Empty
  <2>11. Exchanging12(k)'
    BY <2>1, <2>7, <2>8, <2>10 DEF Exchanging12
  <2>12. Inv12(k)'
    BY <1>1, <1>2, <2>1, <2>8, <2>11 DEF Inv12
  <2> QED
    BY <1>2, <2>9, <2>12 DEF Inv, Versions
<1> QED
  <2>1. r.type = "alert" /\ CFail /\ c2s' = c2s => CFail /\ c2s' = c2s
    OBVIOUS
  <2> HIDE DEF r, fl, complete, p, next, x, fin
  <2> QED
    BY <1>4, <1>6, <1>8, <1>9

LEMMA ReadServerFinished12Inv ==
  ASSUME NEW k \in Configurations, Inv(k), ReadServerFinished12
  PROVE  Inv(k)'
<1> DEFINE r == Head(s2c)
           s1 == Advance(c.s, "server")
           z == [s1 EXCEPT !.finished = TRUE]
           sf == ServerFinished(c.s)
<1>1. /\ c.pc \in {"ccs12", "finished12"} /\ s2c # <<>> /\ s2c' = Tail(s2c)
      /\ conf' = conf /\ v' = v /\ c2s' = c2s
  BY DEF ReadServerFinished12
<1>2. k.client.ver = "1.2" /\ Beginning(k) /\ Inv12(k) /\ Exchanging12(k)
  BY <1>1 DEF Inv, Versions, Inv13, Inv12
<1>3. /\ DOMAIN c = {"s", "pc", "flight", "tried"} /\ conf = k
      /\ v.pc \in {"failed", "done"} /\ Answer12(k).ok
      /\ Replying12(k, c.s) /\ c.s.client_seq = 1 /\ c.s.server_seq = 0
  BY <1>1, <1>2 DEF Beginning, Inv12, Exchanging12
<1>4. /\ DOMAIN c' = {"s", "pc", "flight", "tried"}
      /\ c'.pc \notin {"start", "flight12", "flight13"}
      => Beginning(k)'
  <2>1. DOMAIN v' = {"s", "pc", "out"} /\ v'.pc # "hello" /\ conf' = k
    BY <1>1, <1>2, <1>3 DEF Beginning
  <2> QED
    BY <2>1 DEF Beginning
<1>5. CASE v.pc = "failed"
  <2>1. c.pc = "ccs12" /\ s2c \in Seq({Alert})
    BY <1>2, <1>5 DEF Exchanging12
  <2>2. r.type = "alert"
    BY <1>1, <2>1, Kinds
  <2>3. CFail
    BY <2>2 DEF ReadServerFinished12
  <2>4. c'.pc = "failed" /\ DOMAIN c' = DOMAIN c
    BY <1>3, <2>3, CFailFacts
  <2>5. Inv12(k)'
    BY <1>1, <1>2, <1>5, <2>4 DEF Inv12
  <2> QED
    BY <1>2, <1>3, <1>4, <2>4, <2>5 DEF Inv, Versions
<1>6. CASE v.pc = "done" /\ c.pc = "ccs12"
  <2>1. \/ s2c = <<Ccs>> /\ v.out = <<sf>>
        \/ s2c = <<Ccs, sf>> /\ v.out = <<>>
    BY <1>1, <1>2, <1>6 DEF Exchanging12
  <2>2. /\ r = Ccs
        /\ \/ s2c' = <<>> /\ v'.out = <<sf>>
           \/ s2c' = <<sf>> /\ v'.out = <<>>
    <3> HIDE DEF sf
    <3> QED
      BY <1>1, <2>1, ShortQueues
  <2>3. r.type = "change_cipher_spec"
    BY <2>2, Kinds
  <2>4. c' = [c EXCEPT !.pc = "finished12"]
    BY <2>3 DEF ReadServerFinished12
  <2>5. c'.pc = "finished12" /\ c'.s = c.s /\ DOMAIN c' = DOMAIN c
    BY <1>3, <2>4
  <2>6. Exchanging12(k)'
    BY <1>1, <1>2, <1>6, <2>2, <2>5 DEF Exchanging12
  <2>7. Inv12(k)'
    BY <1>1, <1>2, <1>6, <2>5, <2>6 DEF Inv12
  <2> QED
    BY <1>2, <1>3, <1>4, <2>5, <2>7 DEF Inv, Versions
<1>7. CASE v.pc = "done" /\ c.pc = "finished12"
  <2>1. s2c = <<sf>> /\ v.out = <<>>
    BY <1>1, <1>2, <1>7 DEF Exchanging12
  <2>2. r = sf /\ s2c' = <<>> /\ v'.out = <<>>
    <3> HIDE DEF sf
    <3> QED
      BY <1>1, <2>1, ShortQueues
  <2>3. r.type = "handshake" /\ CanOpen(c.s, r) /\ verify_finished(c.s, Head(r.msgs), "server")
    <3>1. c.s.role = "client"
      BY <1>3 DEF Replying12
    <3>2. sf.type = "handshake"
      BY DEF ServerFinished
    <3> QED
      BY <1>3, <2>2, <3>1, <3>2, OpensFinished12
  <2>4. c' = [c EXCEPT !.s = z, !.pc = "done"]
    <3>1. c' = [c EXCEPT !.s = [Advance(@, "server") EXCEPT !.finished = TRUE], !.pc = "done"]
      BY <1>7, <2>3 DEF ReadServerFinished12
    <3> QED
      BY <3>1, Zenon
  <2>5. c'.pc = "done" /\ c'.s = z /\ DOMAIN c' = DOMAIN c
    BY <1>3, <2>4
  <2>6. /\ IsSession(z) /\ Same(c.s, z, {"client_seq", "server_seq", "finished"})
        /\ z.client_seq = 1 /\ z.server_seq = 1
    <3>1. IsSession(c.s)
      BY <1>3 DEF Replying12
    <3> DEFINE a == c.s
    <3>2. /\ IsSession(s1) /\ Same(a, s1, {"client_seq", "server_seq"})
          /\ s1.client_seq = 1 /\ s1.server_seq = 1
      BY <1>3, <3>1, AdvanceFields
    <3> HIDE DEF s1, a
    <3>3. /\ IsSession(z) /\ Same(a, z, {"client_seq", "server_seq", "finished"})
          /\ z.client_seq = 1 /\ z.server_seq = 1
      BY <3>2 DEF IsSession, Same, SessionFields
    <3> QED
      BY <3>3 DEF a
  <2>7. Replying12(k, z)
    BY <1>3, <2>6, ReplyingSame
  <2>8. Agree(z, v.s) /\ v.s.alpn = z.alpn /\ v.s.client_seq = 1 /\ v.s.server_seq = 1
    <3>1. Agree(c.s, v.s) /\ v.s.alpn = c.s.alpn /\ v.s.client_seq = 1 /\ v.s.server_seq = 1
      BY <1>2, <1>7 DEF Exchanging12
    <3>2. z.key = c.s.key /\ z.base = c.s.base /\ z.suite = c.s.suite /\ z.ems = c.s.ems /\ z.alpn = c.s.alpn
      <4> HIDE DEF z
      <4> QED
        BY <2>6 DEF Same, SessionFields
    <3> QED
      BY <3>1, <3>2 DEF Agree
  <2> HIDE DEF z
  <2>9. Exchanging12(k)'
    BY <1>1, <1>2, <1>7, <2>2, <2>5, <2>6, <2>7, <2>8 DEF Exchanging12
  <2>10. Inv12(k)'
    BY <1>1, <1>2, <1>7, <2>5, <2>9 DEF Inv12
  <2> QED
    BY <1>2, <1>3, <1>4, <2>5, <2>10 DEF Inv, Versions
<1> QED
  BY <1>1, <1>3, <1>5, <1>6, <1>7

\* The server's session after its flight still has the name the client asked for.
LEMMA SentAnswers ==
  ASSUME NEW k, k.client.ver = "1.2"
  PROVE  Answered12(k, Sent12(k))
BY Sent12Facts, Zenon DEF Answered12

\* The server in step with a client that has answered, before its own Finished.
Following12(k) ==
  /\ k.client.ver = "1.2" /\ Beginning(k) /\ Inv12(k) /\ Exchanging12(k)
  /\ c.pc = "ccs12" /\ s2c = <<>> /\ v.out = <<>> /\ conf = k
  /\ DOMAIN v = {"s", "pc", "out"} /\ Replying12(k, c.s)

LEMMA ServerFollows ==
  ASSUME NEW k, Inv(k), v.pc \in {"cke12", "ccs12", "finished12"}, c2s # <<>>
  PROVE  Following12(k)
<1>1. k.client.ver = "1.2" /\ Beginning(k) /\ Inv12(k)
  BY DEF Inv, Versions, Inv13
<1>2. c.pc \notin {"start", "failed", "flight12"}
  BY <1>1 DEF Beginning, Inv12, Flying12
<1>3. Exchanging12(k)
  BY <1>1, <1>2 DEF Inv12
<1>4. c.pc = "ccs12" /\ s2c = <<>> /\ v.out = <<>> /\ Replying12(k, c.s)
  BY <1>3 DEF Exchanging12
<1> QED
  BY <1>1, <1>3, <1>4 DEF Following12, Beginning

\* A server that gives up leaves the client waiting.
LEMMA ServerGivesUp ==
  ASSUME NEW k, Following12(k), VFail, conf' = conf, c' = c, s2c' = s2c
  PROVE  Inv(k)'
<1>1. v'.pc = "failed" /\ v'.out \in Seq({Alert}) /\ DOMAIN v' = DOMAIN v
  BY VFailFacts DEF Following12
<1>2. Beginning(k)'
  BY <1>1 DEF Following12, Beginning
<1>3. s2c' \in Seq({Alert})
  BY Empty DEF Following12
<1>4. Exchanging12(k)'
  BY <1>1, <1>3 DEF Following12, Exchanging12
<1>5. Inv12(k)'
  BY <1>1, <1>4 DEF Following12, Inv12
<1> QED
  BY <1>2, <1>5 DEF Following12, Inv, Versions

LEMMA ReadClientKeyExchangeInv ==
  ASSUME NEW k \in Configurations, Inv(k), ReadClientKeyExchange
  PROVE  Inv(k)'
<1> DEFINE r == Head(c2s)
           m == Head(r.msgs)
           x == tls12_process_client_key_exchange(transcript_update(Sent12(k), m), m, CertOf(k),
                    k.server.psks)
<1>1. /\ v.pc = "cke12" /\ c2s # <<>> /\ c2s' = Tail(c2s)
      /\ conf' = conf /\ c' = c /\ s2c' = s2c
  BY DEF ReadClientKeyExchange
<1>2. Following12(k)
  BY <1>1, ServerFollows
<1>3. v.s = Sent12(k) /\ Answer12(k).ok
  BY <1>1, <1>2 DEF Following12, Inv12
<1>4. Answered12(k, Sent12(k))
  BY <1>2, SentAnswers DEF Following12
<1>5. PICK e, f : c2s = <<e, Ccs, f>> /\ ExchangeRecord(k, e) /\ FinishedRecord(k, c.s, f)
  BY <1>1, <1>2 DEF Following12, Exchanging12
<1>6. r = e /\ c2s' = <<Ccs, f>>
  BY <1>1, <1>5
<1>7. r.type = "handshake" /\ KeyExchange12(k, m)
  <2>1. PICK n : e.msgs = <<n>> /\ KeyExchange12(k, n)
    BY <1>5 DEF ExchangeRecord
  <2>2. m = n
    BY <1>6, <2>1
  <2> QED
    BY <1>5, <1>6, <2>1, <2>2 DEF ExchangeRecord
<1>8. get_certificate(conf.server.manager, v.s.sni) = CertOf(k)
  BY <1>2, <1>3, <1>4, Zenon DEF Following12, CertOf, Answered12
<1> DEFINE X == tls12_process_client_key_exchange(transcript_update(v.s, m), m,
                    get_certificate(conf.server.manager, v.s.sni), conf.server.psks)
<1>9. X = x
  BY <1>2, <1>3, <1>8, Zenon DEF Following12
<1>10. \/ v' = [v EXCEPT !.pc = "swallow12"]
       \/ X.ok /\ v' = [v EXCEPT !.s = X.s, !.pc = "ccs12"]
       \/ VFail
  BY <1>7 DEF ReadClientKeyExchange
<1>11. \/ v' = [v EXCEPT !.pc = "swallow12"]
       \/ x.ok /\ v' = [v EXCEPT !.s = x.s, !.pc = "ccs12"]
       \/ VFail
  BY <1>9, <1>10, Zenon
<1>12. x.ok => /\ Keyed12Server(k, x.s) /\ x.s.client_seq = 0 /\ x.s.server_seq = 0
               /\ Suite12(k).kx = "RSA" => m.enc.to = CertOf(k).key
  <2>1. Suite12(k).kx \in {"ECDHE", "DHE", "RSA", "PSK", "DHE_PSK"}
    BY <1>2, <1>3, Suite12Known DEF Following12
  <2> QED
    BY <1>4, <2>1, ServerKeys12
<1> HIDE DEF r, m, x
<1>13. CASE VFail
  BY <1>1, <1>2, <1>13, ServerGivesUp
<1>14. CASE v' = [v EXCEPT !.pc = "swallow12"]
  <2>1. v'.pc = "swallow12" /\ v'.out = <<>> /\ DOMAIN v' = DOMAIN v
    BY <1>2, <1>14 DEF Following12
  <2>2. Beginning(k)'
    BY <1>1, <1>2, <2>1 DEF Following12, Beginning
  <2>3. Exchanging12(k)'
    BY <1>1, <1>2, <2>1, Empty DEF Following12, Exchanging12
  <2>4. Inv12(k)'
    BY <1>1, <1>2, <2>1, <2>3 DEF Following12, Inv12
  <2> QED
    BY <1>2, <2>2, <2>4 DEF Following12, Inv, Versions
<1>15. CASE x.ok /\ v' = [v EXCEPT !.s = x.s, !.pc = "ccs12"]
  <2>1. v'.pc = "ccs12" /\ v'.s = x.s /\ v'.out = <<>> /\ DOMAIN v' = DOMAIN v
    BY <1>2, <1>15 DEF Following12
  <2>2. Beginning(k)'
    BY <1>1, <1>2, <2>1 DEF Following12, Beginning
  <2>3. Suite12(k).kx = "RSA" /\ ~k.client.skip /\ Compares(k)
           => Expected13(k).key = CertOf(k).key
    BY <1>7, <1>12, <1>15 DEF KeyExchange12
  <2>4. Keyed12Server(k, v'.s) /\ v'.s.client_seq = 0 /\ v'.s.server_seq = 0
    BY <1>12, <1>15, <2>1
  <2>5. Exchanging12(k)'
    BY <1>1, <1>2, <1>5, <1>6, <2>1, <2>3, <2>4, Empty DEF Following12, Exchanging12
  <2>6. Inv12(k)'
    BY <1>1, <1>2, <2>1, <2>5 DEF Following12, Inv12
  <2> QED
    BY <1>2, <2>2, <2>6 DEF Following12, Inv, Versions
<1> QED
  BY <1>11, <1>13, <1>14, <1>15

LEMMA Swallow12Inv ==
  ASSUME NEW k \in Configurations, Inv(k), Swallow12
  PROVE  Inv(k)'
<1>1. /\ v.pc = "swallow12" /\ conf' = conf /\ c' = c /\ v' = v /\ s2c' = s2c
  BY DEF Swallow12
<1>2. k.client.ver = "1.2" /\ Beginning(k) /\ Inv12(k)
  BY <1>1 DEF Inv, Versions, Inv13
<1>3. Beginning(k)'
  BY <1>1, <1>2 DEF Beginning
<1>4. c.pc \notin {"start", "flight12"}
  BY <1>1, <1>2 DEF Beginning, Inv12, Flying12
<1>5. ASSUME Exchanging12(k) PROVE Exchanging12(k)'
  BY <1>1, <1>5 DEF Exchanging12
<1>6. Inv12(k)'
  BY <1>1, <1>2, <1>4, <1>5 DEF Inv12
<1> QED
  BY <1>2, <1>3, <1>6 DEF Inv, Versions

LEMMA ReadClientFinished12Inv ==
  ASSUME NEW k \in Configurations, Inv(k), ReadClientFinished12
  PROVE  Inv(k)'
<1> DEFINE r == Head(c2s)
           m == Head(r.msgs)
           u == transcript_update(Advance(v.s, "client"), m)
           z == [Advance(u, "server") EXCEPT !.finished = TRUE]
           fin == Protected(u, "handshake", <<Finished(u, "server")>>)
<1>1. /\ v.pc \in {"ccs12", "finished12"} /\ c2s # <<>> /\ c2s' = Tail(c2s)
      /\ conf' = conf /\ c' = c /\ s2c' = s2c
  BY DEF ReadClientFinished12
<1>2. Following12(k)
  BY <1>1, ServerFollows
<1>3. /\ Keyed12Server(k, v.s) /\ v.s.client_seq = 0 /\ v.s.server_seq = 0
      /\ Suite12(k).kx = "RSA" /\ ~k.client.skip /\ Compares(k)
            => Expected13(k).key = CertOf(k).key
  BY <1>1, <1>2 DEF Following12, Exchanging12
<1>4. CASE v.pc = "ccs12"
  <2>1. PICK f : c2s = <<Ccs, f>> /\ FinishedRecord(k, c.s, f)
    BY <1>2, <1>4 DEF Following12, Exchanging12
  <2>2. r = Ccs /\ c2s' = <<f>>
    BY <1>1, <2>1, ShortQueues
  <2>3. r.type = "change_cipher_spec"
    BY <2>2, Kinds
  <2>4. v' = [v EXCEPT !.pc = "finished12"]
    BY <2>3 DEF ReadClientFinished12
  <2>5. v'.pc = "finished12" /\ v'.s = v.s /\ v'.out = <<>> /\ DOMAIN v' = DOMAIN v
    BY <1>2, <2>4 DEF Following12
  <2>6. Beginning(k)'
    BY <1>1, <1>2, <2>5 DEF Following12, Beginning
  <2>7. Exchanging12(k)'
    BY <1>1, <1>2, <1>3, <2>1, <2>2, <2>5, Empty DEF Following12, Exchanging12
  <2>8. Inv12(k)'
    BY <1>1, <1>2, <2>5, <2>7 DEF Following12, Inv12
  <2> QED
    BY <1>2, <2>6, <2>8 DEF Following12, Inv, Versions
<1>5. CASE v.pc = "finished12"
  <2>1. PICK f : c2s = <<f>> /\ FinishedRecord(k, c.s, f)
    BY <1>2, <1>5 DEF Following12, Exchanging12
  <2>2. r = f /\ c2s' = <<>>
    BY <1>1, <2>1, ShortQueues
  <2>3. r.type = "handshake" /\ Covered12(k, c.s, m)
    <3>1. PICK n : f.msgs = <<n>> /\ Covered12(k, c.s, n)
      BY <2>1 DEF FinishedRecord
    <3>2. m = n
      BY <2>2, <3>1
    <3> QED
      BY <2>1, <2>2, <3>1, <3>2 DEF FinishedRecord
  <2>4. \/ /\ verify_finished(v.s, m, "client")
           /\ v' = [v EXCEPT !.s = z, !.pc = "done", !.out = <<Ccs, fin>>]
        \/ VFail
    <3>1. IF CanOpen(v.s, r) /\ verify_finished(v.s, m, "client")
          THEN v' = [v EXCEPT !.s = z, !.pc = "done", !.out = <<Ccs, fin>>]
          ELSE VFail
      <4>1. r.type # "change_cipher_spec"
        BY <2>3
      <4> QED
        BY <1>5, <2>3, <4>1 DEF ReadClientFinished12
    <3> HIDE DEF r, m, z, fin
    <3> QED
      BY <3>1
  <2>5. CASE VFail
    BY <1>1, <1>2, <2>5, ServerGivesUp
  <2>6. CASE /\ verify_finished(v.s, m, "client")
             /\ v' = [v EXCEPT !.s = z, !.pc = "done", !.out = <<Ccs, fin>>]
    <3> DEFINE a == v.s
               s == c.s
    <3>1. Replying12(k, s) /\ Keyed12Server(k, a) /\ a.client_seq = 0 /\ a.server_seq = 0
      BY <1>2, <1>3 DEF Following12
    <3>2. fin = ServerFinished(s) /\ Agree(s, z) /\ z.alpn = s.alpn /\ z.client_seq = 1 /\ z.server_seq = 1
      <4>1. verify_finished(a, m, "client") /\ Covered12(k, s, m)
        BY <2>3, <2>6
      <4> HIDE DEF r, m, a, s
      <4>2. LET w == transcript_update(Advance(a, "client"), m)
                y == [Advance(w, "server") EXCEPT !.finished = TRUE]
            IN /\ Protected(w, "handshake", <<Finished(w, "server")>>) = ServerFinished(s)
               /\ Agree(s, y) /\ y.alpn = s.alpn /\ y.client_seq = 1 /\ y.server_seq = 1
        BY <3>1, <4>1, Agreed12
      <4> QED
        BY <4>2 DEF a
    <3>3. v' = [v EXCEPT !.s = z, !.pc = "done", !.out = <<Ccs, fin>>]
      BY <2>6
    <3> HIDE DEF r, m, u, z, fin
    <3>4. v'.pc = "done" /\ v'.s = z /\ v'.out = <<Ccs, fin>> /\ DOMAIN v' = DOMAIN v
      BY <1>2, <3>3 DEF Following12
    <3>5. Beginning(k)'
      BY <1>1, <1>2, <3>4 DEF Following12, Beginning
    <3>6. Exchanging12(k)'
      BY <1>1, <1>2, <1>3, <2>2, <3>2, <3>4 DEF Following12, Exchanging12
    <3>7. Inv12(k)'
      BY <1>1, <1>2, <3>4, <3>6 DEF Following12, Inv12
    <3> QED
      BY <1>2, <3>5, <3>7 DEF Following12, Inv, Versions
  <2> QED
    BY <2>4, <2>5, <2>6
<1> QED
  BY <1>1, <1>4, <1>5

LEMMA NonEmpty == \A x, y, z : <<x>> # <<>> /\ <<x, y>> # <<>> /\ <<x, y, z>> # <<>>
OBVIOUS

LEMMA ClientTimeoutInv ==
  ASSUME NEW k \in Configurations, Inv(k), ClientTimeout
  PROVE  Inv(k)'
<1>1. /\ c.pc \in {"flight13", "flight12", "ccs12", "finished12"} /\ s2c = <<>> /\ v.out = <<>>
      /\ (v.pc \in {"done", "failed"} \/ c2s = <<>>) /\ CFail
      /\ conf' = conf /\ v' = v /\ c2s' = c2s /\ s2c' = s2c
  BY DEF ClientTimeout, ServerIsDone, Ended
<1>2. Beginning(k) /\ (k.client.ver = "1.2" => Inv12(k)) /\ (k.client.ver # "1.2" => Inv13(k))
  BY DEF Inv, Versions
<1>3. c'.pc = "failed" /\ c'.flight = c.flight /\ DOMAIN c' = DOMAIN c
  BY <1>1, <1>2, CFailFacts DEF Beginning
<1>4. Beginning(k)'
  BY <1>1, <1>2, <1>3 DEF Beginning
<1>5. ASSUME k.client.ver # "1.2" PROVE Inv13(k)'
  BY <1>1, <1>2, <1>3, <1>5 DEF Inv13
<1>6. ASSUME k.client.ver = "1.2" PROVE Inv12(k)'
  <2>1. CASE c.pc = "flight12"
    <3>1. v.pc \in {"hello", "cke12", "failed"} /\ (v.pc # "hello" => c2s = <<>>)
      BY <1>2, <1>6, <2>1 DEF Inv12, Flying12
    <3> QED
      BY <1>1, <1>2, <1>3, <1>6, <3>1 DEF Inv12
  <2>2. CASE c.pc \in {"ccs12", "finished12"}
    <3>1. Exchanging12(k)
      BY <1>2, <1>6, <2>2 DEF Inv12
    <3>2. v.pc # "done"
      <4> DEFINE sf == ServerFinished(c.s)
      <4>1. v.pc = "done" =>
              \/ v.out \in {<<Ccs, sf>>, <<sf>>}
              \/ s2c \in {<<Ccs, sf>>, <<sf>>}
        BY <2>2, <3>1 DEF Exchanging12
      <4> HIDE DEF sf
      <4> QED
        BY <1>1, <4>1, NonEmpty
    <3>3. v.pc \notin {"cke12", "ccs12", "finished12"}
      <4>1. v.pc \in {"cke12", "ccs12", "finished12"} => c2s # <<>>
        BY <3>1, NonEmpty DEF Exchanging12
      <4> QED
        BY <1>1, <4>1
    <3> QED
      BY <1>1, <1>2, <1>3, <1>6, <3>2, <3>3 DEF Inv12
  <2>3. c.pc # "flight13"
    BY <1>2, <1>6 DEF Inv12
  <2> QED
    BY <1>1, <2>1, <2>2, <2>3
<1> QED
  BY <1>4, <1>5, <1>6 DEF Inv, Versions

LEMMA ServerTimeoutInv ==
  ASSUME NEW k \in Configurations, Inv(k), ServerTimeout
  PROVE  Inv(k)'
<1>1. /\ v.pc \notin {"done", "failed"} /\ v.out = <<>> /\ c2s = <<>>
      /\ c.pc = "failed" \/ v.pc = "swallow12"
      /\ VFail /\ conf' = conf /\ c' = c /\ c2s' = c2s /\ s2c' = s2c
  BY DEF ServerTimeout, Ended
<1>2. Beginning(k) /\ (k.client.ver = "1.2" => Inv12(k)) /\ (k.client.ver # "1.2" => Inv13(k))
  BY DEF Inv, Versions
<1>3. v'.pc = "failed" /\ v'.out \in Seq({Alert}) /\ DOMAIN v' = DOMAIN v
  BY <1>1, <1>2, VFailFacts DEF Beginning
<1>4. c.pc # "start" \/ v.pc = "hello"
  BY <1>2 DEF Beginning
<1>5. Beginning(k)'
  BY <1>1, <1>2, <1>3, <1>4 DEF Beginning
<1>6. ASSUME k.client.ver # "1.2" PROVE Inv13(k)'
  <2>1. v'.out \in Seq(Wire13(k))
    BY <1>3 DEF Wire13
  <2> QED
    BY <1>1, <1>2, <1>3, <1>6, <2>1 DEF Inv13
<1>7. ASSUME k.client.ver = "1.2" PROVE Inv12(k)'
  <2>1. c.pc # "flight12"
    BY <1>1, <1>2, <1>7 DEF Inv12, Flying12
  <2>2. ASSUME Exchanging12(k) PROVE Exchanging12(k)'
    <3>1. c.pc = "ccs12" /\ s2c = <<>>
      BY <1>1, <1>2, <1>7, <2>2 DEF Exchanging12, Inv12
    <3>2. s2c' \in Seq({Alert})
      BY <1>1, <3>1, Empty
    <3> QED
      BY <1>1, <1>3, <2>2, <3>1, <3>2 DEF Exchanging12
  <2> QED
    BY <1>1, <1>2, <1>3, <1>7, <2>1, <2>2 DEF Inv12
<1> QED
  BY <1>5, <1>6, <1>7 DEF Inv, Versions

LEMMA RestInv ==
  ASSUME NEW k \in Configurations, Inv(k), UNCHANGED vars
  PROVE  Inv(k)'
<1>1. conf' = conf /\ c' = c /\ v' = v /\ c2s' = c2s /\ s2c' = s2c
  BY DEF vars
<1>2. Beginning(k) => Beginning(k)'
  BY <1>1 DEF Beginning
<1>3. Inv13(k) => Inv13(k)'
  BY <1>1 DEF Inv13
<1>4. Flying12(k) => Flying12(k)'
  BY <1>1 DEF Flying12, OnlyLastHolds
<1>5. Exchanging12(k) => Exchanging12(k)'
  BY <1>1 DEF Exchanging12
<1>6. Inv12(k) => Inv12(k)'
  BY <1>1, <1>4, <1>5 DEF Inv12
<1> QED
  BY <1>2, <1>3, <1>6 DEF Inv, Versions

\* In every state of a handshake, what is on the wire and what do_client_handshake and
\* do_server_handshake hold is what the configuration of this handshake leads to.
THEOREM Invariant == Spec => []IInv
<1>1. Init => IInv
  <2>1. ASSUME Init PROVE Inv(conf) /\ conf \in Configurations
    BY <2>1, InitInv DEF Init
  <2> QED
    BY <2>1 DEF IInv
<1>2. IInv /\ [Next]_vars => IInv'
  <2> SUFFICES ASSUME NEW k \in Configurations, Inv(k), [Next]_vars PROVE Inv(k)'
    BY DEF IInv
  <2>1. CASE SendHello
    BY <2>1, SendHelloInv
  <2>2. CASE ReadFlight13
    BY <2>2, ReadFlight13Inv
  <2>3. CASE TryFlight13
    BY <2>3, TryFlight13Inv
  <2>4. CASE GiveUp13
    BY <2>4, GiveUp13Inv
  <2>5. CASE ReadFlight12
    BY <2>5, ReadFlight12Inv
  <2>6. CASE ReadServerFinished12
    BY <2>6, ReadServerFinished12Inv
  <2>7. CASE ReadHello
    BY <2>7, ReadHelloInv
  <2>8. CASE ServerWrite
    BY <2>8, ServerWriteInv
  <2>9. CASE ReadClientFinished13
    BY <2>9, ReadClientFinished13Inv
  <2>10. CASE ReadClientKeyExchange
    BY <2>10, ReadClientKeyExchangeInv
  <2>11. CASE Swallow12
    BY <2>11, Swallow12Inv
  <2>12. CASE ReadClientFinished12
    BY <2>12, ReadClientFinished12Inv
  <2>13. CASE ClientTimeout
    BY <2>13, ClientTimeoutInv
  <2>14. CASE ServerTimeout
    BY <2>14, ServerTimeoutInv
  <2>15. CASE Rest \/ UNCHANGED vars
    BY <2>15, RestInv DEF Rest
  <2> QED
    BY <2>1, <2>2, <2>3, <2>4, <2>5, <2>6, <2>7, <2>8, <2>9, <2>10, <2>11, <2>12, <2>13,
       <2>14, <2>15 DEF Next
<1> QED
  BY <1>1, <1>2, PTL DEF Spec

-----------------------------------------------------------------------------
(***************************************************************************)
(* What the handshake promises.                                            *)
(***************************************************************************)

\* When do_server_handshake has returned, tls12_derive_keys or tls13_derive_application_keys
\* has given both sides the same keys, for the same suite and master secret derivation, and
\* once the client is done too, the same record numbers and application protocol.
THEOREM Agreement == Spec => []KeysAgree
<1>1. ASSUME NEW k \in Configurations, Inv(k) PROVE KeysAgree
  <2>1. Beginning(k) /\ (k.client.ver = "1.2" => Inv12(k)) /\ (k.client.ver # "1.2" => Inv13(k))
    BY <1>1 DEF Inv, Versions
  <2> SUFFICES ASSUME v.pc = "done" PROVE KeysAgree
    BY DEF KeysAgree
  <2>2. CASE k.client.ver # "1.2"
    BY <2>1, <2>2 DEF Inv13, Agree, KeysAgree
  <2>3. CASE k.client.ver = "1.2"
    <3>1. c.pc \in {"ccs12", "finished12", "done"}
      BY <2>1, <2>3 DEF Beginning, Inv12, Flying12
    <3>2. Exchanging12(k)
      BY <2>1, <2>3, <3>1 DEF Inv12
    <3>3. /\ Agree(c.s, v.s) /\ v.s.alpn = c.s.alpn /\ v.s.client_seq = 1 /\ v.s.server_seq = 1
          /\ c.s.client_seq = 1 /\ (c.pc = "done" => c.s.server_seq = 1)
      BY <3>2 DEF Exchanging12
    <3> QED
      BY <3>1, <3>3 DEF Agree, KeysAgree
  <2> QED
    BY <2>2, <2>3
<1>2. IInv => KeysAgree
  BY <1>1 DEF IInv
<1> QED
  BY <1>2, Invariant, PTL

LEMMA CertSame ==
  ASSUME NEW k, conf = k
  PROVE  Cert = CertOf(k) /\ Offer = ClientStart(k) /\ Trust = k.client.trust
<1>1. Hello(k).sni = k.client.sni
  BY HelloFields
<1> QED
  BY <1>1, Zenon DEF Cert, CertOf, Offer, ClientStart, Trust

\* What the client ends up with: the suite, the group, the signature scheme and the protocol
\* that select_suite13, select_signature_scheme and their TLS 1.2 counterparts chose were
\* offered by the client and are allowed by the server.
THEOREM Negotiation == Spec => []NegotiatedByBoth
<1>1. ASSUME NEW k \in Configurations, Inv(k) PROVE NegotiatedByBoth
  <2>1. /\ conf = k /\ (k.client.ver = "1.2" => Inv12(k)) /\ (k.client.ver # "1.2" => Inv13(k))
    BY <1>1 DEF Inv, Versions, Beginning
  <2>2. Cert = CertOf(k) /\ Offer = ClientStart(k)
    BY <2>1, CertSame
  <2> SUFFICES ASSUME c.pc = "done" PROVE NegotiatedByBoth
    BY DEF NegotiatedByBoth
  <2>3. CASE k.client.ver # "1.2"
    <3>1. k.client.ver = "1.3"
      BY <2>3, ConfigurationsAssumption
    <3>2. Accepts13(k) /\ Done13(k, c.s)
      BY <2>1, <2>3 DEF Inv13
    <3>3. /\ c.s.suite = Suite13(k) /\ c.s.ks_group = Group13(k) /\ c.s.quic = k.client.quic
          /\ c.s.alpn = Selected13(k).alpn /\ (c.s.verified => c.s.sig_alg = Alg13(k))
      BY <3>2, Zenon DEF Done13
    <3>4. /\ c.s.suite \in ToSet(OfferedSuites(Offer)) /\ c.s.ks_group \in ToSet(OfferedGroups(Offer))
          /\ tls_use_sm3(c.s.suite) <=> c.s.ks_group = "SM2"
          /\ tls_use_sm3(c.s.suite) => Cert.key_type = "SM2" /\ ~c.s.quic
      BY <2>2, <2>3, <3>2, <3>3, Negotiated13, Zenon
    <3>5. c.s.verified =>
            /\ c.s.sig_alg \in ToSet(OrDefault(conf.client.sig_algs))
                               \cap ToSet(OrDefault(conf.server.sig_algs))
            /\ c.s.sig_alg.fam = tls_key_type_to_sig_alg(Cert.key_type).fam
            /\ tls_scheme_allowed_for_cert_verify(c.s.sig_alg)
      BY <2>1, <2>2, <2>3, <3>2, <3>3, Negotiated13, Zenon
    <3>6. c.s.alpn # "" => c.s.alpn \in ToSet(conf.client.alpn) \cap ToSet(conf.server.alpn)
      BY <2>1, <2>3, <3>2, <3>3, Negotiated13, Zenon
    <3> QED
      BY <2>1, <3>1, <3>4, <3>5, <3>6, Zenon DEF NegotiatedByBoth
  <2>4. CASE k.client.ver = "1.2"
    <3>1. conf.client.ver # "1.3"
      BY <2>1, <2>4
    <3>2. Answer12(k).ok /\ Replying12(k, c.s)
      BY <2>1, <2>4 DEF Inv12, Exchanging12
    <3>3. /\ c.s.suite = Suite12(k) /\ c.s.alpn = ""
          /\ (c.s.verified => Signed(Suite12(k)) /\ c.s.sig_alg = Alg12(k))
      BY <3>2, Zenon DEF Replying12
    <3>4. c.s.suite \in ToSet(tls12_client_suite_list(Offer)) \cap conf.server.enabled
      BY <2>1, <2>2, <2>4, <3>2, <3>3, Negotiated12, Zenon
    <3>5. c.s.verified =>
            /\ c.s.sig_alg \in ToSet(OrDefault(conf.client.sig_algs))
                               \cap ToSet(OrDefault(conf.server.sig_algs))
            /\ c.s.sig_alg.fam = tls_key_type_to_sig_alg(Cert.key_type).fam
      BY <2>1, <2>2, <2>4, <3>2, <3>3, Negotiated12, Zenon
    <3> QED
      BY <3>1, <3>3, <3>4, <3>5, Zenon DEF NegotiatedByBoth
  <2> QED
    BY <2>3, <2>4
<1>2. IInv => NegotiatedByBoth
  BY <1>1 DEF IInv
<1> QED
  BY <1>2, Invariant, PTL

\* The certificate of a vetted chain is one the client has reason to trust.
LEMMA VettedTrusted ==
  ASSUME NEW k, conf = k, Checked(k), ~k.client.skip, CertOf(k) # None, Vetted(k),
         Compares(k) => Expected13(k).key = CertOf(k).key
  PROVE  Trusted(Cert)
<1> DEFINE cert == CertOf(k)
           trust == k.client.trust
<1>1. Cert = cert /\ Trust = trust
  BY CertSame
<1>2. /\ trust.kind \in {"store", "manager"}
      /\ ~(cert.ca /\ cert.subject = cert.issuer /\ verify_signature(cert, cert))
  <2>1. get_certificate(k.server.manager, k.client.sni) = cert
    BY HelloFields DEF CertOf
  <2> HIDE DEF cert
  <2> QED
    BY <2>1, Zenon DEF Checked, cert
<1>3. CASE trust.kind = "manager"
  <2>1. ~Stored(k)
    BY <1>3 DEF Stored
  <2>2. Expected13(k) = get_certificate(trust.manager, k.client.sni)
    BY <1>3, <2>1 DEF Expected13
  <2>3. Expected13(k) # None
    BY <1>3, <2>2, Zenon DEF Checked
  <2>4. Expected13(k).key = cert.key
    BY <1>3, <2>3 DEF Compares
  <2> QED
    BY <1>1, <1>3, <2>2, <2>3, <2>4 DEF Trusted, Expected
<1>4. CASE trust.kind = "store"
  <2>1. Stored(k)
    BY <1>4 DEF Stored
  <2>2. tls13_verify_server_chain(<<cert>>, trust.roots, k.client.sni)
    BY <2>1 DEF Vetted
  <2>3. /\ cert.valid /\ HostMatches(cert, k.client.sni) /\ Anchored(cert, trust.roots)
    <3> HIDE DEF cert, trust
    <3>1. Len(<<cert>>) = 1 /\ <<cert>>[1] = cert /\ Head(<<cert>>) = cert /\ 1 \in DOMAIN <<cert>>
      OBVIOUS
    <3> QED
      BY <2>2, <3>1 DEF tls13_verify_server_chain, chain_links_ok
  <2>4. \E r \in trust.roots :
            /\ r.ca /\ r.valid
            /\ \/ r.key = cert.signer
               \/ r.subject = cert.subject /\ r.key = cert.key
    <3> HIDE DEF cert, trust
    <3> QED
      BY <1>2, <2>3 DEF Anchored, verify_signature
  <2> QED
    BY <1>1, <1>4, <2>3, <2>4 DEF Trusted
<1> QED
  BY <1>2, <1>3, <1>4

\* A server that can sign with its key does sign the TLS 1.3 handshake.
LEMMA ServerSigns ==
  ASSUME NEW k \in Configurations, k.client.ver # "1.2", Accepts13(k), Checked(k)
  PROVE  CV13(k) # <<>> /\ CertOf(k) # None
<1>1. CertOf(k) # None /\ Alg13(k).fam = tls_key_type_to_sig_alg(CertOf(k).key_type).fam
  BY Negotiated13 DEF Accepts13
<1>2. get_certificate(k.server.manager, k.client.sni) = CertOf(k)
  BY HelloFields DEF CertOf
<1>3. sign_scheme(tls_key_type_to_sig_alg(CertOf(k).key_type))
  BY <1>1, <1>2, Zenon DEF Checked
<1>4. sign_scheme(Alg13(k))
  BY <1>1, <1>3 DEF sign_scheme
<1>5. Certified13(k).sig_alg = Alg13(k)
  BY Sent13Facts
<1> QED
  BY <1>1, <1>4, <1>5 DEF CV13, tls13_make_cert_verify

\* A client that checks its peer finishes only with a server whose certificate it trusts and
\* whose key signed the handshake or decrypted the premaster, or that shares its PSK.
THEOREM Authentication == Spec => []ServerAuthenticated
<1>1. ASSUME NEW k \in Configurations, Inv(k) PROVE ServerAuthenticated
  <2> SUFFICES ASSUME Checked(conf) PROVE ServerAuthenticated
    BY DEF ServerAuthenticated
  <2>1. /\ conf = k /\ (k.client.ver = "1.2" => Inv12(k)) /\ (k.client.ver # "1.2" => Inv13(k))
        /\ Checked(k)
    BY <1>1 DEF Inv, Versions, Beginning
  <2> SUFFICES ASSUME c.pc = "done", ~k.client.skip PROVE ServerAuthenticated
    BY <2>1 DEF ServerAuthenticated
  <2>2. CASE k.client.ver # "1.2"
    <3>1. Accepts13(k) /\ Done13(k, c.s)
      BY <2>1, <2>2 DEF Inv13
    <3>2. CV13(k) # <<>> /\ CertOf(k) # None
      BY <2>1, <2>2, <3>1, ServerSigns
    <3>3. Expected13(k) # None
      <4>1. \/ k.client.trust.kind = "store"
            \/ /\ k.client.trust.kind = "manager"
               /\ get_certificate(k.client.trust.manager, k.client.sni) # None
        BY <2>1, Zenon DEF Checked
      <4>2. CASE k.client.trust.kind = "store"
        BY <3>2, <4>2 DEF Expected13, Stored
      <4>3. CASE /\ k.client.trust.kind = "manager"
                 /\ get_certificate(k.client.trust.manager, k.client.sni) # None
        <5>1. ~Stored(k)
          BY <4>3 DEF Stored
        <5> QED
          BY <4>3, <5>1 DEF Expected13
      <4> QED
        BY <4>1, <4>2, <4>3
    <3>4. c.s.verified /\ Vetted(k) /\ Expected13(k).key = CertOf(k).key
      BY <3>1, <3>2, <3>3, Zenon DEF Done13
    <3>5. Trusted(Cert)
      BY <2>1, <3>2, <3>4, VettedTrusted
    <3> QED
      BY <3>4, <3>5 DEF ServerAuthenticated
  <2>3. CASE k.client.ver = "1.2"
    <3>1. Exchanging12(k)
      BY <2>1, <2>3 DEF Inv12
    <3>2. Answer12(k).ok /\ Replying12(k, c.s) /\ v.pc = "done"
      BY <3>1 DEF Exchanging12
    <3>3. c.s.suite = Suite12(k) /\ Suite12(k).kx \in {"ECDHE", "DHE", "RSA", "PSK", "DHE_PSK"}
      BY <2>3, <3>2, Suite12Known, Zenon DEF Replying12
    <3>4. CASE tls12_is_psk(Suite12(k))
      BY <3>3, <3>4 DEF ServerAuthenticated
    <3>5. CASE ~tls12_is_psk(Suite12(k))
      <4>1. Suite12(k).kx \in {"ECDHE", "DHE", "RSA"}
        BY <3>3, <3>5 DEF tls12_is_psk
      <4>2. Vetted(k) /\ CertOf(k) # None
        BY <2>3, <3>2, <3>5, <4>1, Negotiated12 DEF Replying12
      <4>3. /\ Compares(k) => Expected13(k).key = CertOf(k).key
            /\ c.s.verified \/ c.s.suite.kx = "RSA"
        <5>1. CASE Signed(Suite12(k))
          BY <3>2, <5>1, Zenon DEF Replying12
        <5>2. CASE ~Signed(Suite12(k))
          <6>1. Suite12(k).kx = "RSA"
            BY <4>1, <5>2 DEF Signed
          <6> QED
            BY <3>1, <3>2, <3>3, <6>1 DEF Exchanging12
        <5> QED
          BY <5>1, <5>2
      <4>4. Trusted(Cert)
        BY <2>1, <4>2, <4>3, VettedTrusted
      <4> QED
        BY <4>3, <4>4 DEF ServerAuthenticated
    <3> QED
      BY <3>4, <3>5
  <2> QED
    BY <2>2, <2>3
<1>2. IInv => ServerAuthenticated
  BY <1>1 DEF IInv
<1> QED
  BY <1>2, Invariant, PTL
=============================================================================
