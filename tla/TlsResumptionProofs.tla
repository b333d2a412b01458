------------------------- MODULE TlsResumptionProofs -------------------------
(***************************************************************************)
(* Tickets and early data for every width of an age, tolerance, number of  *)
(* tickets, connections and records: a server opens all early data it      *)
(* accepts, and, when its application carries over the whole PSK, accepts  *)
(* a hello exactly when it is fresh.  The TLS 1.2 session cache for every  *)
(* capacity, lifetime and number of sessions: what is resumed is the       *)
(* session the client named, and a recent session is still there.          *)
(***************************************************************************)
EXTENDS TlsResumption, SequenceTheorems, TLAPS

\* What the client kept of a ticket is what the server put into it.
PskFits(ts, p) ==
  /\ p.id \in 1 .. Len(ts) /\ p.value = PskValue(p.id)
  /\ p.age_add = ts[p.id].age_add
  /\ p.issue \in Nat /\ ts[p.id].issue <= p.issue

Ticket == [value : {PskValue(n) : n \in Nat}, age_add : 0 .. AgeModulus - 1, issue : Nat]

TicketsOk ==
  /\ clock \in Nat
  /\ tickets \in Seq(Ticket)
  /\ \A n \in 1 .. Len(tickets) : tickets[n].issue <= clock
  /\ psk # <<>> => PskFits(tickets, psk[1]) /\ psk[1].issue <= clock

\* A hello says what the client's PSK was when it was made.
HelloFits(ts, t, x) ==
  /\ PskFits(ts, x.psk) /\ x.made \in Nat /\ x.psk.issue <= x.made /\ x.made <= t
  /\ x.h.body.id = x.psk.id
  /\ x.h.body.age = ((x.made - x.psk.issue) * Second + x.psk.age_add) % AgeModulus
  /\ x.h.binder = tls13_compute_binder(x.psk.value, x.h.body)

EarlyKey(x) == <<"c e traffic", PskValue(x.h.body.id), x.h>>

\* Record i of a connection carries payload i under number i - 1.
SentAs(sent, k) ==
  sent \in Seq({[key |-> k, seq |-> n, data |-> n + 1] : n \in Nat})
    /\ \A i \in 1 .. Len(sent) : sent[i] = [key |-> k, seq |-> i - 1, data |-> i]

ClientFields == {"key", "seq", "sent"}
ServerFields == {"verdict", "at", "key", "seq", "got"}

\* The client numbers its records from zero, under the key of its hello.
ClientOk ==
  /\ DOMAIN cli = ClientFields
  /\ hello = <<>> => cli.sent = <<>>
  /\ hello # <<>> =>
       /\ HelloFits(tickets, clock, hello[1]) /\ cli.key = EarlyKey(hello[1])
       /\ SentAs(cli.sent, cli.key) /\ cli.seq = Len(cli.sent)

\* A server that accepted has the client's key and counts the same records.
ServerOk ==
  /\ DOMAIN srv = ServerFields
  /\ srv.verdict \in {"none", "accepted", "refused"}
  /\ hello = <<>> => srv.verdict = "none"
  /\ srv.verdict # "accepted" => srv.got = <<>>
  /\ srv.verdict = "accepted" =>
       /\ srv.key = EarlyKey(hello[1]) /\ srv.got \in Seq(Nat) /\ srv.seq = Len(srv.got)
       /\ Len(srv.got) <= Len(cli.sent)
       /\ \A i \in 1 .. Len(srv.got) : srv.got[i] = i

\* The inductive invariant for early data.
EarlyInv == TicketsOk /\ ClientOk /\ ServerOk

-----------------------------------------------------------------------------
\* Every step of TlsResumption is one of Tls13EarlyData or leaves it alone.
LEMMA NextIsEarly == [Next]_vars => [EarlyNext]_earlyVars
  BY DEF Next, vars

\* Before anything is issued.
LEMMA InitEarly == Init => EarlyInv
  BY DEF Init, EarlyInit, EarlyInv, TicketsOk, ClientOk, ServerOk, NoClient, NewServer, ClientFields, ServerFields

\* What a new ticket does to those before it (tls13_make_new_session_ticket).
LEMMA TicketKeeps == EarlyInv /\ MakeNewSessionTicket => EarlyInv'
<1>. SUFFICES ASSUME EarlyInv, MakeNewSessionTicket PROVE EarlyInv'
  OBVIOUS
<1>1. PICK add \in AgeAdds :
        tickets' = Append(tickets, [value |-> PskValue(Len(tickets) + 1), age_add |-> add, issue |-> clock])
  BY DEF MakeNewSessionTicket
<1>. DEFINE t == [value |-> PskValue(Len(tickets) + 1), age_add |-> add, issue |-> clock]
<1>2. tickets \in Seq(Ticket) /\ clock \in Nat /\ Len(tickets) \in Nat
  BY DEF EarlyInv, TicketsOk
<1>3. t \in Ticket
  BY <1>2, AgeAssumption DEF Ticket
<1>4. t.issue = clock
  OBVIOUS
<1>. HIDE DEF t
<1>5. tickets' = Append(tickets, t)
  BY <1>1 DEF t
<1>6. /\ tickets' \in Seq(Ticket) /\ Len(tickets') = Len(tickets) + 1
      /\ \A n \in 1 .. Len(tickets) : tickets'[n] = tickets[n]
      /\ tickets'[Len(tickets) + 1] = t
  BY <1>2, <1>3, <1>5
<1>7. UNCHANGED <<clock, psk, hello, cli, srv, load>>
  BY DEF MakeNewSessionTicket
<1>8. \A p : PskFits(tickets, p) => PskFits(tickets', p)
  BY <1>2, <1>6 DEF PskFits
<1>9. TicketsOk'
  <2>1. \A n \in 1 .. Len(tickets') : tickets'[n].issue <= clock'
    BY <1>2, <1>4, <1>6, <1>7 DEF EarlyInv, TicketsOk
  <2>. QED BY <1>2, <1>6, <1>7, <1>8, <2>1 DEF EarlyInv, TicketsOk
<1>10. \A c, x : HelloFits(tickets, c, x) => HelloFits(tickets', c, x)
  BY <1>8 DEF HelloFits
<1>11. ClientOk'
  BY <1>7, <1>10 DEF EarlyInv, ClientOk
<1>12. ServerOk'
  BY <1>7 DEF EarlyInv, ServerOk
<1>. QED BY <1>9, <1>11, <1>12 DEF EarlyInv

\* A stored ticket keeps the server's values (tls13_store_psk).
LEMMA StoreKeeps == EarlyInv /\ StorePsk => EarlyInv'
<1>. SUFFICES ASSUME EarlyInv, StorePsk PROVE EarlyInv'
  OBVIOUS
<1>1. PICK n \in DOMAIN tickets :
        psk' = <<[id |-> n, value |-> PskValue(n), age_add |-> tickets[n].age_add, issue |-> clock]>>
  BY DEF StorePsk
<1>2. UNCHANGED <<clock, tickets, hello, cli, srv, load>>
  BY DEF StorePsk
<1>3. n \in 1 .. Len(tickets) /\ clock \in Nat /\ tickets[n].issue <= clock
  BY <1>1 DEF EarlyInv, TicketsOk
<1>4. PskFits(tickets, psk'[1]) /\ psk'[1].issue <= clock
  BY <1>1, <1>3 DEF PskFits
<1>5. TicketsOk'
  BY <1>2, <1>4 DEF EarlyInv, TicketsOk
<1>6. ClientOk' /\ ServerOk'
  BY <1>2 DEF EarlyInv, ClientOk, ServerOk
<1>. QED BY <1>5, <1>6 DEF EarlyInv

\* What the i-th record of a connection is.
LEMMA SentFacts ==
  ASSUME NEW sent, NEW k, SentAs(sent, k), NEW i \in 1 .. Len(sent)
  PROVE  sent[i].key = k /\ sent[i].seq = i - 1 /\ sent[i].data = i
<1>1. sent[i] = [key |-> k, seq |-> i - 1, data |-> i]
  BY DEF SentAs
<1>. QED BY <1>1

\* What assignments to fields of a session leave alone.
LEMMA ClientUpdate ==
  ASSUME NEW c, DOMAIN c = ClientFields, NEW k, NEW n, NEW sent
  PROVE  LET d == [c EXCEPT !.key = k, !.seq = n]
             e == [c EXCEPT !.seq = n, !.sent = sent]
             f == [c EXCEPT !.sent = sent]
         IN /\ DOMAIN d = ClientFields /\ d.key = k /\ d.seq = n /\ d.sent = c.sent
            /\ DOMAIN e = ClientFields /\ e.key = c.key /\ e.seq = n /\ e.sent = sent
            /\ DOMAIN f = ClientFields /\ f.sent = sent
  BY DEF ClientFields

LEMMA ServerUpdate ==
  ASSUME NEW s, DOMAIN s = ServerFields, NEW v, NEW t, NEW k, NEW n, NEW got
  PROVE  LET a == [s EXCEPT !.verdict = v, !.at = t]
             b == [s EXCEPT !.key = k, !.seq = n]
             c == [s EXCEPT !.seq = n, !.got = got]
             d == [s EXCEPT !.verdict = v, !.got = got, !.at = t]
         IN /\ DOMAIN a = ServerFields /\ a.verdict = v /\ a.at = t /\ a.got = s.got
            /\ DOMAIN b = ServerFields /\ b.verdict = s.verdict /\ b.at = s.at /\ b.got = s.got
            /\ b.key = k /\ b.seq = n
            /\ DOMAIN c = ServerFields /\ c.verdict = s.verdict /\ c.at = s.at /\ c.key = s.key
            /\ c.seq = n /\ c.got = got
            /\ DOMAIN d = ServerFields /\ d.verdict = v /\ d.got = got
  BY DEF ServerFields

\* A hello is made from the PSK, and its key is new (tls13_make_psk_client_hello).
LEMMA HelloKeeps == EarlyInv /\ MakePskClientHello => EarlyInv'
<1>. SUFFICES ASSUME EarlyInv, MakePskClientHello PROVE EarlyInv'
  OBVIOUS
<1>. DEFINE p    == psk[1]
            body == [id |-> p.id, age |-> ObfuscatedAge(p), random |-> clock]
            h    == [body |-> body, binder |-> tls13_compute_binder(p.value, body)]
            x    == [h |-> h, made |-> clock, psk |-> p]
<1>1. /\ psk # <<>> /\ hello = <<>> /\ hello' = <<x>>
      /\ cli' = tls13_derive_early_traffic_keys(cli, p.value, h)
      /\ UNCHANGED <<clock, tickets, psk, srv, load>>
  BY DEF MakePskClientHello
<1>2. PskFits(tickets, p) /\ p.issue <= clock /\ clock \in Nat
  BY <1>1 DEF EarlyInv, TicketsOk
<1>3. /\ x.psk = p /\ x.made = clock /\ x.h = h /\ x.h.body.id = p.id
      /\ x.h.body.age = ((clock - p.issue) * Second + p.age_add) % AgeModulus
      /\ x.h.binder = tls13_compute_binder(p.value, x.h.body)
  BY DEF ObfuscatedAge
<1>. HIDE DEF x, h, p
<1>4. HelloFits(tickets, clock, x)
  BY <1>2, <1>3 DEF HelloFits
<1>5. hello' # <<>> /\ hello'[1] = x
  BY <1>1
<1>6. /\ DOMAIN cli' = ClientFields
      /\ cli'.key = EarlyKey(x) /\ cli'.seq = 0 /\ cli'.sent = <<>>
  <2>1. EarlyKey(x) = <<"c e traffic", p.value, h>>
    BY <1>2, <1>3 DEF EarlyKey, PskFits
  <2>2. DOMAIN cli = ClientFields /\ cli.sent = <<>>
    BY <1>1 DEF EarlyInv, ClientOk
  <2>3. cli' = [cli EXCEPT !.key = EarlyKey(x), !.seq = 0]
    BY <1>1, <2>1 DEF tls13_derive_early_traffic_keys
  <2>. QED BY <2>2, <2>3, ClientUpdate
<1>7. ClientOk'
  BY <1>1, <1>4, <1>5, <1>6 DEF ClientOk, SentAs
<1>8. TicketsOk'
  BY <1>1 DEF EarlyInv, TicketsOk
<1>9. ServerOk'
  BY <1>1 DEF EarlyInv, ServerOk
<1>. QED BY <1>7, <1>8, <1>9 DEF EarlyInv

\* The next record has the next number (tls13_encrypt_early_data).
LEMMA EncryptKeeps == EarlyInv /\ EncryptEarlyData => EarlyInv'
<1>. SUFFICES ASSUME EarlyInv, EncryptEarlyData PROVE EarlyInv'
  OBVIOUS
<1>. DEFINE k == cli.key
            S == {[key |-> k, seq |-> n, data |-> n + 1] : n \in Nat}
            r == [key |-> k, seq |-> Len(cli.sent), data |-> Len(cli.sent) + 1]
<1>1. /\ hello # <<>> /\ UNCHANGED <<clock, tickets, psk, hello, srv, load>>
      /\ DOMAIN cli = ClientFields /\ cli.seq = Len(cli.sent)
      /\ HelloFits(tickets, clock, hello[1]) /\ k = EarlyKey(hello[1]) /\ SentAs(cli.sent, k)
  BY DEF EncryptEarlyData, EarlyInv, ClientOk
<1>2. cli' = [cli EXCEPT !.seq = Len(cli.sent) + 1, !.sent = Append(cli.sent, r)]
  BY <1>1 DEF EncryptEarlyData
<1>3. cli.sent \in Seq(S) /\ Len(cli.sent) \in Nat /\ r \in S
  BY <1>1 DEF SentAs
<1>4. \A i \in 1 .. Len(cli.sent) : cli.sent[i] = [key |-> k, seq |-> i - 1, data |-> i]
  BY <1>1 DEF SentAs
<1>. HIDE DEF S
<1>5. /\ Append(cli.sent, r) \in Seq(S) /\ Len(Append(cli.sent, r)) = Len(cli.sent) + 1
      /\ \A i \in 1 .. Len(cli.sent) : Append(cli.sent, r)[i] = cli.sent[i]
      /\ Append(cli.sent, r)[Len(cli.sent) + 1] = r
  BY <1>3
<1>6. \A i \in 1 .. Len(cli.sent) + 1 : Append(cli.sent, r)[i] = [key |-> k, seq |-> i - 1, data |-> i]
  <2>. SUFFICES ASSUME NEW i \in 1 .. Len(cli.sent) + 1
                PROVE  Append(cli.sent, r)[i] = [key |-> k, seq |-> i - 1, data |-> i]
    OBVIOUS
  <2>1. CASE i \in 1 .. Len(cli.sent)
    BY <1>4, <1>5, <2>1
  <2>2. CASE i = Len(cli.sent) + 1
    <3>1. i - 1 = Len(cli.sent)
      BY <1>3, <2>2
    <3>. QED BY <1>5, <2>2, <3>1
  <2>. QED BY <1>3, <2>1, <2>2
<1>7. SentAs(Append(cli.sent, r), k)
  BY <1>5, <1>6 DEF SentAs, S
<1>. HIDE DEF k, r
<1>8. /\ DOMAIN cli' = ClientFields
      /\ cli'.key = k /\ cli'.seq = Len(cli.sent) + 1 /\ cli'.sent = Append(cli.sent, r)
  BY <1>1, <1>2, ClientUpdate DEF k
<1>9. ClientOk'
  BY <1>1, <1>5, <1>7, <1>8 DEF ClientOk
<1>10. TicketsOk'
  BY <1>1 DEF EarlyInv, TicketsOk
<1>11. ServerOk'
  <2>1. srv.verdict = "accepted" => Len(srv.got) \in Nat /\ Len(srv.got) <= Len(cli.sent)
    BY DEF EarlyInv, ServerOk
  <2>2. srv.verdict = "accepted" => Len(srv.got) <= Len(cli'.sent)
    BY <2>1, <1>3, <1>5, <1>8
  <2>. QED BY <1>1, <2>2 DEF EarlyInv, ServerOk
<1>. QED BY <1>9, <1>10, <1>11 DEF EarlyInv

\* A server that accepts derives the client's key (tls13_process_psk_client_hello).
LEMMA ProcessKeeps == EarlyInv /\ ProcessPskClientHello => EarlyInv'
<1>. SUFFICES ASSUME EarlyInv, ProcessPskClientHello PROVE EarlyInv'
  OBVIOUS
<1>. DEFINE h == hello[1].h
            K == EarlyKey(hello[1])
<1>1. hello # <<>> /\ srv.verdict = "none" /\ UNCHANGED <<clock, tickets, psk, hello, cli, load>>
  BY DEF ProcessPskClientHello
<1>2. DOMAIN srv = ServerFields /\ srv.got = <<>>
  BY <1>1 DEF EarlyInv, ServerOk
<1>3. \/ srv' = [[srv EXCEPT !.verdict = "accepted", !.at = clock] EXCEPT !.key = K, !.seq = 0]
      \/ srv' = [srv EXCEPT !.verdict = "refused", !.at = clock]
  BY DEF ProcessPskClientHello, tls13_derive_early_traffic_keys, EarlyKey
<1>. HIDE DEF K
<1>4. /\ DOMAIN srv' = ServerFields /\ srv'.got = <<>> /\ srv'.at = clock
      /\ (srv'.verdict = "refused" \/ (srv'.verdict = "accepted" /\ srv'.key = K /\ srv'.seq = 0))
  <2>. DEFINE s == [srv EXCEPT !.verdict = "accepted", !.at = clock]
  <2>1. DOMAIN s = ServerFields /\ s.verdict = "accepted" /\ s.at = clock /\ s.got = <<>>
    BY <1>2, ServerUpdate
  <2>2. CASE srv' = [s EXCEPT !.key = K, !.seq = 0]
    <3>. HIDE DEF s
    <3>. QED BY <2>1, <2>2, ServerUpdate
  <2>3. CASE srv' = [srv EXCEPT !.verdict = "refused", !.at = clock]
    BY <1>2, <2>3, ServerUpdate
  <2>. QED BY <1>3, <2>2, <2>3
<1>5. SentAs(cli.sent, cli.key)
  BY <1>1 DEF EarlyInv, ClientOk
<1>6. Len(cli.sent) \in Nat
  BY <1>5 DEF SentAs
<1>7. ServerOk'
  BY <1>1, <1>4, <1>6 DEF ServerOk, K
<1>8. TicketsOk' /\ ClientOk'
  BY <1>1 DEF EarlyInv, TicketsOk, ClientOk
<1>. QED BY <1>7, <1>8 DEF EarlyInv

\* The record the server reads is the one it counts (tls13_decrypt_early_data).
LEMMA DecryptKeeps == EarlyInv /\ DecryptEarlyData => EarlyInv'
<1>. SUFFICES ASSUME EarlyInv, DecryptEarlyData PROVE EarlyInv'
  OBVIOUS
<1>. DEFINE n == Len(srv.got)
            r == cli.sent[n + 1]
<1>1. srv.verdict = "accepted" /\ n < Len(cli.sent) /\ UNCHANGED <<clock, tickets, psk, hello, cli, load>>
  BY DEF DecryptEarlyData
<1>2. /\ hello # <<>> /\ srv.key = EarlyKey(hello[1]) /\ srv.got \in Seq(Nat) /\ srv.seq = n
      /\ n \in Nat /\ \A i \in 1 .. n : srv.got[i] = i
      /\ DOMAIN srv = ServerFields
  BY <1>1 DEF EarlyInv, ServerOk
<1>3. SentAs(cli.sent, srv.key)
  BY <1>2 DEF EarlyInv, ClientOk
<1>4. Len(cli.sent) \in Nat /\ r.key = srv.key /\ r.seq = n /\ r.data = n + 1
  <2>1. Len(cli.sent) \in Nat
    BY <1>3 DEF SentAs
  <2>2. n + 1 \in 1 .. Len(cli.sent) /\ n + 1 - 1 = n
    BY <1>1, <1>2, <2>1
  <2>. QED BY <1>3, <2>1, <2>2, SentFacts
<1>. HIDE DEF r
<1>5. srv' = [srv EXCEPT !.seq = n + 1, !.got = Append(srv.got, n + 1)]
  BY <1>2, <1>4 DEF DecryptEarlyData, r
<1>6. /\ DOMAIN srv' = ServerFields /\ srv'.verdict = "accepted" /\ srv'.at = srv.at /\ srv'.key = srv.key
      /\ srv'.seq = n + 1 /\ srv'.got = Append(srv.got, n + 1)
  BY <1>1, <1>2, <1>5, ServerUpdate
<1>7. /\ Append(srv.got, n + 1) \in Seq(Nat) /\ Len(Append(srv.got, n + 1)) = n + 1
      /\ \A i \in 1 .. n + 1 : Append(srv.got, n + 1)[i] = i
  BY <1>2
<1>. HIDE DEF n
<1>8. ServerOk'
  BY <1>1, <1>2, <1>4, <1>6, <1>7 DEF ServerOk, n
<1>9. TicketsOk' /\ ClientOk'
  BY <1>1 DEF EarlyInv, TicketsOk, ClientOk
<1>. QED BY <1>8, <1>9 DEF EarlyInv

\* The same bytes again, the end of a connection, and the clock.
LEMMA OtherKeeps == EarlyInv /\ (HelloAgain \/ EndConnection \/ EarlyTick \/ UNCHANGED earlyVars) => EarlyInv'
<1>. SUFFICES ASSUME EarlyInv, HelloAgain \/ EndConnection \/ EarlyTick \/ UNCHANGED earlyVars PROVE EarlyInv'
  OBVIOUS
<1>0. /\ DOMAIN srv = ServerFields /\ DOMAIN cli = ClientFields
      /\ DOMAIN Reused(srv) = ServerFields /\ Reused(srv).verdict = "none" /\ Reused(srv).got = <<>>
  BY ServerUpdate DEF EarlyInv, ServerOk, ClientOk, Reused
<1>1. CASE HelloAgain
  <2>1. srv' = Reused(srv) /\ UNCHANGED <<clock, tickets, psk, hello, cli, load>>
    BY <1>1 DEF HelloAgain
  <2>2. ServerOk'
    BY <1>0, <2>1 DEF ServerOk
  <2>3. TicketsOk' /\ ClientOk'
    BY <2>1 DEF EarlyInv, TicketsOk, ClientOk
  <2>. QED BY <2>2, <2>3 DEF EarlyInv
<1>2. CASE EndConnection
  <2>1. hello' = <<>> /\ UNCHANGED <<clock, tickets, psk, load>>
    BY <1>2 DEF EndConnection
  <2>2. DOMAIN srv' = ServerFields /\ srv'.verdict = "none" /\ srv'.got = <<>>
    BY <1>0, <1>2 DEF EndConnection, NewServer, ServerFields
  <2>3. DOMAIN cli' = ClientFields /\ cli'.sent = <<>>
    <3>1. CASE cli' = NoClient
      BY <3>1 DEF NoClient, ClientFields
    <3>2. CASE cli' = [cli EXCEPT !.sent = <<>>]
      BY <1>0, <3>2, ClientUpdate
    <3>. QED BY <1>2, <3>1, <3>2 DEF EndConnection
  <2>. QED BY <2>1, <2>2, <2>3 DEF EarlyInv, TicketsOk, ClientOk, ServerOk
<1>3. CASE EarlyTick
  <2>1. clock' = clock + 1 /\ clock \in Nat /\ UNCHANGED <<tickets, psk, hello, cli, srv, load>>
    BY <1>3 DEF EarlyTick, EarlyInv, TicketsOk
  <2>2. TicketsOk'
    <3>1. \A n \in 1 .. Len(tickets) : tickets[n].issue \in Nat
      <4>1. \A n \in 1 .. Len(tickets) : tickets[n] \in Ticket
        BY DEF EarlyInv, TicketsOk
      <4>. QED BY <4>1 DEF Ticket
    <3>2. psk # <<>> => psk[1].issue \in Nat
      BY DEF EarlyInv, TicketsOk, PskFits
    <3>. QED BY <2>1, <3>1, <3>2 DEF EarlyInv, TicketsOk
  <2>3. hello # <<>> => HelloFits(tickets, clock', hello[1])
    BY <2>1 DEF EarlyInv, ClientOk, HelloFits
  <2>4. ClientOk' /\ ServerOk'
    BY <2>1, <2>3 DEF EarlyInv, ClientOk, ServerOk
  <2>. QED BY <2>2, <2>4 DEF EarlyInv
<1>4. CASE UNCHANGED earlyVars
  BY <1>4 DEF earlyVars, EarlyInv, TicketsOk, ClientOk, ServerOk
<1>. QED BY <1>1, <1>2, <1>3, <1>4

LEMMA StepKeeps == EarlyInv /\ [EarlyNext]_earlyVars => EarlyInv'
  BY TicketKeeps, StoreKeeps, HelloKeeps, EncryptKeeps, ProcessKeeps, DecryptKeeps, OtherKeeps DEF EarlyNext

\* Whatever is lost, repeated or reused, a server that accepted early data opens
\* every record of it, in order (tls13_decrypt_early_data).
THEOREM AcceptedDataOpens == Spec => []EarlyDataOpens
<1>1. EarlyInv => EarlyDataOpens
  BY DEF EarlyInv, ServerOk, EarlyDataOpens
<1>2. EarlyInv /\ [Next]_vars => EarlyInv'
  BY StepKeeps, NextIsEarly
<1>. QED BY <1>1, <1>2, InitEarly, PTL DEF Spec

-----------------------------------------------------------------------------
\* A number is the remainder of what differs from it by whole laps.
LEMMA Remainder ==
  ASSUME NEW M \in Nat \ {0}, NEW x \in Int, NEW q \in Int, NEW e \in 0 .. M - 1, x = M * q + e
  PROVE  x % M = e
<1>. DEFINE k == x \div M
            f == x % M
<1>1. x = M * k + f /\ k \in Int /\ f \in 0 .. M - 1
  OBVIOUS
<1>. HIDE DEF k, f
<1>. DEFINE d == k - q
<1>2. M * d = e - f /\ d \in Int
  BY <1>1
<1>. HIDE DEF d
<1>3. ~(d >= 1)
  <2>. SUFFICES ASSUME d >= 1 PROVE FALSE
    OBVIOUS
  <2>1. M * d >= M
    BY <1>2
  <2>. QED BY <1>1, <1>2, <2>1
<1>4. ~(d <= -1)
  <2>. SUFFICES ASSUME d <= -1 PROVE FALSE
    OBVIOUS
  <2>1. M * d <= -M
    BY <1>2
  <2>. QED BY <1>1, <1>2, <2>1
<1>5. d = 0
  BY <1>2, <1>3, <1>4
<1>. QED BY <1>1, <1>2, <1>5 DEF f

\* ticket_age_add hides an age and gives it back, up to whole laps of 32 bits.
LEMMA HiddenAge ==
  ASSUME NEW M \in Nat \ {0}, NEW a \in Nat, NEW add \in 0 .. M - 1
  PROVE  (((a + add) % M) - add) % M = a % M
<1>. DEFINE k == (a + add) \div M
            f == (a + add) % M
            q == a \div M
            e == a % M
<1>1. a + add = M * k + f /\ k \in Int /\ f \in Int
  OBVIOUS
<1>2. a = M * q + e /\ q \in Int /\ e \in 0 .. M - 1
  OBVIOUS
<1>. HIDE DEF k, f, q, e
<1>3. f - add = M * (q - k) + e
  <2>1. M * (q - k) = M * q - M * k
    BY <1>1, <1>2
  <2>. QED BY <1>1, <1>2, <2>1
<1>4. (f - add) % M = e
  BY <1>1, <1>2, <1>3, Remainder
<1>. QED BY <1>4 DEF f, e

\* The server's comparison of a 32-bit age with the true one.
LEMMA Comparison ==
  ASSUME NEW M \in Nat \ {0}, NEW T \in 0 .. M - 1, NEW a \in Nat, NEW l \in Nat
  PROVE  ((a % M) - (a + l) >= -T /\ (a % M) - (a + l) <= T) <=> (l <= T /\ a < M)
<1>. DEFINE q == a \div M
            e == a % M
<1>1. a = M * q + e /\ q \in Int /\ e \in 0 .. M - 1
  OBVIOUS
<1>. HIDE DEF q, e
<1>2. CASE a < M
  <2>1. a = M * 0 + a /\ a \in 0 .. M - 1
    BY <1>2
  <2>2. e = a
    BY <2>1, Remainder DEF e
  <2>. QED BY <1>2, <2>2 DEF e
<1>3. CASE a >= M
  <2>1. q >= 1
    <3>. SUFFICES ASSUME q <= 0 PROVE FALSE
      BY <1>1
    <3>1. M * q <= 0
      BY <1>1
    <3>. QED BY <1>1, <1>3, <3>1
  <2>2. M * q >= M
    BY <1>1, <2>1
  <2>3. e - (a + l) < -T
    BY <1>1, <2>2
  <2>. QED BY <1>3, <2>3 DEF e
<1>. QED BY <1>2, <1>3

\* What the server makes of a hello when its application loaded the whole PSK: the
\* age it computes is that of the client and the two delays.
LEMMA AgeCompared ==
  ASSUME EarlyInv, load = "all", NEW x, HelloFits(tickets, clock, x)
  PROVE  AgeOk(x.h, Loaded(x.h.body.id)) <=>
           /\ (x.psk.issue - tickets[x.psk.id].issue + clock - x.made) * Second <= Tolerance
           /\ (x.made - x.psk.issue) * Second < AgeModulus
<1>. DEFINE add == x.psk.age_add
            p   == x.psk.issue
            t   == tickets[x.psk.id].issue
            a   == (x.made - p) * Second
            l   == (p - t + clock - x.made) * Second
<1>1. /\ x.psk.id \in 1 .. Len(tickets) /\ x.h.body.id = x.psk.id
      /\ p \in Nat /\ x.made \in Nat /\ clock \in Nat /\ t <= p /\ p <= x.made /\ x.made <= clock
      /\ x.h.body.age = (a + add) % AgeModulus
      /\ add = tickets[x.psk.id].age_add
  BY DEF HelloFits, PskFits, EarlyInv, TicketsOk
<1>2. tickets[x.psk.id] \in Ticket
  BY <1>1 DEF EarlyInv, TicketsOk
<1>3. t \in Nat /\ add \in 0 .. AgeModulus - 1
  BY <1>1, <1>2 DEF Ticket
<1>4. Loaded(x.h.body.id).age_add = add /\ Loaded(x.h.body.id).issue = t
  BY <1>1 DEF Loaded
<1>. HIDE DEF add, p, t
<1>5. Second \in Nat \ {0} /\ AgeModulus \in Nat \ {0} /\ Tolerance \in 0 .. AgeModulus - 1
  BY AgeAssumption
<1>6. a \in Nat /\ l \in Nat
  <2>1. x.made - p \in Nat /\ p - t + clock - x.made \in Nat
    BY <1>1, <1>3
  <2>. QED BY <1>5, <2>1
<1>7. (clock - t) * Second = a + l
  BY <1>1, <1>3, <1>5
<1>8. ClaimedAge(x.h, Loaded(x.h.body.id)) = a % AgeModulus
  <2>. HIDE DEF a
  <2>. QED BY <1>1, <1>3, <1>4, <1>5, <1>6, HiddenAge DEF ClaimedAge
<1>9. RealAge(Loaded(x.h.body.id)) = a + l
  BY <1>4, <1>7 DEF RealAge
<1>. HIDE DEF a, l
<1>10. AgeOk(x.h, Loaded(x.h.body.id)) <=> l <= Tolerance /\ a < AgeModulus
  BY <1>5, <1>6, <1>8, <1>9, Comparison DEF AgeOk
<1>. QED BY <1>10 DEF a, l, p, t

\* AcceptedExactlyWhenFresh is kept: the verdict is the comparison above, and
\* nothing it depends on changes while it stands.
LEMMA FreshKept ==
  EarlyInv /\ load = "all" /\ AcceptedExactlyWhenFresh /\ [EarlyNext]_earlyVars
    => load' = "all" /\ AcceptedExactlyWhenFresh'
<1>. SUFFICES ASSUME EarlyInv, load = "all", AcceptedExactlyWhenFresh, [EarlyNext]_earlyVars
              PROVE  load' = "all" /\ AcceptedExactlyWhenFresh'
  OBVIOUS
<1>. USE DEF AcceptedExactlyWhenFresh, Lateness, TrueAge
<1>0. DOMAIN srv = ServerFields /\ (hello = <<>> => srv.verdict = "none")
  BY DEF EarlyInv, ServerOk
<1>1. CASE MakeNewSessionTicket
  <2>1. UNCHANGED <<clock, psk, hello, cli, srv, load>>
    BY <1>1 DEF MakeNewSessionTicket
  <2>2. \A n \in 1 .. Len(tickets) : tickets'[n] = tickets[n]
    BY <1>1 DEF MakeNewSessionTicket, EarlyInv, TicketsOk
  <2>3. hello # <<>> => hello[1].psk.id \in 1 .. Len(tickets)
    BY DEF EarlyInv, ClientOk, HelloFits, PskFits
  <2>. QED BY <2>1, <2>2, <2>3
<1>2. CASE StorePsk
  BY <1>2 DEF StorePsk
<1>3. CASE MakePskClientHello
  BY <1>0, <1>3 DEF MakePskClientHello
<1>4. CASE EncryptEarlyData
  BY <1>4 DEF EncryptEarlyData
<1>5. CASE ProcessPskClientHello
  <2>. DEFINE x == hello[1]
              ok == AgeOk(x.h, Loaded(x.h.body.id))
  <2>1. hello # <<>> /\ UNCHANGED <<clock, tickets, psk, hello, cli, load>>
    BY <1>5 DEF ProcessPskClientHello
  <2>2. HelloFits(tickets, clock, x)
    BY <2>1 DEF EarlyInv, ClientOk
  <2>3. x.h.binder = tls13_compute_binder(PskValue(x.h.body.id), x.h.body)
    BY <2>2 DEF HelloFits, PskFits
  <2>4. \/ ok /\ srv' = [[srv EXCEPT !.verdict = "accepted", !.at = clock] EXCEPT !.key = EarlyKey(x), !.seq = 0]
        \/ ~ok /\ srv' = [srv EXCEPT !.verdict = "refused", !.at = clock]
    BY <1>5, <2>3 DEF ProcessPskClientHello, tls13_derive_early_traffic_keys, EarlyKey
  <2>. HIDE DEF ok
  <2>5. srv'.at = clock /\ (srv'.verdict = "accepted" <=> ok)
    <3>. DEFINE s == [srv EXCEPT !.verdict = "accepted", !.at = clock]
    <3>1. DOMAIN s = ServerFields /\ s.verdict = "accepted" /\ s.at = clock
      BY <1>0, ServerUpdate
    <3>2. CASE ok /\ srv' = [s EXCEPT !.key = EarlyKey(x), !.seq = 0]
      <4>. HIDE DEF s
      <4>. QED BY <3>1, <3>2, ServerUpdate
    <3>3. CASE ~ok /\ srv' = [srv EXCEPT !.verdict = "refused", !.at = clock]
      <4>1. srv'.verdict = "refused" /\ srv'.at = clock
        BY <1>0, <3>3, ServerUpdate
      <4>. QED BY <3>3, <4>1
    <3>. QED BY <2>4, <3>2, <3>3
  <2>6. ok <=> /\ (x.psk.issue - tickets[x.psk.id].issue + clock - x.made) * Second <= Tolerance
               /\ (x.made - x.psk.issue) * Second < AgeModulus
    BY <2>2, AgeCompared DEF ok
  <2>. QED BY <2>1, <2>5, <2>6
<1>6. CASE DecryptEarlyData
  <2>1. PICK n, got : srv' = [srv EXCEPT !.seq = n, !.got = got]
    BY <1>6 DEF DecryptEarlyData
  <2>2. srv'.verdict = srv.verdict /\ srv'.at = srv.at
    BY <1>0, <2>1, ServerUpdate
  <2>3. UNCHANGED <<clock, tickets, psk, hello, cli, load>>
    BY <1>6 DEF DecryptEarlyData
  <2>. QED BY <2>2, <2>3
<1>7. CASE HelloAgain
  <2>1. srv'.verdict = "none" /\ load' = load
    BY <1>0, <1>7, ServerUpdate DEF HelloAgain, Reused
  <2>. QED BY <2>1
<1>8. CASE EndConnection
  BY <1>8 DEF EndConnection
<1>9. CASE EarlyTick
  BY <1>9 DEF EarlyTick
<1>10. CASE UNCHANGED earlyVars
  BY <1>10 DEF earlyVars
<1>. QED BY <1>1, <1>2, <1>3, <1>4, <1>5, <1>6, <1>7, <1>8, <1>9, <1>10 DEF EarlyNext

\* A server whose application carries over every field of a PSK accepts a hello
\* exactly when it is fresh, for every width of an age and every tolerance below
\* it (tls13_process_psk_client_hello).
THEOREM AcceptsTheFresh ==
  ASSUME Loads = {"all"}
  PROVE  Spec => []AcceptedExactlyWhenFresh
<1>1. Init => load = "all" /\ AcceptedExactlyWhenFresh
  BY DEF Init, EarlyInit, AcceptedExactlyWhenFresh
<1>2. EarlyInv /\ [Next]_vars => EarlyInv'
  BY StepKeeps, NextIsEarly
<1>3. EarlyInv /\ load = "all" /\ AcceptedExactlyWhenFresh /\ [Next]_vars
        => load' = "all" /\ AcceptedExactlyWhenFresh'
  BY FreshKept, NextIsEarly
<1>. DEFINE FreshInv == EarlyInv /\ load = "all" /\ AcceptedExactlyWhenFresh
<1>4. Init => FreshInv
  BY <1>1, InitEarly
<1>5. FreshInv /\ [Next]_vars => FreshInv'
  BY <1>2, <1>3
<1>6. FreshInv => AcceptedExactlyWhenFresh
  OBVIOUS
<1>. QED BY <1>4, <1>5, <1>6, PTL DEF Spec

-----------------------------------------------------------------------------
(***************************************************************************)
(* The TLS 1.2 session cache, for every capacity, lifetime, number of      *)
(* sessions and clock.                                                     *)
(***************************************************************************)
Session == [id : Nat, master : {<<"master", n>> : n \in Nat}, ems : BOOLEAN, created : Nat]

\* The ids of a sequence of entries grow with the positions.
Ordered(q) == \A i, j \in 1 .. Len(q) : i <= j => q[j].id - q[i].id >= j - i

SessionsOk ==
  /\ now \in Nat
  /\ sessions \in Seq(Session)
  /\ \A n \in 1 .. Len(sessions) : sessions[n].id = n
  /\ ~setback => \A n \in 1 .. Len(sessions) :
                   /\ sessions[n].created <= now
                   /\ \A m \in 1 .. n : sessions[m].created <= sessions[n].created

EntriesOk ==
  /\ entries \in Seq(Session) /\ Ordered(entries)
  /\ \A x \in Range(entries) : x.id \in 1 .. Len(sessions) /\ x = sessions[x.id]

\* RecentSessionKept, on the entry instead of its id.
Recent(n) ==
  now - sessions[n].created <= kTls12SessionTtlSec /\ Len(sessions) - n < kTls12SessionCacheMax

RecentOk == ~setback => \A n \in 1 .. Len(sessions) : Recent(n) => sessions[n] \in Range(entries)

\* The inductive invariant for the session cache.
CacheInv == SessionsOk /\ EntriesOk /\ RecentOk /\ ResumesOwnSession

-----------------------------------------------------------------------------
RemoveStep(kept, x, gone) == keep_unless(kept, x, gone)
LookStep(l, x, id) == look(l, x, id)

Removal == INSTANCE FoldSteps WITH op <- RemoveStep
Looking == INSTANCE FoldSteps WITH op <- LookStep

\* r holds what is kept along the way.
RemoveRun(r, es, gone, n) ==
  /\ r[0] = <<>>
  /\ \A i \in 1 .. n : r[i] = keep_unless(r[i - 1], es[i], gone)
  /\ remove_if(es, gone) = r[n]

LEMMA RemoveSteps ==
  ASSUME NEW es, NEW gone, NEW n \in Nat, DOMAIN es = 1 .. n
  PROVE  \E r : RemoveRun(r, es, gone, n)
<1>1. remove_if(es, gone) = Removal!Fold(gone, <<>>, es)
  BY DEF remove_if, RemoveStep, Removal!Fold, FoldLeft, MapThenFoldSet, Max,
         Removal!FoldLeft, Removal!MapThenFoldSet, Removal!Max
<1>2. PICK r : Removal!IsRun(r, gone, <<>>, es, n)
  BY Removal!Steps
<1> QED
  BY <1>1, <1>2 DEF RemoveStep, RemoveRun, Removal!IsRun

NothingYet == [found |-> <<>>, entries |-> <<>>]

LookRun(r, es, id, n) ==
  /\ r[0] = NothingYet
  /\ \A i \in 1 .. n : r[i] = look(r[i - 1], es[i], id)
  /\ lookup(es, id) = r[n]

LEMMA LookSteps ==
  ASSUME NEW es, NEW id, NEW n \in Nat, DOMAIN es = 1 .. n
  PROVE  \E r : LookRun(r, es, id, n)
<1>1. lookup(es, id) = Looking!Fold(id, NothingYet, es)
  BY DEF lookup, LookStep, NothingYet, Looking!Fold, FoldLeft, MapThenFoldSet, Max,
         Looking!FoldLeft, Looking!MapThenFoldSet, Looking!Max
<1>2. PICK r : Looking!IsRun(r, id, NothingYet, es, n)
  BY Looking!Steps
<1> QED
  BY <1>1, <1>2 DEF LookStep, LookRun, Looking!IsRun

-----------------------------------------------------------------------------
\* An entry with a greater id than all before it.
LEMMA AppendOrdered ==
  ASSUME NEW q \in Seq(Session), Ordered(q), NEW x \in Session,
         \A i \in 1 .. Len(q) : q[i].id < x.id
  PROVE  /\ Append(q, x) \in Seq(Session) /\ Ordered(Append(q, x))
         /\ Range(Append(q, x)) = Range(q) \cup {x}
<1> DEFINE n == Len(q)
           p == Append(q, x)
<1>1. /\ p \in Seq(Session) /\ Len(p) = n + 1 /\ n \in Nat /\ p[n + 1] = x
      /\ \A i \in 1 .. n : p[i] = q[i]
  OBVIOUS
<1>2. \A i \in 1 .. n : q[i].id \in Nat
  <2>1. \A i \in 1 .. n : q[i] \in Session
    OBVIOUS
  <2> QED
    BY <2>1 DEF Session
<1>3. x.id \in Nat
  BY DEF Session
<1>4. DOMAIN p = 1 .. n + 1 /\ DOMAIN q = 1 .. n
  OBVIOUS
<1> HIDE DEF p, n
<1>5. Range(p) = Range(q) \cup {x}
  <2>1. \A i \in 1 .. n + 1 : i = n + 1 \/ i \in 1 .. n
    BY <1>1
  <2>2. \A i \in 1 .. n : i \in 1 .. n + 1
    BY <1>1
  <2>3. n + 1 \in 1 .. n + 1
    BY <1>1
  <2> QED
    BY <1>1, <1>4, <2>1, <2>2, <2>3 DEF Range
<1>6. Ordered(p)
  <2> SUFFICES ASSUME NEW i \in 1 .. n + 1, NEW j \in 1 .. n + 1, i <= j
               PROVE  p[j].id - p[i].id >= j - i
    BY <1>1 DEF Ordered
  <2>1. CASE j \in 1 .. n
    <3>1. i \in 1 .. n
      BY <1>1, <2>1
    <3> QED
      BY <1>1, <2>1, <3>1 DEF Ordered, n
  <2>2. CASE j = n + 1 /\ i = n + 1
    BY <1>1, <1>3, <2>2
  <2>3. CASE j = n + 1 /\ i \in 1 .. n
    <3>1. n \in 1 .. n
      BY <1>1, <2>3
    <3>2. q[n].id - q[i].id >= n - i
      BY <1>1, <2>3, <3>1 DEF Ordered, n
    <3>3. q[n].id < x.id
      BY <3>1 DEF n
    <3>4. x.id - q[i].id >= (n + 1) - i
      BY <1>1, <1>2, <1>3, <2>3, <3>1, <3>2, <3>3
    <3> QED
      BY <1>1, <2>3, <3>4
  <2> QED
    BY <1>1, <2>1, <2>2, <2>3
<1> QED
  BY <1>1, <1>5, <1>6 DEF p

\* The first i entries of es.
First(es, i) == {es[j] : j \in 1 .. i}

LEMMA FirstFacts ==
  ASSUME NEW es \in Seq(Session), Ordered(es)
  PROVE  /\ First(es, 0) = {} /\ First(es, Len(es)) = Range(es)
         /\ \A i \in 1 .. Len(es) :
              /\ First(es, i) = First(es, i - 1) \cup {es[i]} /\ es[i] \in Session
              /\ \A y \in First(es, i - 1) : y.id < es[i].id
<1>1. DOMAIN es = 1 .. Len(es) /\ Len(es) \in Nat
  OBVIOUS
<1>2. First(es, 0) = {}
  BY DEF First
<1>3. First(es, Len(es)) = Range(es)
  BY <1>1 DEF First, Range
<1>4. ASSUME NEW i \in 1 .. Len(es)
      PROVE  /\ First(es, i) = First(es, i - 1) \cup {es[i]} /\ es[i] \in Session
             /\ \A y \in First(es, i - 1) : y.id < es[i].id
  <2>1. es[i] \in Session
    BY <1>1
  <2>2. First(es, i) = First(es, i - 1) \cup {es[i]}
    <3>1. /\ \A j \in 1 .. i : j = i \/ j \in 1 .. i - 1
          /\ \A j \in 1 .. i - 1 : j \in 1 .. i
          /\ i \in 1 .. i
      BY <1>1
    <3> QED
      BY <3>1 DEF First
  <2>3. ASSUME NEW j \in 1 .. i - 1 PROVE es[j].id < es[i].id
    <3>1. j \in 1 .. Len(es) /\ j < i /\ j <= i
      BY <1>1
    <3>2. es[i].id - es[j].id >= i - j
      BY <3>1, Zenon DEF Ordered
    <3>3. es[i].id \in Nat /\ es[j].id \in Nat
      <4>1. es[i] \in Session /\ es[j] \in Session
        BY <3>1
      <4> QED
        BY <4>1 DEF Session
    <3> QED
      BY <1>1, <3>1, <3>2, <3>3
  <2> QED
    BY <2>1, <2>2, <2>3 DEF First
<1> QED
  BY <1>2, <1>3, <1>4

\* remove_if keeps the order and the entries that are not in gone.
LEMMA Removes ==
  ASSUME NEW es \in Seq(Session), Ordered(es), NEW gone
  PROVE  /\ remove_if(es, gone) \in Seq(Session) /\ Ordered(remove_if(es, gone))
         /\ Range(remove_if(es, gone)) = Range(es) \ gone
<1> DEFINE n == Len(es)
           Kept(q, i) == /\ q \in Seq(Session) /\ Ordered(q)
                         /\ Range(q) = First(es, i) \ gone
           empty == <<>>
<1>1. n \in Nat /\ DOMAIN es = 1 .. n
  OBVIOUS
<1>2. PICK r : RemoveRun(r, es, gone, n)
  BY <1>1, RemoveSteps
<1>3. empty \in Seq(Session) /\ Ordered(empty) /\ Range(empty) = {}
  BY DEF Ordered, Range
<1>4. Kept(r[0], 0)
  <2>1. r[0] = empty
    BY <1>2 DEF RemoveRun
  <2> HIDE DEF empty
  <2> QED
    BY <1>3, <2>1, FirstFacts
<1> HIDE DEF n
<1>5. ASSUME NEW i \in 1 .. n, Kept(r[i - 1], i - 1) PROVE Kept(r[i], i)
  <2> DEFINE x == es[i]
             q == r[i - 1]
  <2>1. r[i] = IF x \in gone THEN q ELSE Append(q, x)
    BY <1>2 DEF RemoveRun, keep_unless
  <2>2. /\ First(es, i) = First(es, i - 1) \cup {x} /\ x \in Session
        /\ \A y \in First(es, i - 1) : y.id < x.id
    BY FirstFacts DEF n
  <2>3. q \in Seq(Session) /\ Ordered(q) /\ Range(q) = First(es, i - 1) \ gone
    BY <1>5
  <2> HIDE DEF q, x
  <2>4. \A j \in 1 .. Len(q) : q[j].id < x.id
    <3>1. \A j \in 1 .. Len(q) : q[j] \in Range(q)
      BY <2>3 DEF Range
    <3> QED
      BY <2>2, <2>3, <3>1
  <2>5. CASE x \in gone
    BY <2>1, <2>2, <2>3, <2>5
  <2>6. CASE x \notin gone
    <3>1. /\ Append(q, x) \in Seq(Session) /\ Ordered(Append(q, x))
          /\ Range(Append(q, x)) = Range(q) \cup {x}
      BY <2>2, <2>3, <2>4, AppendOrdered
    <3> QED
      BY <2>1, <2>2, <2>3, <2>6, <3>1
  <2> QED
    BY <2>5, <2>6
<1> DEFINE K == {i \in Nat : i \in 0 .. n => Kept(r[i], i)}
<1>6. 0 \in K
  BY <1>4
<1>7. ASSUME NEW i \in Nat, i \in K PROVE i + 1 \in K
  <2>1. ASSUME i + 1 \in 0 .. n PROVE Kept(r[i + 1], i + 1)
    <3> DEFINE j == i + 1
    <3>1. j \in 1 .. n /\ j - 1 = i /\ i \in 0 .. n
      BY <1>1, <2>1
    <3>2. Kept(r[i], i)
      BY <1>7, <3>1
    <3> HIDE DEF j, Kept
    <3>3. Kept(r[j - 1], j - 1)
      BY <3>1, <3>2
    <3>4. Kept(r[j], j)
      BY <1>5, <3>1, <3>3
    <3> QED
      BY <3>4 DEF j
  <2> QED
    BY <2>1
<1> HIDE DEF K
<1>8. n \in K
  BY <1>1, <1>6, <1>7, Removal!NatSetInduction
<1>9. Kept(r[n], n)
  BY <1>1, <1>8 DEF K
<1> QED
  BY <1>2, <1>9, FirstFacts DEF RemoveRun, n

\* lookup keeps the order and every entry that has not expired, and finds an entry
\* of that id that has not expired.
LEMMA Looks ==
  ASSUME NEW es \in Seq(Session), Ordered(es), NEW id
  PROVE  /\ lookup(es, id).entries \in Seq(Session) /\ Ordered(lookup(es, id).entries)
         /\ Range(lookup(es, id).entries) \subseteq Range(es)
         /\ \A x \in Range(es) : ~Expired(x) => x \in Range(lookup(es, id).entries)
         /\ \/ lookup(es, id).found = <<>>
            \/ \E x \in Range(es) : ~Expired(x) /\ x.id = id /\ lookup(es, id).found = <<x>>
<1> DEFINE n == Len(es)
           Seen(l, i) ==
             /\ l.entries \in Seq(Session) /\ Ordered(l.entries)
             /\ Range(l.entries) \subseteq First(es, i)
             /\ \A x \in First(es, i) : ~Expired(x) => x \in Range(l.entries)
             /\ \/ l.found = <<>>
                \/ \E x \in First(es, i) : ~Expired(x) /\ x.id = id /\ l.found = <<x>>
           empty == <<>>
<1>1. n \in Nat /\ DOMAIN es = 1 .. n
  OBVIOUS
<1>2. PICK r : LookRun(r, es, id, n)
  BY <1>1, LookSteps
<1>3. empty \in Seq(Session) /\ Ordered(empty) /\ Range(empty) = {}
  BY DEF Ordered, Range
<1>4. Seen(r[0], 0)
  <2>1. r[0].entries = empty /\ r[0].found = <<>>
    BY <1>2 DEF LookRun, NothingYet
  <2> HIDE DEF empty
  <2> QED
    BY <1>3, <2>1, FirstFacts
<1> HIDE DEF n
<1>5. ASSUME NEW i \in 1 .. n, Seen(r[i - 1], i - 1) PROVE Seen(r[i], i)
  <2> DEFINE x == es[i]
             l == r[i - 1]
             q == l.entries
  <2>1. r[i] = look(l, x, id)
    BY <1>2 DEF LookRun
  <2>2. /\ First(es, i) = First(es, i - 1) \cup {x} /\ x \in Session
        /\ \A y \in First(es, i - 1) : y.id < x.id
    BY FirstFacts DEF n
  <2>3. /\ q \in Seq(Session) /\ Ordered(q) /\ Range(q) \subseteq First(es, i - 1)
        /\ \A y \in First(es, i - 1) : ~Expired(y) => y \in Range(q)
        /\ \/ l.found = <<>>
           \/ \E y \in First(es, i - 1) : ~Expired(y) /\ y.id = id /\ l.found = <<y>>
    BY <1>5
  <2>4. q = l.entries
    OBVIOUS
  <2> HIDE DEF q, x, l
  <2>5. \A j \in 1 .. Len(q) : q[j].id < x.id
    <3>1. \A j \in 1 .. Len(q) : q[j] \in Range(q)
      BY <2>3 DEF Range
    <3> QED
      BY <2>2, <2>3, <3>1
  <2>6. CASE l.found = <<>> /\ Expired(x)
    <3>1. r[i] = l
      BY <2>1, <2>6 DEF look
    <3> QED
      BY <2>2, <2>3, <2>4, <2>6, <3>1
  <2>7. CASE ~(l.found = <<>> /\ Expired(x))
    <3> DEFINE p == Append(q, x)
    <3>1. r[i].entries = p
          /\ r[i].found = IF l.found = <<>> /\ x.id = id THEN <<x>> ELSE l.found
      BY <2>1, <2>4, <2>7 DEF look
    <3>2. p \in Seq(Session) /\ Ordered(p) /\ Range(p) = Range(q) \cup {x}
      BY <2>2, <2>3, <2>5, AppendOrdered
    <3> HIDE DEF p
    <3>3. \/ r[i].found = <<>>
          \/ \E y \in First(es, i) : ~Expired(y) /\ y.id = id /\ r[i].found = <<y>>
      BY <2>2, <2>3, <2>7, <3>1
    <3> QED
      BY <2>2, <2>3, <3>1, <3>2, <3>3
  <2> QED
    BY <2>6, <2>7
<1> DEFINE K == {i \in Nat : i \in 0 .. n => Seen(r[i], i)}
<1>6. 0 \in K
  BY <1>4
<1>7. ASSUME NEW i \in Nat, i \in K PROVE i + 1 \in K
  <2>1. ASSUME i + 1 \in 0 .. n PROVE Seen(r[i + 1], i + 1)
    <3> DEFINE j == i + 1
    <3>1. j \in 1 .. n /\ j - 1 = i /\ i \in 0 .. n
      BY <1>1, <2>1
    <3>2. Seen(r[i], i)
      BY <1>7, <3>1
    <3> HIDE DEF j, Seen
    <3>3. Seen(r[j - 1], j - 1)
      BY <3>1, <3>2
    <3>4. Seen(r[j], j)
      BY <1>5, <3>1, <3>3
    <3> QED
      BY <3>4 DEF j
  <2> QED
    BY <2>1
<1> HIDE DEF K
<1>8. n \in K
  BY <1>1, <1>6, <1>7, Looking!NatSetInduction
<1>9. Seen(r[n], n)
  BY <1>1, <1>8 DEF K
<1>10. lookup(es, id) = r[n] /\ First(es, n) = Range(es)
  BY <1>2, FirstFacts DEF LookRun, n
<1> QED
  BY <1>9, <1>10

\* Position i holds the first of the smallest times of creation.
IsOldest(es, n, i) ==
  /\ i \in 1 .. n
  /\ \A j \in 1 .. n : \/ es[i].created < es[j].created
                       \/ es[i].created = es[j].created /\ i <= j

LEMMA OldestExists ==
  ASSUME NEW es \in Seq(Session), Len(es) # 0
  PROVE  IsOldest(es, Len(es), Oldest(es))
<1> DEFINE n == Len(es)
           Has(k) == \E i \in 1 .. k : IsOldest(es, k, i)
           K == {k \in Nat : k \in 1 .. n => Has(k)}
<1>1. n \in Nat /\ n # 0 /\ DOMAIN es = 1 .. n
  OBVIOUS
<1>2. \A i \in 1 .. n : es[i].created \in Nat
  <2>1. \A i \in 1 .. n : es[i] \in Session
    OBVIOUS
  <2> QED
    BY <2>1 DEF Session
<1> HIDE DEF n
<1>3. 0 \in K
  OBVIOUS
<1>4. ASSUME NEW k \in Nat, k \in K PROVE k + 1 \in K
  <2> SUFFICES ASSUME k + 1 \in 1 .. n PROVE Has(k + 1)
    OBVIOUS
  <2>1. CASE k = 0
    <3>1. IsOldest(es, 1, 1)
      BY <1>1, <1>2 DEF IsOldest
    <3> QED
      BY <2>1, <3>1
  <2>2. CASE k # 0
    <3>1. k \in 1 .. n
      BY <1>1, <2>2
    <3>2. PICK i \in 1 .. k : IsOldest(es, k, i)
      BY <1>4, <3>1
    <3>3. /\ es[i].created \in Nat /\ es[k + 1].created \in Nat
          /\ \A j \in 1 .. k + 1 : j \in 1 .. k \/ j = k + 1
          /\ \A j \in 1 .. k : es[j].created \in Nat
      BY <1>1, <1>2, <3>1
    <3>4. CASE es[k + 1].created < es[i].created
      <4>1. \A j \in 1 .. k : es[k + 1].created < es[j].created
        BY <3>2, <3>3, <3>4 DEF IsOldest
      <4>2. IsOldest(es, k + 1, k + 1)
        BY <3>3, <4>1 DEF IsOldest
      <4> QED
        BY <4>2
    <3>5. CASE ~(es[k + 1].created < es[i].created)
      <4>1. IsOldest(es, k + 1, i)
        BY <3>2, <3>3, <3>5 DEF IsOldest
      <4>2. i \in 1 .. k + 1
        OBVIOUS
      <4> QED
        BY <4>1, <4>2
    <3> QED
      BY <3>4, <3>5
  <2> QED
    BY <2>1, <2>2
<1> HIDE DEF K
<1>5. n \in K
  BY <1>1, <1>3, <1>4, Removal!NatSetInduction
<1>6. \E i : IsOldest(es, n, i)
  BY <1>1, <1>5 DEF K
<1>7. Oldest(es) = CHOOSE i \in 1 .. n : IsOldest(es, n, i)
  BY <1>1, Zenon DEF Oldest, IsOldest
<1>8. \E i \in 1 .. n : IsOldest(es, n, i)
  BY <1>6 DEF IsOldest
<1>9. IsOldest(es, n, Oldest(es))
  BY <1>7, <1>8, Zenon
<1> QED
  BY <1>9 DEF n

\* Evict makes room by removing one entry; without a clock set back the first.
LEMMA Evicts ==
  ASSUME NEW es \in Seq(Session), Ordered(es)
  PROVE  /\ Evict(es) \in Seq(Session) /\ Ordered(Evict(es)) /\ Range(Evict(es)) \subseteq Range(es)
         /\ Len(es) < kTls12SessionCacheMax => Evict(es) = es
         /\ (\A j \in 1 .. Len(es) : es[1].created <= es[j].created)
              => \A j \in 2 .. Len(es) : es[j] \in Range(Evict(es))
<1> DEFINE n == Len(es)
           o == Oldest(es)
           q == RemoveAt(es, o)
<1>1. n \in Nat /\ kTls12SessionCacheMax \in Nat \ {0} /\ DOMAIN es = 1 .. n
  BY CacheAssumption
<1>2. CASE n < kTls12SessionCacheMax
  <2>1. Evict(es) = es
    BY <1>1, <1>2 DEF Evict
  <2>2. \A j \in 2 .. n : es[j] \in Range(es)
    BY <1>1 DEF Range
  <2> QED
    BY <2>1, <2>2
<1>3. CASE n >= kTls12SessionCacheMax
  <2>1. n # 0 /\ Evict(es) = q
    BY <1>1, <1>3 DEF Evict
  <2>2. IsOldest(es, n, o)
    BY <2>1, OldestExists
  <2>3. o \in 1 .. n
    BY <2>2 DEF IsOldest
  <2> HIDE DEF o
  <2>4. /\ q \in Seq(Session) /\ Len(q) = n - 1
        /\ \A j \in 1 .. n - 1 : q[j] = IF j < o THEN es[j] ELSE es[j + 1]
    <3> DEFINE a == SubSeq(es, 1, o - 1)
               b == SubSeq(es, o + 1, n)
    <3>1. /\ a \in Seq(Session) /\ Len(a) = o - 1
          /\ \A j \in 1 .. o - 1 : a[j] = es[j]
      BY <1>1, <2>3
    <3>2. /\ b \in Seq(Session) /\ Len(b) = n - o
          /\ \A j \in 1 .. n - o : b[j] = es[o + j]
      <4> DEFINE m == o + 1
      <4>1. m \in Int /\ n \in Int /\ n - m + 1 = n - o /\ (~(m <= n) => n - o = 0)
        <5> HIDE DEF n
        <5>1. o \in Int /\ n \in Nat /\ o <= n
          BY <1>1, <2>3
        <5> QED
          BY <5>1
      <4>2. \A i \in m .. n : es[i] \in Session
        BY <1>1, <2>3
      <4> HIDE DEF m, n
      <4>3. /\ SubSeq(es, m, n) \in Seq(Session)
            /\ Len(SubSeq(es, m, n)) = IF m <= n THEN n - m + 1 ELSE 0
            /\ \A i \in 1 .. n - m + 1 : SubSeq(es, m, n)[i] = es[m + i - 1]
        BY <4>1, <4>2, SubSeqProperties
      <4>4. \A j \in 1 .. n - o : m + j - 1 = o + j
        BY <1>1, <2>3 DEF m
      <4> QED
        BY <4>1, <4>3, <4>4 DEF m
    <3>3. q = a \o b
      BY DEF RemoveAt
    <3> HIDE DEF a, b, q, n
    <3>4. q \in Seq(Session) /\ Len(q) = n - 1
      BY <1>1, <2>3, <3>1, <3>2, <3>3
    <3>5. ASSUME NEW j \in 1 .. n - 1 PROVE q[j] = IF j < o THEN es[j] ELSE es[j + 1]
      <4>1. CASE j < o
        <5>1. j \in 1 .. Len(a) /\ j \in 1 .. o - 1
          BY <1>1, <2>3, <3>1, <4>1
        <5> QED
          BY <3>1, <3>2, <3>3, <4>1, <5>1
      <4>2. CASE ~(j < o)
        <5> DEFINE i == j - (o - 1)
        <5>1. i \in 1 .. n - o /\ o + i = j + 1 /\ i = j - Len(a) /\ j > Len(a)
          BY <1>1, <2>3, <3>1, <4>2
        <5>2. q[j] = b[j - Len(a)]
          BY <1>1, <2>3, <3>1, <3>2, <3>3, <5>1
        <5>3. b[i] = es[o + i]
          BY <3>2, <5>1
        <5> QED
          BY <4>2, <5>1, <5>2, <5>3
      <4> QED
        BY <4>1, <4>2
    <3> QED
      BY <3>4, <3>5
  <2>5. DOMAIN q = 1 .. n - 1
    BY <2>4
  <2> HIDE DEF q, n
  <2>6. Ordered(q)
    <3> SUFFICES ASSUME NEW i \in 1 .. n - 1, NEW j \in 1 .. n - 1, i <= j
                 PROVE  q[j].id - q[i].id >= j - i
      BY <2>4 DEF Ordered
    <3> DEFINE a == IF i < o THEN i ELSE i + 1
               b == IF j < o THEN j ELSE j + 1
    <3>1. /\ a \in 1 .. n /\ b \in 1 .. n /\ a <= b /\ b - a >= j - i
          /\ a \in Int /\ b \in Int
      BY <1>1, <2>3
    <3>2. q[i] = es[a] /\ q[j] = es[b]
      BY <2>4
    <3> HIDE DEF a, b
    <3>3. es[b].id - es[a].id >= b - a
      BY <3>1, Zenon DEF Ordered, n
    <3>4. es[a].id \in Nat /\ es[b].id \in Nat
      <4>1. es[a] \in Session /\ es[b] \in Session
        BY <1>1, <3>1 DEF n
      <4> QED
        BY <4>1 DEF Session
    <3> QED
      BY <3>1, <3>2, <3>3, <3>4
  <2>7. Range(q) \subseteq Range(es)
    <3>1. \A j \in 1 .. n - 1 : j \in 1 .. n /\ j + 1 \in 1 .. n
      BY <1>1
    <3> QED
      BY <1>1, <2>4, <2>5, <3>1 DEF Range
  <2>8. ASSUME \A j \in 1 .. n : es[1].created <= es[j].created, NEW j \in 2 .. n
        PROVE  es[j] \in Range(q)
    <3>1. 1 \in 1 .. n /\ es[o].created \in Nat /\ es[1].created \in Nat
      <4>1. 1 \in 1 .. n
        BY <1>1, <2>3
      <4>2. es[o] \in Session /\ es[1] \in Session
        BY <1>1, <2>3, <4>1 DEF n
      <4> QED
        BY <4>1, <4>2 DEF Session
    <3>2. es[o].created < es[1].created \/ o <= 1
      BY <2>2, <3>1 DEF IsOldest
    <3>3. es[1].created <= es[o].created
      BY <2>3, <2>8
    <3>4. o = 1
      BY <1>1, <2>3, <3>1, <3>2, <3>3
    <3> DEFINE i == j - 1
    <3>5. i \in 1 .. n - 1 /\ i + 1 = j /\ ~(i < o)
      BY <1>1, <3>4
    <3>6. q[i] = es[j]
      BY <2>4, <3>5
    <3> QED
      BY <2>5, <3>5, <3>6 DEF Range
  <2> QED
    BY <1>1, <1>3, <2>1, <2>4, <2>6, <2>7, <2>8 DEF n
<1> QED
  BY <1>1, <1>2, <1>3

\* Every step of TlsResumption is one of Tls12SessionCache or leaves it alone.
LEMMA NextIsCache == [Next]_vars => [CacheNext]_cacheVars
  BY DEF Next, vars

LEMMA InitCache == Init => CacheInv
<1> SUFFICES ASSUME Init PROVE CacheInv
  OBVIOUS
<1>1. now = 0 /\ entries = <<>> /\ sessions = <<>> /\ setback = FALSE /\ resumed = <<>>
  BY DEF Init, CacheInit
<1>2. SessionsOk
  BY <1>1 DEF SessionsOk
<1>3. EntriesOk
  BY <1>1 DEF EntriesOk, Ordered, Range
<1>4. RecentOk /\ ResumesOwnSession
  BY <1>1 DEF RecentOk, ResumesOwnSession
<1> QED
  BY <1>2, <1>3, <1>4 DEF CacheInv

LEMMA Times ==
  ASSUME SessionsOk
  PROVE  now \in Nat /\ \A n \in 1 .. Len(sessions) : sessions[n].created \in Nat
<1>1. now \in Nat /\ sessions \in Seq(Session)
  BY DEF SessionsOk
<1>2. \A n \in 1 .. Len(sessions) : sessions[n] \in Session
  BY <1>1
<1> QED
  BY <1>1, <1>2 DEF Session

\* store of a session that has the id after all of the cache.
LEMMA Stores ==
  ASSUME SessionsOk, EntriesOk, RecentOk,
         NEW e, e.id = Len(sessions) + 1, NEW e2 \in Session, e2 = [e EXCEPT !.created = now],
         e2.id = Len(sessions) + 1
  PROVE  /\ store(entries, e) \in Seq(Session) /\ Ordered(store(entries, e))
         /\ \A x \in Range(store(entries, e)) : x \in Range(entries) \/ x = e2
         /\ e2 \in Range(store(entries, e))
         /\ ~setback => \A n \in 1 .. Len(sessions) :
              /\ now - sessions[n].created <= kTls12SessionTtlSec
              /\ Len(sessions) + 1 - n < kTls12SessionCacheMax
              => sessions[n] \in Range(store(entries, e))
<1> DEFINE N == Len(sessions)
           old == {x \in Range(entries) : Expired(x)}
           fresh == remove_if(entries, old)
           same == {x \in Range(fresh) : x.id = e.id}
           others == remove_if(fresh, same)
           q == Evict(others)
           new == store(entries, e)
<1>1. /\ N \in Nat /\ entries \in Seq(Session) /\ Ordered(entries)
      /\ \A x \in Range(entries) : x.id \in 1 .. N /\ x = sessions[x.id]
  BY DEF SessionsOk, EntriesOk
<1>2. new = Append(q, e2)
  BY DEF store
<1> HIDE DEF old, new, N
<1>3. fresh \in Seq(Session) /\ Ordered(fresh) /\ Range(fresh) = Range(entries) \ old
  BY <1>1, Removes
<1> HIDE DEF fresh
<1>4. same = {}
  BY <1>1, <1>3 DEF N
<1> HIDE DEF same
<1>5. others \in Seq(Session) /\ Ordered(others) /\ Range(others) = Range(entries) \ old
  BY <1>3, <1>4, Removes
<1> HIDE DEF others
<1>6. /\ q \in Seq(Session) /\ Ordered(q) /\ Range(q) \subseteq Range(others)
      /\ Len(others) < kTls12SessionCacheMax => q = others
      /\ (\A j \in 1 .. Len(others) : others[1].created <= others[j].created)
           => \A j \in 2 .. Len(others) : others[j] \in Range(q)
  BY <1>5, Evicts
<1> HIDE DEF q
<1>7. ASSUME NEW i \in 1 .. Len(q) PROVE q[i].id < e2.id
  <2>1. q[i] \in Range(q)
    BY <1>6 DEF Range
  <2>2. q[i].id \in 1 .. N
    BY <1>1, <1>5, <1>6, <2>1
  <2> QED
    BY <1>1, <2>2 DEF N
<1>8. new \in Seq(Session) /\ Ordered(new) /\ Range(new) = Range(q) \cup {e2}
  BY <1>2, <1>6, <1>7, AppendOrdered
<1>9. ASSUME NEW j \in 1 .. Len(others)
      PROVE  /\ others[j] \in Range(others) /\ others[j].id \in 1 .. N
             /\ others[j] = sessions[others[j].id]
  <2>1. others[j] \in Range(others)
    BY <1>5 DEF Range
  <2> QED
    BY <1>1, <1>5, <2>1
<1>10. ASSUME ~setback, NEW n \in 1 .. N,
              now - sessions[n].created <= kTls12SessionTtlSec,
              N + 1 - n < kTls12SessionCacheMax
       PROVE  sessions[n] \in Range(new)
  <2> DEFINE l == Len(others)
  <2>0. l \in Nat /\ kTls12SessionCacheMax \in Nat
    BY <1>5, CacheAssumption
  <2>1. Recent(n)
    BY <1>1, <1>10, <2>0 DEF Recent, N
  <2>2. sessions[n] \in Range(entries)
    BY <1>10, <2>1 DEF RecentOk, N
  <2>3. sessions[n] \notin old
    <3>1. now \in Nat /\ sessions[n].created \in Nat
      BY <1>10, Times DEF N
    <3>2. ~Expired(sessions[n])
      BY <1>10, <3>1, CacheAssumption DEF Expired
    <3> QED
      BY <3>2 DEF old
  <2>4. sessions[n] \in Range(others)
    BY <1>5, <2>2, <2>3
  <2>5. PICK j \in 1 .. l : others[j] = sessions[n]
    BY <1>5, <2>4 DEF Range
  <2>6. CASE l < kTls12SessionCacheMax
    BY <1>6, <1>8, <2>4, <2>6
  <2>7. CASE ~(l < kTls12SessionCacheMax)
    <3>1. 1 \in 1 .. l /\ l \in 1 .. l
      BY <2>0, <2>5
    <3>2. ASSUME NEW i \in 1 .. l PROVE others[1].created <= others[i].created
      <4>1. others[i].id - others[1].id >= i - 1
        BY <1>5, <3>1, 1 <= i, Zenon DEF Ordered
      <4>2. others[1].id <= others[i].id /\ others[1].id \in 1 .. N /\ others[i].id \in 1 .. N
        BY <1>1, <1>9, <2>0, <3>1, <4>1
      <4>3. others[1].id \in 1 .. others[i].id
        BY <1>1, <4>2
      <4>4. sessions[others[1].id].created <= sessions[others[i].id].created
        BY <1>1, <1>10, <4>2, <4>3 DEF SessionsOk, N
      <4> QED
        BY <1>9, <3>1, <4>4
    <3>3. j # 1
      <4>1. sessions[n].id = n
        BY <1>10 DEF SessionsOk, N
      <4>2. others[l].id - others[1].id >= l - 1
        BY <1>5, <2>0, <3>1, 1 <= l, Zenon DEF Ordered
      <4>3. others[l].id \in 1 .. N /\ others[1].id \in 1 .. N
        BY <1>9, <3>1
      <4>4. others[1].id # n
        BY <1>1, <1>10, <2>0, <2>7, <4>2, <4>3
      <4> QED
        BY <2>5, <4>1, <4>4
    <3>4. j \in 2 .. l
      BY <2>0, <2>5, <3>3
    <3>5. others[j] \in Range(q)
      BY <1>6, <3>2, <3>4
    <3> QED
      BY <1>8, <2>5, <3>5
  <2> QED
    BY <2>6, <2>7
<1> QED
  BY <1>5, <1>6, <1>8, <1>10 DEF new, N

\* A full handshake stores its session (tls12_session_cache_store).
LEMMA FullKeeps == CacheInv /\ (\E ems \in BOOLEAN : FullHandshake(ems)) => CacheInv'
<1> SUFFICES ASSUME CacheInv, NEW ems \in BOOLEAN, FullHandshake(ems) PROVE CacheInv'
  OBVIOUS
<1> DEFINE N == Len(sessions)
           n == N + 1
           e == [id |-> n, master |-> <<"master", n>>, ems |-> ems, created |-> 0]
           e2 == [e EXCEPT !.created = now]
<1>1. SessionsOk /\ EntriesOk /\ RecentOk
  BY DEF CacheInv
<1>2. /\ entries' = store(entries, e) /\ sessions' = Append(sessions, e2)
      /\ resumed' = <<>> /\ now' = now /\ setback' = setback
  BY DEF FullHandshake
<1>3. N \in Nat /\ now \in Nat /\ sessions \in Seq(Session)
  BY <1>1 DEF SessionsOk
<1>4. e2 \in Session /\ e2.id = n /\ e2.created = now /\ e.id = n
  <2>1. n \in Nat /\ <<"master", n>> \in {<<"master", i>> : i \in Nat}
    BY <1>3
  <2> QED
    BY <1>3, <2>1 DEF Session
<1>5. e2 = [e EXCEPT !.created = now] /\ n = N + 1
  OBVIOUS
<1> HIDE DEF e, e2, n
<1>6. /\ sessions' \in Seq(Session) /\ Len(sessions') = n
      /\ \A i \in 1 .. N : sessions'[i] = sessions[i]
      /\ sessions'[n] = e2 /\ DOMAIN sessions' = 1 .. n
      /\ \A i \in 1 .. n : i \in 1 .. N \/ i = n
      /\ \A i \in 1 .. N : i \in 1 .. n
      /\ n \in 1 .. n
  BY <1>2, <1>3, <1>4 DEF n
<1> DEFINE new == store(entries, e)
<1>7. /\ new \in Seq(Session) /\ Ordered(new)
      /\ \A x \in Range(new) : x \in Range(entries) \/ x = e2
      /\ e2 \in Range(new)
      /\ ~setback => \A i \in 1 .. N :
           /\ now - sessions[i].created <= kTls12SessionTtlSec
           /\ N + 1 - i < kTls12SessionCacheMax
           => sessions[i] \in Range(new)
  BY <1>1, <1>4, <1>5, Stores
<1> HIDE DEF new, N
<1>8. SessionsOk'
  <2>1. \A i \in 1 .. n : sessions'[i].id = i
    BY <1>1, <1>4, <1>6 DEF SessionsOk, N
  <2>2. ASSUME ~setback, NEW i \in 1 .. n
        PROVE  /\ sessions'[i].created <= now
               /\ \A m \in 1 .. i : sessions'[m].created <= sessions'[i].created
    <3>1. CASE i = n
      <4>1. ASSUME NEW m \in 1 .. n PROVE sessions'[m].created <= now
        BY <1>1, <1>3, <1>4, <1>6, <2>2 DEF SessionsOk, N
      <4> QED
        BY <1>4, <1>6, <3>1, <4>1
    <3>2. CASE i \in 1 .. N
      <4>1. \A m \in 1 .. i : m \in 1 .. N
        BY <1>3, <3>2
      <4> QED
        BY <1>1, <1>6, <2>2, <3>2, <4>1 DEF SessionsOk, N
    <3> QED
      BY <1>6, <3>1, <3>2
  <2> QED
    BY <1>2, <1>3, <1>6, <2>1, <2>2 DEF SessionsOk
<1>9. EntriesOk'
  <2>1. entries' = new
    BY <1>2 DEF new
  <2>2. ASSUME NEW x \in Range(new) PROVE x.id \in 1 .. n /\ x = sessions'[x.id]
    <3>1. CASE x = e2
      BY <1>4, <1>6, <3>1
    <3>2. CASE x \in Range(entries)
      BY <1>1, <1>6, <3>2 DEF EntriesOk, N
    <3> QED
      BY <1>7, <3>1, <3>2
  <2> QED
    BY <1>6, <1>7, <2>1, <2>2 DEF EntriesOk
<1>10. RecentOk'
  <2>1. entries' = new
    BY <1>2 DEF new
  <2>2. ASSUME ~setback, NEW i \in 1 .. n, Recent(i)' PROVE sessions'[i] \in Range(new)
    <3>1. CASE i = n
      BY <1>6, <1>7, <3>1
    <3>2. CASE i \in 1 .. N
      <4>1. sessions'[i] = sessions[i] /\ Len(sessions') = N + 1 /\ now' = now
        BY <1>2, <1>5, <1>6, <3>2
      <4>2. /\ now - sessions[i].created <= kTls12SessionTtlSec
            /\ N + 1 - i < kTls12SessionCacheMax
        <5>1. /\ now' - sessions'[i].created <= kTls12SessionTtlSec
              /\ Len(sessions') - i < kTls12SessionCacheMax
          BY <2>2 DEF Recent
        <5>2. (N + 1) - i = N + 1 - i
          BY <1>3
        <5> QED
          BY <4>1, <5>1, <5>2
      <4> QED
        BY <1>7, <2>2, <3>2, <4>1, <4>2
    <3> QED
      BY <1>6, <3>1, <3>2
  <2> QED
    BY <1>2, <1>6, <2>1, <2>2 DEF RecentOk
<1>11. ResumesOwnSession'
  BY <1>2 DEF ResumesOwnSession
<1> QED
  BY <1>8, <1>9, <1>10, <1>11 DEF CacheInv

\* A hello that names a session (tls12_session_cache_lookup and the resumption
\* flight).
LEMMA CacheHelloKeeps ==
  CacheInv /\ (\E id \in 1 .. MaxSessions, ems \in BOOLEAN : Hello(id, ems)) => CacheInv'
<1> SUFFICES ASSUME CacheInv, NEW id \in 1 .. MaxSessions, NEW ems \in BOOLEAN, Hello(id, ems)
             PROVE  CacheInv'
  OBVIOUS
<1> DEFINE l == lookup(entries, id)
           q == l.entries
<1>1. SessionsOk /\ EntriesOk /\ RecentOk
  BY DEF CacheInv
<1>2. /\ entries' = q
      /\ resumed' = IF l.found # <<>> /\ tls12_session_can_resume(ems, l.found[1])
                    THEN <<Resumption(id, ems, l.found[1])>> ELSE <<>>
      /\ now' = now /\ sessions' = sessions /\ setback' = setback
  BY DEF Hello
<1>3. /\ q \in Seq(Session) /\ Ordered(q) /\ Range(q) \subseteq Range(entries)
      /\ \A x \in Range(entries) : ~Expired(x) => x \in Range(q)
      /\ \/ l.found = <<>>
         \/ \E x \in Range(entries) : ~Expired(x) /\ x.id = id /\ l.found = <<x>>
  BY <1>1, Looks DEF EntriesOk
<1> HIDE DEF q, l
<1>4. SessionsOk' /\ EntriesOk'
  BY <1>1, <1>2, <1>3 DEF SessionsOk, EntriesOk
<1>5. RecentOk'
  <2> SUFFICES ASSUME ~setback, NEW n \in 1 .. Len(sessions), Recent(n)
               PROVE  sessions[n] \in Range(q)
    BY <1>2 DEF RecentOk, Recent
  <2>1. sessions[n] \in Range(entries)
    BY <1>1 DEF RecentOk
  <2>2. ~Expired(sessions[n])
    BY <1>1, Times, CacheAssumption DEF Recent, Expired
  <2> QED
    BY <1>3, <2>1, <2>2
<1>6. ResumesOwnSession'
  <2>1. CASE l.found = <<>>
    BY <1>2, <2>1 DEF ResumesOwnSession
  <2>2. CASE \E x \in Range(entries) : ~Expired(x) /\ x.id = id /\ l.found = <<x>>
    <3>1. PICK x \in Range(entries) : ~Expired(x) /\ x.id = id /\ l.found = <<x>>
      BY <2>2
    <3>2. x.id \in 1 .. Len(sessions) /\ x = sessions[x.id]
      BY <1>1 DEF EntriesOk
    <3>3. x.created \in Nat /\ now \in Nat /\ id \in DOMAIN sessions
      <4>1. sessions \in Seq(Session) /\ now \in Nat
        BY <1>1 DEF SessionsOk
      <4>2. x \in Session /\ DOMAIN sessions = 1 .. Len(sessions)
        BY <3>2, <4>1
      <4> QED
        BY <3>1, <3>2, <4>1, <4>2 DEF Session
    <3>4. now - x.created <= kTls12SessionTtlSec
      BY <3>1, <3>3, CacheAssumption DEF Expired
    <3>5. CASE resumed' = <<>>
      BY <3>5 DEF ResumesOwnSession
    <3>6. CASE ems = x.ems /\ resumed' = <<Resumption(id, ems, x)>>
      <4> DEFINE r == Resumption(id, ems, x)
      <4>1. r.id = id /\ r.client_ems = ems /\ r.at = now /\ r.master = x.master
        BY DEF Resumption
      <4>2. DOMAIN resumed' = {1} /\ resumed'[1] = r
        BY <3>6
      <4> HIDE DEF r
      <4> QED
        BY <1>2, <3>1, <3>2, <3>3, <3>4, <3>6, <4>1, <4>2 DEF ResumesOwnSession
    <3> QED
      BY <1>2, <3>1, <3>5, <3>6 DEF tls12_session_can_resume
  <2> QED
    BY <1>3, <2>1, <2>2
<1> QED
  BY <1>4, <1>5, <1>6 DEF CacheInv

\* The clock moves on, or is set back.
LEMMA ClockKeeps == CacheInv /\ (Tick \/ SetBack \/ UNCHANGED cacheVars) => CacheInv'
<1> SUFFICES ASSUME CacheInv, Tick \/ SetBack \/ UNCHANGED cacheVars PROVE CacheInv'
  OBVIOUS
<1>1. SessionsOk /\ EntriesOk /\ RecentOk /\ ResumesOwnSession
  BY DEF CacheInv
<1>2. now \in Nat /\ \A n \in 1 .. Len(sessions) : sessions[n].created \in Nat
  BY <1>1, Times
<1>3. CASE Tick
  <2>1. /\ now' = now + 1 /\ resumed' = <<>>
        /\ entries' = entries /\ sessions' = sessions /\ setback' = setback
    BY <1>3 DEF Tick
  <2>2. \A n \in 1 .. Len(sessions) : sessions[n].created <= now => sessions[n].created <= now + 1
    BY <1>2
  <2>3. SessionsOk'
    BY <1>1, <1>2, <2>1, <2>2 DEF SessionsOk
  <2>4. \A n \in 1 .. Len(sessions) : Recent(n)' => Recent(n)
    BY <1>2, <2>1, CacheAssumption DEF Recent
  <2>5. EntriesOk' /\ RecentOk' /\ ResumesOwnSession'
    BY <1>1, <2>1, <2>4 DEF EntriesOk, RecentOk, ResumesOwnSession
  <2> QED
    BY <2>3, <2>5 DEF CacheInv
<1>4. CASE SetBack
  <2>1. /\ now' \in Nat /\ resumed' = <<>> /\ setback' = TRUE
        /\ entries' = entries /\ sessions' = sessions
    BY <1>2, <1>4 DEF SetBack
  <2>2. SessionsOk' /\ EntriesOk' /\ RecentOk' /\ ResumesOwnSession'
    BY <1>1, <2>1 DEF SessionsOk, EntriesOk, RecentOk, ResumesOwnSession
  <2> QED
    BY <2>2 DEF CacheInv
<1>5. CASE UNCHANGED cacheVars
  <2>1. SessionsOk' /\ EntriesOk' /\ RecentOk' /\ ResumesOwnSession'
    BY <1>1, <1>5 DEF cacheVars, SessionsOk, EntriesOk, RecentOk, Recent, ResumesOwnSession
  <2> QED
    BY <2>1 DEF CacheInv
<1> QED
  BY <1>3, <1>4, <1>5

\* In every reachable state the cache holds sessions that were completed in full, in
\* the order in which they were.
THEOREM CacheInvHolds == Spec => []CacheInv
<1>1. Init => CacheInv
  BY InitCache
<1>2. CacheInv /\ [Next]_vars => CacheInv'
  BY NextIsCache, FullKeeps, CacheHelloKeeps, ClockKeeps DEF CacheNext
<1> QED
  BY <1>1, <1>2, PTL DEF Spec

\* An abbreviated handshake runs on the master secret of the session the client named,
\* under the same extended_master_secret state and within its lifetime, whatever was
\* stored, evicted and expired in between.
THEOREM ResumedIsOwn == Spec => []ResumesOwnSession
<1>1. CacheInv => ResumesOwnSession
  BY DEF CacheInv
<1> QED
  BY <1>1, CacheInvHolds, PTL

\* store and lookup never cost a session its place in the cache while it is within its
\* lifetime and fewer than kTls12SessionCacheMax younger ones have been stored.
THEOREM RecentIsKept == Spec => []RecentSessionKept
<1>1. CacheInv => RecentSessionKept
  <2> SUFFICES ASSUME CacheInv, ~setback, NEW n \in DOMAIN sessions, Recent(n)
               PROVE  \E i \in DOMAIN entries : entries[i].id = n
    BY DEF RecentSessionKept, Recent
  <2>1. n \in 1 .. Len(sessions) /\ sessions[n].id = n
    BY DEF CacheInv, SessionsOk
  <2>2. sessions[n] \in Range(entries)
    BY <2>1 DEF CacheInv, RecentOk
  <2> QED
    BY <2>1, <2>2 DEF Range
<1> QED
  BY <1>1, CacheInvHolds, PTL
=============================================================================
