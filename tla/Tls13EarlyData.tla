--------------------------- MODULE Tls13EarlyData ---------------------------
(***************************************************************************)
(* TLS 1.3 session tickets and 0-RTT data: tls13_make_new_session_ticket,  *)
(* tls13_process_psk_client_hello and tls13_decrypt_early_data of          *)
(* src/src/tls13_server.cpp, tls13_store_psk, tls13_make_psk_client_hello  *)
(* and tls13_encrypt_early_data of src/src/tls13_client.cpp.  The library  *)
(* leaves it to the application to carry the PSK from one session to the   *)
(* next; Loads says which fields the server's application carries over.    *)
(* Messages are delayed arbitrarily and a ClientHello may arrive twice.    *)
(***************************************************************************)
EXTENDS Integers, Sequences

CONSTANTS Second,      \* what one second adds to an age: 1000 in the code
          AgeModulus,  \* ages are unsigned and 32 bits wide: 2^32 in the code
          Tolerance,   \* 10000 in the code
          AgeAdds,     \* values of the random ticket_age_add
          Loads,       \* "all": every field of the PSK; "readme": identity and value
          MaxTickets,  \* bound: full handshakes that issue a ticket
          MaxData,     \* bound: early records of one connection
          MaxClock     \* bound: the last value of the clock

ASSUME AgeAssumption == /\ Second \in Nat \ {0}
                        /\ AgeModulus \in Nat \ {0}
                        /\ Tolerance \in 0 .. AgeModulus - 1
                        /\ AgeAdds \subseteq 0 .. AgeModulus - 1

VARIABLES clock,     \* time(nullptr)
          tickets,   \* NewSessionTicket messages and the server's copy of each PSK
          psk,       \* the client's PSK: a sequence of at most one
          hello,     \* the client's ClientHello of the connection, at most one
          cli,       \* the client's early keys: [key, seq, sent]
          srv,       \* the server session: [verdict, key, seq, got]
          load       \* how the server's application loads the PSK

earlyVars == <<clock, tickets, psk, hello, cli, srv, load>>

NoClient == [key |-> <<>>, seq |-> 0, sent |-> <<>>]
NewServer == [verdict |-> "none", at |-> 0, key |-> <<>>, seq |-> 0, got |-> <<>>]

EarlyInit == /\ clock = 0 /\ tickets = <<>> /\ psk = <<>> /\ hello = <<>>
             /\ cli = NoClient /\ srv = NewServer
             /\ load \in Loads

----------------------------------------------------------------------------
\* The PSK of a ticket comes from the master secret and the ticket's nonce.
PskValue(n) == <<"resumption", n>>

\* tls13_compute_binder and tls13_derive_early_traffic_keys: over the hello up
\* to the binder, and over the whole hello.
tls13_compute_binder(value, h) == <<"binder", value, h.id, h.age, h.random>>

\* Mutant: the counter goes on from the session's last use.
tls13_derive_early_traffic_keys_Counting(s, value, h) ==
    [s EXCEPT !.key = <<"c e traffic", value, h>>]

tls13_derive_early_traffic_keys(s, value, h) ==
    [s EXCEPT !.key = <<"c e traffic", value, h>>, !.seq = 0]

\* A full handshake has ended and the server issues a ticket.
MakeNewSessionTicket ==
    \E add \in AgeAdds :
       /\ Len(tickets) < MaxTickets
       /\ tickets' = Append(tickets, [value |-> PskValue(Len(tickets) + 1),
                                      age_add |-> add, issue |-> clock])
       /\ UNCHANGED <<clock, psk, hello, cli, srv, load>>

\* The ticket reaches the client, whose age starts when it is stored.
StorePsk ==
    \E n \in DOMAIN tickets :
       /\ psk' = <<[id |-> n, value |-> PskValue(n), age_add |-> tickets[n].age_add,
                    issue |-> clock]>>
       /\ UNCHANGED <<clock, tickets, hello, cli, srv, load>>

ObfuscatedAge(p) == ((clock - p.issue) * Second + p.age_add) % AgeModulus

\* A new connection with a PSK: early keys at once, counter at zero.
MakePskClientHello ==
    /\ psk # <<>> /\ hello = <<>>
    /\ LET p == psk[1]
           body == [id |-> p.id, age |-> ObfuscatedAge(p), random |-> clock]
           h == [body |-> body, binder |-> tls13_compute_binder(p.value, body)]
       IN /\ hello' = <<[h |-> h, made |-> clock, psk |-> p]>>
          /\ cli' = tls13_derive_early_traffic_keys(cli, p.value, h)
    /\ UNCHANGED <<clock, tickets, psk, srv, load>>

\* tls13_encrypt_early_data: the record is its key, number and content.
EncryptEarlyData ==
    /\ hello # <<>> /\ Len(cli.sent) < MaxData
    /\ cli' = [cli EXCEPT !.seq = @ + 1,
                          !.sent = Append(@, [key |-> cli.key, seq |-> cli.seq,
                                              data |-> Len(@) + 1])]
    /\ UNCHANGED <<clock, tickets, psk, hello, srv, load>>

\* What the server's application copies into the new session.
Loaded(n) == IF load = "all" THEN [age_add |-> tickets[n].age_add, issue |-> tickets[n].issue]
             ELSE [age_add |-> 0, issue |-> 0]

\* claimed is computed in 32 bits, the true age in 64.
ClaimedAge(h, p) == (h.body.age - p.age_add) % AgeModulus

\* Mutant: the true age is cut to 32 bits as well.
RealAge_Narrow(p) == ((clock - p.issue) * Second) % AgeModulus

RealAge(p) == (clock - p.issue) * Second

AgeOk(h, p) == LET diff == ClaimedAge(h, p) - RealAge(p)
               IN diff >= -Tolerance /\ diff <= Tolerance

\* tls13_process_psk_client_hello, on a session loaded for the ticket that the
\* hello names.  The library keeps no record of hellos it has seen.
ProcessPskClientHello ==
    /\ hello # <<>> /\ srv.verdict = "none"
    /\ LET h == hello[1].h
           n == h.body.id
           ok == /\ AgeOk(h, Loaded(n))
                 /\ h.binder = tls13_compute_binder(PskValue(n), h.body)
           s == [srv EXCEPT !.verdict = IF ok THEN "accepted" ELSE "refused", !.at = clock]
       IN srv' = IF ok THEN tls13_derive_early_traffic_keys(s, PskValue(n), h) ELSE s
    /\ UNCHANGED <<clock, tickets, psk, hello, cli, load>>

\* tls13_decrypt_early_data: the counter moves whether the record opens or not.
DecryptEarlyData ==
    /\ srv.verdict = "accepted" /\ Len(srv.got) < Len(cli.sent)
    /\ LET r == cli.sent[Len(srv.got) + 1]
           ok == r.key = srv.key /\ r.seq = srv.seq
       IN srv' = [srv EXCEPT !.seq = @ + 1,
                             !.got = Append(@, IF ok THEN r.data ELSE 0)]
    /\ UNCHANGED <<clock, tickets, psk, hello, cli, load>>

\* A session object used again: keys and counter are still those of its last use.
Reused(s) == [s EXCEPT !.verdict = "none", !.got = <<>>, !.at = 0]

\* The bytes of the hello arrive once more, on a connection of their own.
HelloAgain == /\ srv.verdict # "none" /\ srv' = Reused(srv)
              /\ UNCHANGED <<clock, tickets, psk, hello, cli, load>>

\* The connection ends; the application may use its session objects again.
EndConnection == /\ hello # <<>> /\ hello' = <<>>
                 /\ cli' \in {NoClient, [cli EXCEPT !.sent = <<>>]}
                 /\ srv' \in {NewServer, Reused(srv)}
                 /\ UNCHANGED <<clock, tickets, psk, load>>

EarlyTick == clock < MaxClock /\ clock' = clock + 1
             /\ UNCHANGED <<tickets, psk, hello, cli, srv, load>>

EarlyNext == \/ MakeNewSessionTicket \/ StorePsk \/ MakePskClientHello \/ EncryptEarlyData
             \/ ProcessPskClientHello \/ DecryptEarlyData \/ HelloAgain
             \/ EndConnection \/ EarlyTick

EarlySpec == EarlyInit /\ [][EarlyNext]_earlyVars

----------------------------------------------------------------------------
\* How late, in the unit of ages: the ticket on its way to the client and the
\* hello on its way to the server.
Lateness(h) == (h.psk.issue - tickets[h.psk.id].issue + srv.at - h.made) * Second

\* The age the client had to announce.
TrueAge(h) == (h.made - h.psk.issue) * Second

(***************************************************************************)
(* The server accepts a PSK hello exactly when it is fresh: the ticket's   *)
(* and the hello's transit together stay within the tolerance and the age  *)
(* has not outgrown its 32 bits, whatever ticket_age_add hides it and      *)
(* however often the bytes are presented (tls13_process_psk_client_hello). *)
(***************************************************************************)
AcceptedExactlyWhenFresh ==
    (hello # <<>> /\ srv.verdict # "none") =>
       ((srv.verdict = "accepted") <=>
           (Lateness(hello[1]) <= Tolerance /\ TrueAge(hello[1]) < AgeModulus))

(***************************************************************************)
(* A server that accepted early data opens every record of it, in order:   *)
(* both sides derived the early keys from the same hello and the same PSK  *)
(* and count records alike (tls13_decrypt_early_data).                     *)
(***************************************************************************)
EarlyDataOpens == \A i \in DOMAIN srv.got : srv.got[i] = i
=============================================================================
