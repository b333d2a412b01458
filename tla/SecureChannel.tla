---------------------------- MODULE SecureChannel ----------------------------
(***************************************************************************)
(* What a pair of dtls_connection objects promises: each endpoint opens    *)
(* once, with keys that an endpoint which opened before it already has, or *)
(* gives up; an open endpoint receives only data its peer sent under those *)
(* keys.  Datagrams may be lost, repeated and reordered.                   *)
(***************************************************************************)
EXTENDS Naturals, Sequences

CONSTANT Data  \* what may be sent

VARIABLES
  state,     \* of each endpoint: handshake, open or closed
  key,       \* the keys an endpoint opened with, <<>> before
  sent,      \* what each endpoint sent
  delivered  \* what each endpoint received

vars == <<state, key, sent, delivered>>

Endpoint == {"client", "server"}
Other(e) == IF e = "client" THEN "server" ELSE "client"

Init ==
  /\ state = [e \in Endpoint |-> "handshake"]
  /\ key = [e \in Endpoint |-> <<>>]
  /\ sent = [e \in Endpoint |-> <<>>]
  /\ delivered = [e \in Endpoint |-> <<>>]

Open(e) ==
  /\ state[e] = "handshake"
  /\ state' = [state EXCEPT ![e] = "open"]
  /\ key'[e] # <<>>
  /\ key[Other(e)] # <<>> => key'[e] = key[Other(e)]
  /\ key' = [key EXCEPT ![e] = key'[e]]
  /\ UNCHANGED <<sent, delivered>>

Close(e) ==
  /\ state[e] \in {"handshake", "open"}
  /\ state' = [state EXCEPT ![e] = "closed"]
  /\ UNCHANGED <<key, sent, delivered>>

Send(e) ==
  /\ state[e] = "open"
  /\ \E data \in Data : sent' = [sent EXCEPT ![e] = Append(@, data)]
  /\ UNCHANGED <<state, key, delivered>>

Receive(e) ==
  /\ state[e] = "open"
  /\ key[Other(e)] = key[e]
  /\ \E i \in DOMAIN sent[Other(e)] :
       delivered' = [delivered EXCEPT ![e] = Append(@, sent[Other(e)][i])]
  /\ UNCHANGED <<state, key, sent>>

Next == \E e \in Endpoint : Open(e) \/ Close(e) \/ Send(e) \/ Receive(e)

Spec == Init /\ [][Next]_vars
=============================================================================
