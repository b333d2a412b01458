---------------------------- MODULE TlsResumption ----------------------------
(***************************************************************************)
(* The two ways a session is continued: the TLS 1.2 session cache of the   *)
(* server process, and TLS 1.3 tickets that the applications carry.  A     *)
(* client uses one of them; method is its choice.                          *)
(***************************************************************************)
EXTENDS Tls12SessionCache, Tls13EarlyData

CONSTANT Methods

VARIABLE method

vars == <<cacheVars, earlyVars, method>>

Init == CacheInit /\ EarlyInit /\ method \in Methods

Next == \/ method = "session id" /\ CacheNext /\ UNCHANGED <<earlyVars, method>>
        \/ method = "ticket" /\ EarlyNext /\ UNCHANGED <<cacheVars, method>>

Spec == Init /\ [][Next]_vars

----------------------------------------------------------------------------
(***************************************************************************)
(* An abbreviated handshake runs on the master secret of the very session  *)
(* whose id the client named, under the same extended_master_secret state, *)
(* and, while the clock is not set back, within the session's lifetime     *)
(* (tls12_session_can_resume, tls12_make_server_resumption_flight).        *)
(***************************************************************************)
ResumesOwnSession ==
    \A i \in DOMAIN resumed :
       LET r == resumed[i] IN
       /\ r.id \in DOMAIN sessions
       /\ r.master = sessions[r.id].master /\ r.client_ems = sessions[r.id].ems
       /\ ~setback => r.at - sessions[r.id].created <= kTls12SessionTtlSec

(***************************************************************************)
(* A session is still cached while it is within its lifetime and fewer     *)
(* than kTls12SessionCacheMax younger ones have been stored: eviction and  *)
(* expiry never cost a live session its place (store, lookup).             *)
(***************************************************************************)
RecentSessionKept ==
    ~setback =>
       \A n \in DOMAIN sessions :
          (/\ now - sessions[n].created <= kTls12SessionTtlSec
           /\ Len(sessions) - n < kTls12SessionCacheMax)
          => \E i \in DOMAIN entries : entries[i].id = n
=============================================================================
