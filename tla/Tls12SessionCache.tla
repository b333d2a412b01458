-------------------------- MODULE Tls12SessionCache --------------------------
(***************************************************************************)
(* The process-wide cache of TLS 1.2 sessions (src/src/tls_router.cpp) and *)
(* the abbreviated handshake the server runs when a ClientHello names a    *)
(* cached session (src/src/tls12_server.cpp, src/src/tls_socket.cpp).  The *)
(* client is one of another make: jpssl's own client never sends a session *)
(* id.  now is the wall clock, which the operator may set back.            *)
(***************************************************************************)
EXTENDS Integers, Sequences, SequencesExt, FiniteSets

CONSTANTS kTls12SessionCacheMax,   \* 256 in the code
          kTls12SessionTtlSec,     \* 8 hours in the code
          MaxSessions,             \* bound: sessions completed in full
          MaxTime                  \* bound: the last value of the clock

ASSUME CacheAssumption == /\ kTls12SessionCacheMax \in Nat \ {0}
                          /\ kTls12SessionTtlSec \in Nat

VARIABLES now,        \* time(nullptr)
          entries,    \* the cache: a vector of tls12_session_entry
          sessions,   \* history: every session completed in full
          setback,    \* history: has the clock been set back
          resumed     \* history: the abbreviated handshake of this step, if any

cacheVars == <<now, entries, sessions, setback, resumed>>

CacheInit == /\ now = 0 /\ entries = <<>> /\ sessions = <<>>
             /\ setback = FALSE /\ resumed = <<>>

----------------------------------------------------------------------------
\* Mutant: an entry lives one second longer.
Expired_Late(x) == now > x.created /\ now - x.created > kTls12SessionTtlSec + 1

\* Ages are unsigned: an entry from the future is not expired.
Expired(x) == now > x.created /\ now - x.created > kTls12SessionTtlSec

\* The first of the entries with the smallest time of creation.
Oldest(es) == CHOOSE i \in DOMAIN es :
                 \A j \in DOMAIN es : \/ es[i].created < es[j].created
                                      \/ es[i].created = es[j].created /\ i <= j

\* Mutant: the newest of the entries makes room.
Evict_Newest(es) == IF Len(es) >= kTls12SessionCacheMax THEN Front(es) ELSE es

Evict(es) == IF Len(es) >= kTls12SessionCacheMax THEN RemoveAt(es, Oldest(es)) ELSE es

\* erase(remove_if(...)) of the entries in gone.
keep_unless(kept, x, gone) == IF x \in gone THEN kept ELSE Append(kept, x)

remove_if(es, gone) == FoldLeft(LAMBDA kept, x : keep_unless(kept, x, gone), <<>>, es)

store(es, e) ==
    LET fresh == remove_if(es, {x \in Range(es) : Expired(x)})
        others == remove_if(fresh, {x \in Range(fresh) : x.id = e.id})
    IN Append(Evict(others), [e EXCEPT !.created = now])

\* One iteration of the loop, which returns at the entry it finds: expired
\* entries before that one are erased.
look(l, x, id) ==
    IF l.found = <<>> /\ Expired(x) THEN l
    ELSE [found |-> IF l.found = <<>> /\ x.id = id THEN <<x>> ELSE l.found,
          entries |-> Append(l.entries, x)]

lookup(es, id) ==
    FoldLeft(LAMBDA l, x : look(l, x, id), [found |-> <<>>, entries |-> <<>>], es)

\* The same extended_master_secret state as the session it resumes.
tls12_session_can_resume(ems, e) == ems = e.ems

\* tls12_make_server_resumption_flight: suite, extended_master_secret state and
\* master secret are the entry's; the randoms are new.
Resumption(id, ems, e) == [id |-> id, client_ems |-> ems, at |-> now, master |-> e.master]

----------------------------------------------------------------------------
\* A full handshake ends: the server draws a new session id and stores it.
FullHandshake(ems) ==
    LET n == Len(sessions) + 1
        e == [id |-> n, master |-> <<"master", n>>, ems |-> ems, created |-> 0]
    IN /\ n <= MaxSessions
       /\ entries' = store(entries, e)
       /\ sessions' = Append(sessions, [e EXCEPT !.created = now])
       /\ resumed' = <<>> /\ UNCHANGED <<now, setback>>

\* A ClientHello names a session: the server looks it up and either resumes it,
\* with keys from the stored master secret, or goes on with a full handshake.
Hello(id, ems) ==
    LET l == lookup(entries, id)
        ok == l.found # <<>> /\ tls12_session_can_resume(ems, l.found[1])
    IN /\ entries' = l.entries
       /\ resumed' = IF ok THEN <<Resumption(id, ems, l.found[1])>> ELSE <<>>
       /\ UNCHANGED <<now, sessions, setback>>

Tick == /\ now < MaxTime /\ now' = now + 1 /\ resumed' = <<>>
        /\ UNCHANGED <<entries, sessions, setback>>

SetBack == /\ ~setback /\ now > 0
           /\ now' = now - 1 /\ setback' = TRUE
           /\ resumed' = <<>> /\ UNCHANGED <<entries, sessions>>

CacheNext == \/ \E ems \in BOOLEAN : FullHandshake(ems)
             \/ \E id \in 1 .. MaxSessions, ems \in BOOLEAN : Hello(id, ems)
             \/ Tick
             \/ SetBack
=============================================================================
