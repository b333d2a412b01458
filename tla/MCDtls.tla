------------------------------- MODULE MCDtls -------------------------------
(***************************************************************************)
(* Instances of Dtls for TLC.  The suites of client and server differ so   *)
(* that their selection is not trivial.                                    *)
(***************************************************************************)
EXTENDS Dtls

\* A connection with good certificates on a network without faults.
Plain ==
  [ver |-> 12, suite |-> [client |-> "RSA_CHACHA20", server |-> "AES_128_GCM_SHA256"],
   require_cookie |-> FALSE, usable |-> TRUE, trusted |-> TRUE, split |-> {},
   prompt |-> FALSE, deadline |-> FALSE,
   max_retries |-> 2, max_loss |-> 0, max_dup |-> 0, max_app |-> 0]

AnyCertificate(e) ==
  {[e EXCEPT !.usable = u, !.trusted = t] : u \in BOOLEAN, t \in BOOLEAN}

\* The cookie exchange of 1.2, one loss, one repetition, then data.
Dtls12 ==
  [Plain EXCEPT !.suite = [client |-> "ECDSA_AES_128", server |-> "RSA_AES_128"],
                !.require_cookie = TRUE,
                !.max_loss = 1, !.max_dup = 1, !.max_app = 1]

\* The same with the epochs and ACKs of 1.3, and a deadline at any moment.
Dtls13 ==
  [Plain EXCEPT !.ver = 13,
                !.suite = [client |-> "CHACHA20_POLY1305", server |-> "AES_128_GCM_SHA256"],
                !.deadline = TRUE, !.max_loss = 1, !.max_dup = 1, !.max_app = 1]

\* Two records of data each way that may change places.
Data13 ==
  [Dtls13 EXCEPT !.deadline = FALSE, !.max_retries = 1,
                 !.max_loss = 0, !.max_dup = 0, !.max_app = 2]

\* Flights that arrive record by record, in any order: a message that overtakes
\* another is dropped, which is as good as a loss.
Split(ver) ==
  [Plain EXCEPT !.ver = ver, !.split = Endpoint, !.max_retries = 1, !.max_dup = 1]

SafetyEnvironments ==
  AnyCertificate(Dtls12) \cup AnyCertificate(Dtls13)
    \cup {Data13, Split(12), Split(13)}

\* A quick network, and one on which waits expire at any time.
Recovery(ver) ==
  [Plain EXCEPT !.ver = ver, !.require_cookie = (ver = 12), !.prompt = TRUE,
                !.max_retries = 3, !.max_loss = 2, !.max_dup = 2]

Restless == [Plain EXCEPT !.require_cookie = TRUE, !.max_loss = 1, !.max_dup = 1]

ProgressEnvironments == {Recovery(12), Recovery(13)} \cup AnyCertificate(Restless)

MCEnvironments == SafetyEnvironments \cup ProgressEnvironments

\* One lost datagram.
LastFlightEnvironments ==
  {[Plain EXCEPT !.prompt = TRUE, !.max_retries = 3, !.max_loss = 1]}

\* A client that puts ChangeCipherSpec in a datagram of its own; nothing is lost.
OvertakingEnvironments ==
  {[Plain EXCEPT !.prompt = TRUE, !.split = {"client"}, !.max_retries = 3]}
=============================================================================
