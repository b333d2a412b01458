----------------------------- MODULE MCTlsSocket -----------------------------
(***************************************************************************)
(* A message of three records, two of one record and the peer's            *)
(* close_notify last; in TLS 1.3 two session tickets among them.  The      *)
(* kernel's buffer is smaller than the first message and cuts records in   *)
(* two.                                                                    *)
(***************************************************************************)
EXTENDS TlsSocket

Tls13(send_mode, recv_mode) ==
  [ver |-> 13,
   kinds |-> <<"ticket", "data", "data", "data", "data", "ticket", "data", "alert">>,
   last |-> <<1, 4, 5, 6, 7, 8>>,
   send |-> send_mode, recv |-> recv_mode, closes |-> FALSE,
   datagram |-> FALSE, ktls |-> FALSE]

Tls12(send_mode, recv_mode) ==
  [ver |-> 12,
   kinds |-> <<"data", "data", "data", "data", "data", "alert">>,
   last |-> <<3, 4, 5, 6>>,
   send |-> send_mode, recv |-> recv_mode, closes |-> FALSE,
   datagram |-> FALSE, ktls |-> FALSE]

AllUses ==
  { Tls13("blocking", "blocking"), Tls12("coroutine", "coroutine"),
    Tls13("coroutine", "coroutine"), Tls12("blocking", "coroutine"),
    Tls13("coroutine", "blocking"),
    [Tls12("blocking", "blocking") EXCEPT !.ktls = TRUE],
    [Tls12("nonblocking", "nonblocking") EXCEPT !.datagram = TRUE],
    [Tls13("nonblocking", "nonblocking") EXCEPT !.closes = TRUE] }

RetryUses == {Tls13("nonblocking", "blocking")}
=============================================================================
