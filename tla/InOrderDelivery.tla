--------------------------- MODULE InOrderDelivery ---------------------------
(***************************************************************************)
(* What the DTLS handshake layer promises its state machine: the peer's    *)
(* handshake messages reach process() one by one, in message_seq order,    *)
(* each exactly once and byte for byte as sent, until a message is         *)
(* rejected and the connection is given up.                                *)
(***************************************************************************)
EXTENDS Naturals, Sequences

CONSTANT Msgs        \* the peer's handshake messages; Msgs[k] has message_seq k - 1

VARIABLES delivered, \* the messages process() accepted so far
          aborted    \* process() rejected a message

vars == <<delivered, aborted>>

Init == delivered = <<>> /\ aborted = FALSE

Deliver ==
  /\ ~aborted
  /\ Len(delivered) < Len(Msgs)
  /\ delivered' = Append(delivered, Msgs[Len(delivered) + 1])
  /\ UNCHANGED aborted

Abort ==
  /\ ~aborted
  /\ Len(delivered) < Len(Msgs)
  /\ aborted' = TRUE
  /\ UNCHANGED delivered

Next == Deliver \/ Abort

Spec == Init /\ [][Next]_vars
=============================================================================
