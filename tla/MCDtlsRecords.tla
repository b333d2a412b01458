--------------------------- MODULE MCDtlsRecords ---------------------------
(***************************************************************************)
(* Both directions of the record layer of DTLS in one instance: fragments  *)
(* put together to messages, then records numbered and opened.  They share *)
(* no variable, so that the numbers need to be explored only once, after   *)
(* the last message, and not again in each state of the reassembly.        *)
(***************************************************************************)
EXTENDS DtlsReassembly, DtlsRecordNumber

\* A flight of three messages: a body with a zero byte, an empty body (as in
\* ServerHelloDone) and a longer body that needs at least two cuts.
MCMsgs == << [type |-> "SERVER_HELLO", body |-> <<7, 0, 5, 5>>],
             [type |-> "SERVER_HELLO_DONE", body |-> <<>>],
             [type |-> "FINISHED", body |-> <<0, 3, 3, 9, 1, 0>>] >>

RecordsInit == Init /\ NumberInit

RecordsNext ==
  \/ Next /\ UNCHANGED numberVars
  \/ recv_msg_seq = Len(Msgs) /\ NumberNext /\ UNCHANGED vars

RecordsSpec ==
  /\ RecordsInit
  /\ [][RecordsNext]_<<vars, numberVars>>
  /\ Fairness
=============================================================================
