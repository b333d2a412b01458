-------------------------- MODULE DtlsRecordNumber --------------------------
(***************************************************************************)
(* Record numbers of DTLS 1.3 in dtls.cpp: dtls13_protect numbers records  *)
(* and puts the low 16 bits on the wire; dtls13_unprotect rebuilds the     *)
(* number around recv_seq, one counter for all epochs, and a record opens  *)
(* only if it is rebuilt exactly, since the nonce is made from it.         *)
(***************************************************************************)
EXTENDS Integers, Sequences

CONSTANTS
  Half,   \* half of the numbers the wire field tells apart (0x8000 in the code)
  MaxSeq  \* bound on the numbers of an epoch (2^64 in the code)

ASSUME HalfAssumption == Half \in Nat \ {0}

ASSUME MaxSeqAssumption == MaxSeq \in Nat

VARIABLES
  send_epoch, send_seq,  \* the sender's counters
  sent,                  \* the protected records, in the order they were numbered
  recv_epoch, recv_seq   \* the receiver's

sendVars == <<send_epoch, send_seq, sent>>
recvVars == <<recv_epoch, recv_seq>>
numberVars == <<sendVars, recvVars>>

Record == [epoch : {2, 3}, seq : Nat]

\* The numbers that look the same on the wire are Modulus apart (0x10000).
Modulus == 2 * Half

\* Mutant: the candidate is kept when it lies too far behind.
reconstruct_no_carry(recv, wire) ==
  LET cand == (recv - (recv % Modulus)) + wire
  IN  IF cand > recv + Half THEN cand - Modulus ELSE cand

\* Mutant: a number ahead of recv is taken for one of the lap before.
reconstruct_only_behind(recv, wire) ==
  LET cand == (recv - (recv % Modulus)) + wire
  IN  IF cand + Half < recv THEN cand + Modulus
      ELSE IF cand > recv THEN cand - Modulus ELSE cand

\* The number closest to recv with these low bits.
reconstruct(recv, wire) ==
  LET cand == (recv - (recv % Modulus)) + wire
  IN  IF cand + Half < recv THEN cand + Modulus
      ELSE IF cand > recv + Half THEN cand - Modulus ELSE cand

Opens(r) == reconstruct(recv_seq, r.seq % Modulus) = r.seq

NumberInit ==
  /\ send_epoch = 0 /\ send_seq = 0 /\ sent = <<>>
  /\ recv_epoch = 0 /\ recv_seq = 0

\* plaintext_record(..., s.send_seq++): the hellos before the secrets exist; the
\* server's ServerHello is framed after the switch and takes number 0 of epoch 2.
PlaintextRecord ==
  /\ send_seq < MaxSeq
  /\ send_epoch = 0 \/ (send_epoch = 2 /\ send_seq = 0)
  /\ send_seq' = send_seq + 1
  /\ UNCHANGED <<send_epoch, sent, recvVars>>

\* Mutant: the number is read but not advanced.
ProtectSameNumber ==
  /\ send_epoch \in {2, 3} /\ Len(sent) < MaxSeq
  /\ sent' = Append(sent, [epoch |-> send_epoch, seq |-> send_seq])
  /\ UNCHANGED <<send_epoch, send_seq, recvVars>>

\* dtls13_protect: seq = s.send_seq++.
Protect ==
  /\ send_epoch \in {2, 3} /\ send_seq < MaxSeq
  /\ sent' = Append(sent, [epoch |-> send_epoch, seq |-> send_seq])
  /\ send_seq' = send_seq + 1
  /\ UNCHANGED <<send_epoch, recvVars>>

\* s.send_epoch = 2 once the handshake secrets exist, 3 once the handshake is done;
\* s.send_seq = 0 each time.
NewEpoch ==
  /\ send_epoch \in {0, 2}
  /\ send_epoch' = IF send_epoch = 0 THEN 2 ELSE 3
  /\ send_seq' = 0
  /\ UNCHANGED <<sent, recvVars>>

\* Mutant: an old record moves the counter back.
AdvanceAlways(r) ==
  /\ recv_seq' = r.seq + 1
  /\ recv_epoch' = r.epoch

\* The receiver's counters after a record that opened.
Advance(r) ==
  /\ recv_seq' = IF r.epoch # recv_epoch \/ r.seq + 1 > recv_seq THEN r.seq + 1 ELSE recv_seq
  /\ recv_epoch' = r.epoch

\* dtls13_unprotect of a record the network delivers, late, again or not at all.
Unprotect(r) ==
  /\ Opens(r)
  /\ Advance(r)
  /\ UNCHANGED sendVars

\* A record whose number is rebuilt wrongly fails authentication: nothing changes.
Discard(r) == ~Opens(r) /\ UNCHANGED numberVars

NumberNext ==
  \/ PlaintextRecord \/ Protect \/ NewEpoch
  \/ \E i \in 1 .. Len(sent) : Unprotect(sent[i]) \/ Discard(sent[i])

NumberSpec == NumberInit /\ [][NumberNext]_numberVars

-----------------------------------------------------------------------------
(* Properties *)

\* Types of the counters and of the records.
NumberTypeOK ==
  /\ send_epoch \in {0, 2, 3} /\ send_seq \in Nat /\ sent \in Seq(Record)
  /\ recv_epoch \in {0, 2, 3} /\ recv_seq \in Nat

\* No number is used twice in an epoch (the nonce is the number, the key is the
\* epoch's), although the counter restarts with every epoch and plaintext records
\* take numbers from the same counter.
NumbersUnique ==
  \A i, j \in 1 .. Len(sent) : sent[i] = sent[j] => i = j

\* A record less than half the wire range away from recv_seq opens, on either side
\* of it and across the points where the wire field wraps.
NearRecordsOpen ==
  \A i \in 1 .. Len(sent) :
    sent[i].seq < recv_seq + Half /\ recv_seq < sent[i].seq + Half => Opens(sent[i])

\* As long as no epoch has used half the wire range, every record opens at any time:
\* a stray record of the other epoch, which resets recv_seq, does no harm.
EarlyRecordsOpen ==
  (\A i \in 1 .. Len(sent) : sent[i].seq + 1 < Half)
    => \A i \in 1 .. Len(sent) : Opens(sent[i])

\* Within an epoch recv_seq never moves back, whatever arrives late or again.
WindowMovesForward == [][recv_epoch' = recv_epoch => recv_seq' >= recv_seq]_numberVars
=============================================================================
