-------------------------- MODULE DtlsRecordProofs --------------------------
(***************************************************************************)
(* What dtls.cpp does below the handshake.  For every flight of messages   *)
(* and every way of cutting, repeating and reordering its fragments,       *)
(* collect_handshake hands process() the peer's messages in order, once    *)
(* each, byte for byte.  For every width of the wire field and every bound *)
(* on the numbers, no number is used twice in an epoch, and                *)
(* dtls13_unprotect rebuilds the number of every record less than half the *)
(* wire range from recv_seq.                                               *)
(***************************************************************************)
EXTENDS DtlsReassembly, DtlsRecordNumber, FiniteSetTheorems, SequenceTheorems, TLAPS

-----------------------------------------------------------------------------
(* Reassembly                                                              *)

Message == [type : STRING, body : Seq(Nat)]

(* The inductive invariant: what has been processed is right because the     *)
(* buffer, when there is one, is that of the expected message, is right      *)
(* wherever a byte has arrived, and its counter knows the missing bytes.     *)
IInv ==
  /\ TypeOK
  /\ processed \in Seq(Message)
  /\ BufferIsCurrent
  /\ ReceivedBytesFaithful
  /\ RemainingIsMissing
  /\ InOrderExactlyOnce

(* The expected message and its body are what the constants say.             *)
LEMMA MessageType ==
  ASSUME NEW k \in 1 .. Len(Msgs)
  PROVE  /\ Msgs[k] \in Message
         /\ Msgs[k].body \in Seq(Nat)
         /\ Len(Msgs[k].body) \in Nat
         /\ Len(Msgs) \in Nat
         /\ Msgs[k] = [type |-> Msgs[k].type, body |-> Msgs[k].body]
         /\ \A i \in 1 .. Len(Msgs[k].body) : Msgs[k].body[i] \in Nat
  <1>1. Msgs \in Seq(Message)
    BY MsgsAssumption DEF Message
  <1>2. Msgs[k] \in Message
    BY <1>1, ElementOfSeq
  <1>3. QED
    BY <1>1, <1>2, LenProperties DEF Message

(* The fragments of a message lie within it.                                 *)
LEMMA RangeType ==
  ASSUME NEW k \in 1 .. Len(Msgs), NEW r \in FragmentRanges(k)
  PROVE  /\ Total(k) \in Nat /\ r[1] \in Nat /\ r[2] \in Nat
         /\ r[1] + r[2] <= Total(k)
         /\ Msgs[k].body \in Seq(Nat) /\ Len(Msgs) \in Nat
  <1>1. Total(k) \in Nat /\ Msgs[k].body \in Seq(Nat) /\ Len(Msgs) \in Nat
    BY MessageType DEF Total
  <1>2. r \in (0 .. Total(k)) \X (0 .. Total(k)) /\ r[1] + r[2] <= Total(k)
    BY DEF FragmentRanges
  <1>3. r[1] \in 0 .. Total(k) /\ r[2] \in 0 .. Total(k)
    BY <1>2
  <1>4. QED
    BY <1>1, <1>2, <1>3

(* The bytes of a message of n bytes are n.                                  *)
LEMMA IntervalCard ==
  ASSUME NEW n \in Nat
  PROVE  IsFiniteSet(1 .. n) /\ Cardinality(1 .. n) = n
  <1>1. /\ IsFiniteSet(1 .. n)
        /\ Cardinality(1 .. n) = IF 1 > n THEN 0 ELSE n - 1 + 1
    BY FS_Interval
  <1>2. (IF 1 > n THEN 0 ELSE n - 1 + 1) = n
    OBVIOUS
  <1>3. QED
    BY <1>1, <1>2

(* Byte strings of the same length with the same bytes are the same.         *)
LEMMA SameBytes ==
  ASSUME NEW S, NEW f \in [S -> Nat], NEW g \in [S -> Nat],
         \A i \in S : f[i] = g[i]
  PROVE  f = g
  <1>1. f = [i \in S |-> f[i]] /\ g = [i \in S |-> g[i]]
    OBVIOUS
  <1>2. QED
    BY <1>1, Zenon

(* Taking away a part of a finite set takes away its number of elements.     *)
LEMMA MissingCount ==
  ASSUME NEW n \in Nat, NEW S \in SUBSET (1 .. n), NEW T \in SUBSET S
  PROVE  /\ Cardinality(S) \in 0 .. n
         /\ Cardinality(S \ T) = Cardinality(S) - Cardinality(T)
         /\ Cardinality(S \ T) \in 0 .. n
         /\ Cardinality(S \ T) = 0 => S \ T = {}
  <1>1. IsFiniteSet(1 .. n) /\ Cardinality(1 .. n) = n
    BY IntervalCard
  <1>2. IsFiniteSet(S) /\ Cardinality(S) <= n
    BY <1>1, FS_Subset
  <1>3. S \cap T = T
    OBVIOUS
  <1>4. IsFiniteSet(S \ T) /\ Cardinality(S \ T) = Cardinality(S) - Cardinality(T)
    BY <1>2, <1>3, FS_Difference
  <1>5. S \ T \in SUBSET (1 .. n)
    OBVIOUS
  <1>6. Cardinality(S \ T) <= n
    BY <1>1, <1>5, FS_Subset
  <1>7. Cardinality(S) \in Nat /\ Cardinality(S \ T) \in Nat
    BY <1>2, <1>4, FS_CardinalityType
  <1>8. Cardinality(S \ T) = 0 => S \ T = {}
    BY <1>4, FS_EmptySet
  <1>9. QED
    BY <1>2, <1>4, <1>6, <1>7, <1>8

(* What storing a fragment of the expected message does to the buffers.      *)
LEMMA FragmentEffect ==
  ASSUME IInv, NEW k \in 1 .. Len(Msgs), k - 1 = recv_msg_seq,
         NEW foff \in Nat, NEW flen \in Nat, foff + flen <= Total(k)
  PROVE  /\ ReceivedAfter(foff, flen, Total(k)) \in [1 .. Total(k) -> BOOLEAN]
         /\ BufAfter(Fragment(k, foff, flen), foff, flen, Total(k)) \in [1 .. Total(k) -> Nat]
         /\ \A i \in 1 .. Total(k) :
              ReceivedAfter(foff, flen, Total(k))[i]
                => BufAfter(Fragment(k, foff, flen), foff, flen, Total(k))[i]
                     = Msgs[k].body[i]
         /\ RemainingAfter(foff, flen, Total(k))
              = Cardinality({i \in 1 .. Total(k) : ~ReceivedAfter(foff, flen, Total(k))[i]})
         /\ RemainingAfter(foff, flen, Total(k)) \in 0 .. Total(k)
         /\ RemainingAfter(foff, flen, Total(k)) = 0
              => BufAfter(Fragment(k, foff, flen), foff, flen, Total(k)) = Msgs[k].body
  <1> DEFINE body == Msgs[k].body
             total == Total(k)
             frag == Fragment(k, foff, flen)
             RB   == ReceivedBefore(total)
             BB   == BufBefore(total)
             missing == {i \in 1 .. total : ~RB[i]}
  <1>0. body \in Seq(Nat) /\ total \in Nat /\ Len(Msgs) \in Nat /\ Len(body) = total
        /\ \A i \in 1 .. total : body[i] \in Nat
    BY MessageType DEF Total
  <1>1. k = recv_msg_seq + 1 /\ recv_msg_seq \in Nat
    BY <1>0 DEF IInv, TypeOK
  <1>2. RB \in [1 .. total -> BOOLEAN] /\ BB \in [1 .. total -> Nat]
    <2>1. CASE reassembly_buf = <<>>
      BY <2>1, <1>0 DEF ReceivedBefore, BufBefore
    <2>2. CASE reassembly_buf # <<>>
      <3>1. reassembly_total_len = total
        BY <2>2, <1>1 DEF IInv, BufferIsCurrent
      <3>2. QED
        BY <2>2, <3>1 DEF IInv, TypeOK, ReceivedBefore, BufBefore
    <2>3. QED
      BY <2>1, <2>2
  <1>3. \A i \in 1 .. total : RB[i] => BB[i] = body[i]
    <2>1. CASE reassembly_buf = <<>>
      BY <2>1, <1>0 DEF ReceivedBefore
    <2>2. CASE reassembly_buf # <<>>
      BY <2>2, <1>1 DEF IInv, BufferIsCurrent, ReceivedBytesFaithful,
                        ReceivedBefore, BufBefore
    <2>3. QED
      BY <2>1, <2>2
  <1>4. RemainingBefore(total) = Cardinality(missing)
    <2>1. CASE reassembly_buf = <<>>
      <3>1. missing = 1 .. total
        BY <2>1 DEF ReceivedBefore
      <3>2. Cardinality(1 .. total) = total
        BY <1>0, IntervalCard
      <3>3. QED
        BY <2>1, <3>1, <3>2 DEF RemainingBefore
    <2>2. CASE reassembly_buf # <<>>
      BY <2>2, <1>1 DEF IInv, BufferIsCurrent, RemainingIsMissing,
                        ReceivedBefore, RemainingBefore
    <2>3. QED
      BY <2>1, <2>2
  <1>5. \A i \in 1 .. total : InRange(i, foff, flen) => frag[i - foff] = body[i]
    <2> SUFFICES ASSUME NEW i \in 1 .. total, InRange(i, foff, flen)
                 PROVE  frag[i - foff] = body[i]
      OBVIOUS
    <2>1. foff + 1 \in 1 .. Len(body) + 1 /\ foff + flen \in foff .. Len(body)
      BY <1>0
    <2>2. i - foff \in 1 .. (foff + flen) - (foff + 1) + 1
      BY <1>0 DEF InRange
    <2>3. frag[i - foff] = body[(foff + 1) + (i - foff) - 1]
      BY <1>0, <2>1, <2>2, SubSeqProperties DEF Fragment
    <2>4. (foff + 1) + (i - foff) - 1 = i
      <3> HIDE DEF total, body, frag
      <3>1. i \in Int
        BY <1>0
      <3>2. QED
        BY <3>1
    <2>5. QED
      BY <2>3, <2>4
  <1>6. ReceivedAfter(foff, flen, total) \in [1 .. total -> BOOLEAN]
    BY <1>2 DEF ReceivedAfter, InRange
  <1>7. BufAfter(frag, foff, flen, total) \in [1 .. total -> Nat]
    BY <1>0, <1>2, <1>5 DEF BufAfter
  <1>8. \A i \in 1 .. total :
          ReceivedAfter(foff, flen, total)[i]
            => BufAfter(frag, foff, flen, total)[i] = body[i]
    BY <1>2, <1>3, <1>5 DEF ReceivedAfter, BufAfter
  <1>9. NewBytes(foff, flen, total) \in SUBSET missing
    BY DEF NewBytes
  <1>10. {i \in 1 .. total : ~ReceivedAfter(foff, flen, total)[i]}
           = missing \ NewBytes(foff, flen, total)
    BY <1>2 DEF ReceivedAfter, NewBytes
  <1>11. missing \in SUBSET (1 .. total)
    OBVIOUS
  <1>12. /\ RemainingAfter(foff, flen, total)
              = Cardinality(missing \ NewBytes(foff, flen, total))
         /\ RemainingAfter(foff, flen, total) \in 0 .. total
         /\ RemainingAfter(foff, flen, total) = 0
              => missing \ NewBytes(foff, flen, total) = {}
    <2> DEFINE new == NewBytes(foff, flen, total)
    <2>0. total \in Nat /\ missing \in SUBSET (1 .. total) /\ new \in SUBSET missing
      BY <1>0, <1>9, <1>11
    <2> HIDE DEF missing, total, new
    <2>1. /\ Cardinality(missing \ new)
               = Cardinality(missing) - Cardinality(new)
          /\ Cardinality(missing \ new) \in 0 .. total
          /\ Cardinality(missing \ new) = 0
               => missing \ new = {}
      BY <2>0, MissingCount, Zenon
    <2>2. QED
      BY <1>4, <2>1 DEF RemainingAfter, new
  <1>13. ASSUME RemainingAfter(foff, flen, total) = 0
         PROVE  BufAfter(frag, foff, flen, total) = body
    <2>1. \A i \in 1 .. total : ReceivedAfter(foff, flen, total)[i]
      BY <1>6, <1>10, <1>12, <1>13
    <2>2. body \in [1 .. total -> Nat]
      BY <1>0, LenProperties
    <2>3. \A i \in 1 .. total : BufAfter(frag, foff, flen, total)[i] = body[i]
      BY <1>8, <2>1
    <2> HIDE DEF body
    <2>4. QED
      BY <1>7, <2>2, <2>3, SameBytes
  <1>14. QED
    BY <1>6, <1>7, <1>8, <1>10, <1>12, <1>13

(* An accepted message extends what was processed by the expected message.   *)
LEMMA AcceptStep ==
  ASSUME IInv, NEW k \in 1 .. Len(Msgs), k - 1 = recv_msg_seq,
         Accept(Msgs[k].type, Msgs[k].body)
  PROVE  /\ recv_msg_seq' \in 0 .. Len(Msgs)
         /\ processed' \in Seq(Message)
         /\ processed' = Append(processed, Msgs[Len(processed) + 1])
         /\ Len(processed) < Len(Msgs)
         /\ failed' = failed
         /\ InOrderExactlyOnce'
  <1>1. Len(Msgs) \in Nat /\ Msgs[k] \in Message
        /\ Msgs[k] = [type |-> Msgs[k].type, body |-> Msgs[k].body]
    BY MessageType
  <1>2. processed \in Seq(Message) /\ Len(processed) = recv_msg_seq
        /\ \A j \in 1 .. Len(processed) : processed[j] = Msgs[j]
    BY DEF IInv, InOrderExactlyOnce
  <1>3. k = Len(processed) + 1 /\ Len(processed) \in Nat
    BY <1>1, <1>2, LenProperties
  <1>4. processed' = Append(processed, Msgs[k]) /\ recv_msg_seq' = recv_msg_seq + 1
        /\ failed' = failed
    BY <1>1 DEF Accept
  <1>5. /\ processed' \in Seq(Message)
        /\ Len(processed') = Len(processed) + 1
        /\ \A j \in 1 .. Len(processed) : processed'[j] = processed[j]
        /\ processed'[Len(processed) + 1] = Msgs[k]
    BY <1>1, <1>2, <1>4, AppendProperties
  <1>6. \A j \in 1 .. Len(processed') : processed'[j] = Msgs[j]
    <2> SUFFICES ASSUME NEW j \in 1 .. Len(processed')
                 PROVE  processed'[j] = Msgs[j]
      OBVIOUS
    <2>1. CASE j \in 1 .. Len(processed)
      BY <2>1, <1>2, <1>5
    <2>2. CASE j = Len(processed) + 1
      BY <2>2, <1>3, <1>5
    <2>3. QED
      BY <2>1, <2>2, <1>3, <1>5
  <1>7. QED
    BY <1>1, <1>2, <1>3, <1>4, <1>5, <1>6 DEF InOrderExactlyOnce

LEMMA InitIInv == Init => IInv
  <1> SUFFICES ASSUME Init PROVE IInv
    OBVIOUS
  <1>1. Len(Msgs) \in Nat
    BY MsgsAssumption, LenProperties
  <1>2. <<>> \in Seq(Message) /\ Len(<<>>) = 0
    BY EmptySeq
  <1>3. QED
    <2>1. TypeOK
      <3>1. /\ recv_msg_seq \in 0 .. Len(Msgs) /\ reassembly_total_len \in Nat
            /\ reassembly_msg_seq \in Nat
            /\ reassembly_remaining \in 0 .. reassembly_total_len
        BY <1>1 DEF Init
      <3>2. QED
        BY <3>1, Zenon DEF Init, TypeOK
    <2>2. processed \in Seq(Message) /\ InOrderExactlyOnce
      BY <1>2 DEF Init, InOrderExactlyOnce
    <2>3. BufferIsCurrent /\ ReceivedBytesFaithful /\ RemainingIsMissing
      BY DEF Init, BufferIsCurrent, ReceivedBytesFaithful, RemainingIsMissing
    <2>4. QED
      BY <2>1, <2>2, <2>3 DEF IInv

(* Each action preserves the invariant.                                      *)
LEMMA NextIInv == IInv /\ [Next]_vars => IInv'
  <1> SUFFICES ASSUME IInv, [Next]_vars PROVE IInv'
    OBVIOUS
  <1>1. CASE UNCHANGED vars
    BY <1>1 DEF IInv, TypeOK, BufferIsCurrent, ReceivedBytesFaithful,
                RemainingIsMissing, InOrderExactlyOnce, vars, buffers
  <1>2. CASE EndStep
    BY <1>2 DEF EndStep, IInv, TypeOK, BufferIsCurrent, ReceivedBytesFaithful,
                RemainingIsMissing, InOrderExactlyOnce, vars, buffers
  <1>3. ASSUME NEW k \in 1 .. Len(Msgs), NEW r \in FragmentRanges(k),
               Collect(k, r[1], r[2])
        PROVE  IInv'
    <2> DEFINE foff == r[1]
               flen == r[2]
               total == Total(k)
               frag == Fragment(k, foff, flen)
    <2>0. /\ total \in Nat /\ foff \in Nat /\ flen \in Nat /\ foff + flen <= total
          /\ Msgs[k].body \in Seq(Nat) /\ Len(Msgs) \in Nat
      BY RangeType
    <2>1. CASE OldMessage(k)
      BY <2>1 DEF OldMessage, IInv, TypeOK, BufferIsCurrent, ReceivedBytesFaithful,
                  RemainingIsMissing, InOrderExactlyOnce, vars, buffers
    <2>2. CASE FutureMessage(k)
      BY <2>2, <1>1 DEF FutureMessage
    <2>3. CASE WholeMessage(k, foff, flen)
      <3>1. CASE Accept(Msgs[k].type, Msgs[k].body)
        BY <2>3, <3>1, AcceptStep
           DEF WholeMessage, IInv, TypeOK, BufferIsCurrent, ReceivedBytesFaithful,
               RemainingIsMissing, buffers
      <3>2. CASE Reject
        BY <2>3, <3>2
           DEF WholeMessage, Reject, IInv, TypeOK, BufferIsCurrent,
               ReceivedBytesFaithful, RemainingIsMissing, InOrderExactlyOnce, buffers
      <3>3. QED
        BY <2>3, <3>1, <3>2 DEF WholeMessage
    <2>4. CASE StoreFragment(k, foff, flen)
      <3> DEFINE RA == ReceivedAfter(foff, flen, total)
                 BA == BufAfter(frag, foff, flen, total)
                 NA == RemainingAfter(foff, flen, total)
      <3>1. k - 1 = recv_msg_seq
        BY <2>4 DEF StoreFragment
      <3>2. /\ RA \in [1 .. total -> BOOLEAN]
            /\ BA \in [1 .. total -> Nat]
            /\ \A i \in 1 .. total : RA[i] => BA[i] = Msgs[k].body[i]
            /\ NA = Cardinality({i \in 1 .. total : ~RA[i]})
            /\ NA \in 0 .. total
        BY <2>0, <3>1, FragmentEffect
      <3>3. /\ reassembly_buf' = BA /\ reassembly_received' = RA
            /\ reassembly_remaining' = NA
            /\ reassembly_msg_seq' = k - 1 /\ reassembly_total_len' = total
            /\ UNCHANGED <<recv_msg_seq, retransmit_requested, processed, failed>>
        BY <2>4 DEF StoreFragment
      <3> HIDE DEF RA, BA, NA, frag
      <3>4. TypeOK'
        BY <2>0, <3>1, <3>2, <3>3 DEF IInv, TypeOK
      <3>5. BufferIsCurrent' /\ ReceivedBytesFaithful' /\ RemainingIsMissing'
        <4>1. k = recv_msg_seq' + 1 /\ recv_msg_seq' < Len(Msgs) /\ recv_msg_seq' = recv_msg_seq
          BY <2>0, <3>1, <3>3
        <4>2. QED
          BY <3>1, <3>2, <3>3, <4>1
             DEF BufferIsCurrent, ReceivedBytesFaithful, RemainingIsMissing
      <3>6. processed' \in Seq(Message) /\ InOrderExactlyOnce'
        BY <3>3 DEF IInv, InOrderExactlyOnce
      <3>7. QED
        BY <3>4, <3>5, <3>6 DEF IInv
    <2>5. CASE LastFragment(k, foff, flen)
      <3> DEFINE RA == ReceivedAfter(foff, flen, total)
                 BA == BufAfter(frag, foff, flen, total)
                 NA == RemainingAfter(foff, flen, total)
      <3>1. k - 1 = recv_msg_seq /\ NA = 0
        BY <2>5 DEF LastFragment
      <3>2. /\ RA \in [1 .. total -> BOOLEAN]
            /\ BA \in [1 .. total -> Nat]
            /\ \A i \in 1 .. total : RA[i] => BA[i] = Msgs[k].body[i]
            /\ 0 = Cardinality({i \in 1 .. total : ~RA[i]})
            /\ BA = Msgs[k].body
        BY <2>0, <3>1, FragmentEffect
      <3>3. /\ \/ /\ Accept(Msgs[k].type, BA)
                  /\ reassembly_buf' = <<>> /\ reassembly_received' = <<>>
               \/ /\ Reject
                  /\ reassembly_buf' = BA /\ reassembly_received' = RA
            /\ reassembly_remaining' = 0
            /\ reassembly_msg_seq' = k - 1 /\ reassembly_total_len' = total
            /\ UNCHANGED retransmit_requested
        BY <2>5 DEF LastFragment, ClearBuffers
      <3> HIDE DEF RA, BA, NA, frag
      <3>4. CASE Accept(Msgs[k].type, BA) /\ reassembly_buf' = <<>>
                 /\ reassembly_received' = <<>>
        <4>1. Accept(Msgs[k].type, Msgs[k].body)
          BY <3>2, <3>4
        <4>2. QED
          BY <2>0, <3>1, <3>3, <3>4, <4>1, AcceptStep
             DEF IInv, TypeOK, BufferIsCurrent, ReceivedBytesFaithful, RemainingIsMissing
      <3>5. CASE Reject /\ reassembly_buf' = BA /\ reassembly_received' = RA
        <4>1. /\ recv_msg_seq' = recv_msg_seq /\ processed' = processed /\ failed' = TRUE
              /\ k = recv_msg_seq' + 1 /\ recv_msg_seq' < Len(Msgs)
          BY <2>0, <3>1, <3>5 DEF Reject
        <4>2. TypeOK'
          BY <2>0, <3>1, <3>2, <3>3, <3>5, <4>1 DEF IInv, TypeOK
        <4>3. BufferIsCurrent' /\ ReceivedBytesFaithful' /\ RemainingIsMissing'
          BY <3>1, <3>2, <3>3, <3>5, <4>1
             DEF BufferIsCurrent, ReceivedBytesFaithful, RemainingIsMissing
        <4>4. processed' \in Seq(Message) /\ InOrderExactlyOnce'
          BY <4>1 DEF IInv, InOrderExactlyOnce
        <4>5. QED
          BY <4>2, <4>3, <4>4 DEF IInv
      <3>6. QED
        BY <3>3, <3>4, <3>5
    <2>6. QED
      BY <1>3, <2>1, <2>2, <2>3, <2>4, <2>5 DEF Collect
  <1>4. QED
    BY <1>1, <1>2, <1>3 DEF Next

(* The session's reassembly fields keep their types, both buffers have the   *)
(* announced length, and the counter of missing bytes stays in range.        *)
THEOREM TypeCorrect == Spec => []TypeOK
  <1>1. IInv => TypeOK
    BY DEF IInv
  <1>2. QED
    BY InitIInv, NextIInv, <1>1, PTL DEF Spec

(* process() sees the peer's messages in message_seq order, once each, byte  *)
(* for byte, for every flight and every fragmentation.                       *)
THEOREM InOrder == Spec => []InOrderExactlyOnce
  <1>1. IInv => InOrderExactlyOnce
    BY DEF IInv
  <1>2. QED
    BY InitIInv, NextIInv, <1>1, PTL DEF Spec

(* process() runs exactly when the last missing byte arrives.                *)
THEOREM CountsMissing == Spec => [](RemainingIsMissing /\ ReceivedBytesFaithful)
  <1>1. IInv => RemainingIsMissing /\ ReceivedBytesFaithful
    BY DEF IInv
  <1>2. QED
    BY InitIInv, NextIInv, <1>1, PTL DEF Spec

(* No fragment of the expected message is ever refused.                      *)
THEOREM NeverForeign == Spec => []BufferIsCurrent
  <1>1. IInv => BufferIsCurrent
    BY DEF IInv
  <1>2. QED
    BY InitIInv, NextIInv, <1>1, PTL DEF Spec

(* collect_handshake implements the abstract in-order delivery.              *)
THEOREM Refinement == Spec => ImplementsInOrderDelivery
  <1>1. Init => Abstract!Init
    BY DEF Init, Abstract!Init
  <1>2. IInv /\ [Next]_vars => [Abstract!Next]_(Abstract!vars)
    <2> SUFFICES ASSUME IInv, [Next]_vars
                 PROVE  [Abstract!Next]_(Abstract!vars)
      OBVIOUS
    <2>1. CASE UNCHANGED vars
      BY <2>1 DEF vars, Abstract!vars
    <2>2. CASE EndStep
      BY <2>2 DEF EndStep, Abstract!vars
    <2>3. ASSUME NEW k \in 1 .. Len(Msgs), NEW r \in FragmentRanges(k),
                 Collect(k, r[1], r[2])
          PROVE  [Abstract!Next]_(Abstract!vars)
      <3>0. /\ Total(k) \in Nat /\ r[1] \in Nat /\ r[2] \in Nat
            /\ r[1] + r[2] <= Total(k) /\ Len(Msgs) \in Nat
        BY RangeType
      <3>1. CASE OldMessage(k) \/ FutureMessage(k) \/ StoreFragment(k, r[1], r[2])
        BY <3>1 DEF OldMessage, FutureMessage, StoreFragment, vars, Abstract!vars
      <3>2. CASE k - 1 = recv_msg_seq /\ ~failed /\ Accept(Msgs[k].type, Msgs[k].body)
        BY <3>2, AcceptStep DEF Abstract!Next, Abstract!Deliver
      <3>3. CASE k - 1 = recv_msg_seq /\ ~failed /\ Reject
        BY <3>0, <3>3 DEF IInv, InOrderExactlyOnce, Reject, Abstract!Next, Abstract!Abort
      <3>4. CASE WholeMessage(k, r[1], r[2])
        BY <3>2, <3>3, <3>4 DEF WholeMessage
      <3>5. CASE LastFragment(k, r[1], r[2])
        <4> DEFINE BA == BufAfter(Fragment(k, r[1], r[2]),
                                  r[1], r[2], Total(k))
        <4>1. /\ k - 1 = recv_msg_seq /\ ~failed
              /\ RemainingAfter(r[1], r[2], Total(k)) = 0
              /\ Accept(Msgs[k].type, BA) \/ Reject
          BY <3>5 DEF LastFragment
        <4>2. BA = Msgs[k].body
          BY <3>0, <4>1, FragmentEffect
        <4> HIDE DEF BA
        <4>3. QED
          BY <3>2, <3>3, <4>1, <4>2
      <3>6. QED
        BY <2>3, <3>1, <3>4, <3>5 DEF Collect
    <2>4. QED
      BY <2>1, <2>2, <2>3 DEF Next
  <1>3. QED
    BY InitIInv, NextIInv, <1>1, <1>2, PTL
       DEF Spec, ImplementsInOrderDelivery, Abstract!Spec

-----------------------------------------------------------------------------
(* Record numbers                                                          *)

(* The records of earlier epochs are older than the current one, those of    *)
(* the current epoch carry numbers the counter has passed.                   *)
NumberedBefore ==
  \A i \in 1 .. Len(sent) :
    \/ sent[i].epoch < send_epoch
    \/ sent[i].epoch = send_epoch /\ sent[i].seq < send_seq

(* recv_seq is the successor of the number of a record that was sent.        *)
RecvFromSent ==
  recv_seq = 0 \/ \E i \in 1 .. Len(sent) : recv_seq = sent[i].seq + 1

(* The inductive invariant of the two counters.                              *)
NumberInv == NumberTypeOK /\ NumberedBefore /\ NumbersUnique /\ RecvFromSent

-----------------------------------------------------------------------------
(* Rebuilding a number *)

(* Division with remainder by the modulus of the wire field.                 *)
LEMMA DivMod ==
  ASSUME NEW M \in Nat \ {0}, NEW n \in Nat
  PROVE  /\ n \div M \in Nat
         /\ n % M \in 0 .. M - 1
         /\ n = M * (n \div M) + (n % M)
  OBVIOUS

(* Two numbers less than half a lap apart are on the same or on neighbouring *)
(* laps of the wire field.                                                   *)
LEMMA NeighbouringLaps ==
  ASSUME NEW H \in Nat \ {0}, NEW a \in Nat, NEW b \in Nat,
         NEW x \in 0 .. 2 * H - 1, NEW y \in 0 .. 2 * H - 1,
         2 * H * a + x < 2 * H * b + y + H,
         2 * H * b + y < 2 * H * a + x + H
  PROVE  a = b \/ a = b + 1 \/ b = a + 1
  <1> DEFINE d == a - b
  <1>1. 2 * H * a - 2 * H * b = 2 * H * d
    OBVIOUS
  <1>2. d \in Int
    OBVIOUS
  <1> HIDE DEF d
  <1>3. d < 2
    <2>1. SUFFICES ASSUME d >= 2 PROVE FALSE
      BY <1>2
    <2>2. 2 * H * d >= 4 * H
      BY <2>1, <1>2
    <2>3. QED
      BY <1>1, <2>2
  <1>4. d > -2
    <2>1. SUFFICES ASSUME d <= -2 PROVE FALSE
      BY <1>2
    <2>2. 2 * H * d <= -4 * H
      BY <2>1, <1>2
    <2>3. QED
      BY <1>1, <2>2
  <1>5. QED
    BY <1>2, <1>3, <1>4 DEF d

(* dtls13_unprotect finds the number of a record less than half the wire     *)
(* range from its counter, before or behind it, from the low bits alone.     *)
LEMMA ReconstructExact ==
  ASSUME NEW recv \in Nat, NEW seq \in Nat,
         seq < recv + Half, recv < seq + Half
  PROVE  reconstruct(recv, seq % Modulus) = seq
  <1> DEFINE M == 2 * Half
             a == recv \div M
             x == recv % M
             b == seq \div M
             y == seq % M
  <1>1. Half \in Nat \ {0} /\ M \in Nat \ {0}
    BY HalfAssumption
  <1>2. a \in Nat /\ x \in 0 .. M - 1 /\ recv = M * a + x
    BY <1>1, DivMod
  <1>3. b \in Nat /\ y \in 0 .. M - 1 /\ seq = M * b + y
    BY <1>1, DivMod
  <1> DEFINE cand == M * a + y
  <1>4. reconstruct(recv, seq % Modulus)
          = IF cand + Half < recv THEN cand + M
            ELSE IF cand > recv + Half THEN cand - M ELSE cand
    <2>1. recv - (recv % M) = M * a
      <3> HIDE DEF M, a
      <3>1. M * a \in Nat /\ x \in Nat
        BY <1>1, <1>2
      <3> HIDE DEF x
      <3>2. recv - x = M * a
        BY <1>2, <3>1
      <3>3. QED
        BY <3>2 DEF x
    <2>2. QED
      BY <2>1 DEF reconstruct, Modulus
  <1> HIDE DEF a, x, b, y
  <1>5. a = b \/ a = b + 1 \/ b = a + 1
    BY <1>1, <1>2, <1>3, NeighbouringLaps
  <1>6. CASE a = b
    BY <1>1, <1>2, <1>3, <1>4, <1>6
  <1>7. CASE a = b + 1
    <2>1. M * a = M * b + M
      BY <1>1, <1>3, <1>7
    <2>2. QED
      BY <1>1, <1>2, <1>3, <1>4, <2>1
  <1>8. CASE b = a + 1
    <2>1. M * b = M * a + M
      BY <1>1, <1>2, <1>8
    <2>2. QED
      BY <1>1, <1>2, <1>3, <1>4, <2>1
  <1>9. QED
    BY <1>5, <1>6, <1>7, <1>8

-----------------------------------------------------------------------------
(* The counters *)

(* What appending a record does to the records sent.                         *)
LEMMA AppendRecord ==
  ASSUME NEW s \in Seq(Record), NEW r \in Record
  PROVE  /\ Append(s, r) \in Seq(Record)
         /\ Len(s) \in Nat
         /\ Len(Append(s, r)) = Len(s) + 1
         /\ \A i \in 1 .. Len(s) : Append(s, r)[i] = s[i] /\ s[i] \in Record
         /\ Append(s, r)[Len(s) + 1] = r
  BY AppendProperties, ElementOfSeq, LenProperties

(* The invariant holds of a fresh session.                                   *)
LEMMA InitNumberInv == NumberInit => NumberInv
  BY EmptySeq DEF NumberInit, NumberInv, NumberTypeOK, NumberedBefore, NumbersUnique, RecvFromSent

(* Every operation keeps the invariant.                                      *)
LEMMA NextNumberInv == NumberInv /\ [NumberNext]_numberVars => NumberInv'
  <1> SUFFICES ASSUME NumberInv, [NumberNext]_numberVars PROVE NumberInv'
    OBVIOUS
  <1> USE DEF NumberInv
  <1>1. CASE PlaintextRecord
    <2>1. \A i \in 1 .. Len(sent) : sent[i] \in Record
      BY ElementOfSeq DEF NumberTypeOK
    <2>2. NumberedBefore'
      BY <1>1, <2>1 DEF PlaintextRecord, NumberedBefore, NumberTypeOK, Record
    <2>3. QED
      BY <1>1, <2>2 DEF PlaintextRecord, recvVars, NumberTypeOK, NumbersUnique, RecvFromSent
  <1>2. CASE Protect
    <2> DEFINE r == [epoch |-> send_epoch, seq |-> send_seq]
    <2>1. r \in Record /\ sent \in Seq(Record) /\ send_seq \in Nat
      BY <1>2 DEF Protect, NumberTypeOK, Record
    <2>2. /\ sent' = Append(sent, r) /\ send_seq' = send_seq + 1
          /\ UNCHANGED <<send_epoch, recv_epoch, recv_seq>>
      BY <1>2 DEF Protect, recvVars
    <2> HIDE DEF r
    <2>3. /\ sent' \in Seq(Record)
          /\ Len(sent) \in Nat
          /\ Len(sent') = Len(sent) + 1
          /\ \A i \in 1 .. Len(sent) : sent'[i] = sent[i] /\ sent[i] \in Record
          /\ sent'[Len(sent) + 1] = r
      BY <2>1, <2>2, AppendRecord
    <2>4. r.epoch = send_epoch /\ r.seq = send_seq
      BY DEF r
    <2>5. NumberTypeOK'
      BY <2>1, <2>2, <2>3 DEF NumberTypeOK
    <2>6. NumberedBefore'
      BY <2>1, <2>2, <2>3, <2>4 DEF NumberedBefore, Record
    <2>7. ASSUME NEW i \in 1 .. Len(sent) PROVE sent[i] # r
      <3>1. SUFFICES ASSUME sent[i] = r PROVE FALSE
        OBVIOUS
      <3>2. send_epoch < send_epoch \/ send_seq < send_seq
        BY <2>4, <3>1 DEF NumberedBefore
      <3>3. QED
        BY <3>2 DEF NumberTypeOK
    <2>8. NumbersUnique'
      BY <2>3, <2>7 DEF NumbersUnique
    <2>9. RecvFromSent'
      BY <2>2, <2>3 DEF RecvFromSent
    <2>10. QED
      BY <2>5, <2>6, <2>8, <2>9
  <1>3. CASE NewEpoch
    <2>1. \A i \in 1 .. Len(sent) : sent[i] \in Record
      BY ElementOfSeq DEF NumberTypeOK
    <2>2. NumberedBefore'
      BY <1>3, <2>1 DEF NewEpoch, NumberedBefore, NumberTypeOK, Record
    <2>3. QED
      BY <1>3, <2>2 DEF NewEpoch, recvVars, NumberTypeOK, NumbersUnique, RecvFromSent
  <1>4. ASSUME NEW i \in 1 .. Len(sent), Unprotect(sent[i]) PROVE NumberInv'
    <2>1. sent[i] \in Record
      BY ElementOfSeq DEF NumberTypeOK
    <2>2. NumberTypeOK' /\ NumberedBefore' /\ NumbersUnique'
      BY <1>4, <2>1 DEF Unprotect, Advance, sendVars, NumberTypeOK, NumberedBefore, NumbersUnique, Record
    <2>3. RecvFromSent'
      BY <1>4 DEF Unprotect, Advance, sendVars, RecvFromSent
    <2>4. QED
      BY <2>2, <2>3
  <1>5. CASE UNCHANGED numberVars
    BY <1>5 DEF numberVars, sendVars, recvVars, NumberTypeOK, NumberedBefore, NumbersUnique, RecvFromSent
  <1>6. QED
    BY <1>1, <1>2, <1>3, <1>4, <1>5 DEF NumberNext, Discard

(* NumberInv is an invariant of the specification.                                *)
LEMMA NumberInvariance == NumberSpec => []NumberInv
  <1>1. QED
    BY InitNumberInv, NextNumberInv, PTL DEF NumberSpec

-----------------------------------------------------------------------------
(* Theorems *)

(* The counters and the records keep their types: NumberTypeOK for every Half and  *)
(* MaxSeq.                                                                   *)
THEOREM NumberTypeCorrect == NumberSpec => []NumberTypeOK
  <1>1. NumberInv => NumberTypeOK
    BY DEF NumberInv
  <1>2. QED
    BY <1>1, NumberInvariance, PTL

(* dtls13_protect never uses a number twice in an epoch.                     *)
THEOREM NonceNumbersUnique == NumberSpec => []NumbersUnique
  <1>1. NumberInv => NumbersUnique
    BY DEF NumberInv
  <1>2. QED
    BY <1>1, NumberInvariance, PTL

(* dtls13_unprotect opens every record less than half the wire range away.   *)
THEOREM NearOpens == NumberSpec => []NearRecordsOpen
  <1>1. NumberTypeOK => NearRecordsOpen
    <2> SUFFICES ASSUME NumberTypeOK, NEW i \in 1 .. Len(sent),
                        sent[i].seq < recv_seq + Half, recv_seq < sent[i].seq + Half
                 PROVE  Opens(sent[i])
      BY DEF NearRecordsOpen
    <2>1. sent[i] \in Record
      BY ElementOfSeq DEF NumberTypeOK
    <2>2. sent[i].seq \in Nat /\ recv_seq \in Nat
      BY <2>1 DEF NumberTypeOK, Record
    <2>3. QED
      BY <2>2, ReconstructExact DEF Opens
  <1>2. QED
    BY <1>1, NumberTypeCorrect, PTL

(* Until an epoch has used half the wire range, every record opens, whatever *)
(* the order of the epochs on the network.                                   *)
THEOREM EarlyOpens == NumberSpec => []EarlyRecordsOpen
  <1>1. NumberInv => EarlyRecordsOpen
    <2> SUFFICES ASSUME NumberInv,
                        \A j \in 1 .. Len(sent) : sent[j].seq + 1 < Half,
                        NEW i \in 1 .. Len(sent)
                 PROVE  Opens(sent[i])
      BY DEF EarlyRecordsOpen
    <2>1. \A j \in 1 .. Len(sent) : sent[j].seq \in Nat
      <3>1. \A j \in 1 .. Len(sent) : sent[j] \in Record
        BY ElementOfSeq DEF NumberInv, NumberTypeOK
      <3>2. QED
        BY <3>1 DEF Record
    <2>2. recv_seq \in Nat /\ recv_seq < Half
      BY <2>1, HalfAssumption DEF NumberInv, NumberTypeOK, RecvFromSent
    <2>3. sent[i].seq < recv_seq + Half /\ recv_seq < sent[i].seq + Half
      BY <2>1, <2>2, HalfAssumption
    <2>4. QED
      BY <2>1, <2>2, <2>3, ReconstructExact DEF Opens
  <1>2. QED
    BY <1>1, NumberInvariance, PTL

(* Nothing that arrives late moves recv_seq back within an epoch.            *)
THEOREM Forward == NumberSpec => WindowMovesForward
  <1>1. NumberInv /\ [NumberNext]_numberVars => [recv_epoch' = recv_epoch => recv_seq' >= recv_seq]_numberVars
    <2> SUFFICES ASSUME NumberInv, NumberNext, recv_epoch' = recv_epoch PROVE recv_seq' >= recv_seq
      OBVIOUS
    <2>1. recv_seq \in Nat
      BY DEF NumberInv, NumberTypeOK
    <2>2. ASSUME NEW i \in 1 .. Len(sent), Unprotect(sent[i]) PROVE recv_seq' >= recv_seq
      <3>1. sent[i] \in Record
        BY ElementOfSeq DEF NumberInv, NumberTypeOK
      <3>2. sent[i].seq \in Nat
        BY <3>1 DEF Record
      <3>3. QED
        BY <2>1, <2>2, <3>2 DEF Unprotect, Advance
    <2>3. CASE UNCHANGED recv_seq
      BY <2>1, <2>3
    <2>4. QED
      BY <2>2, <2>3 DEF NumberNext, PlaintextRecord, Protect, NewEpoch, Discard, numberVars, recvVars
  <1>2. QED
    BY <1>1, NumberInvariance, PTL DEF NumberSpec, WindowMovesForward
=============================================================================
