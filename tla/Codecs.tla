------------------------------- MODULE Codecs --------------------------------
(***************************************************************************)
(* The codecs that work on bytes: Base64, the integers and transport       *)
(* parameters of QUIC, and the bytes of DER.                               *)
(***************************************************************************)
EXTENDS Integers, Sequences, SequencesExt, FiniteSets

(***************************************************************************)
(* Base64: the scalar coder, the AVX2 and AVX-512 kernels and the way they *)
(* share a text.  Bytes and characters are their numbers.                  *)
(***************************************************************************)

PadChar == 61   \* '='

\* From(s, i): what follows the first i elements.
After(s, i) == SubSeq(s, i + 1, Len(s))

\* The parts of size n of s, one after the other.
Parts(s, n) == [k \in 1..(Len(s) \div n) |-> SubSeq(s, (k - 1) * n + 1, k * n)]

\* The characters of the standard alphabet.
B64_ALPHABET ==
  [i \in 1..26 |-> 64 + i] \o [i \in 1..26 |-> 96 + i] \o [i \in 1..10 |-> 47 + i] \o <<43, 47>>

b64_value(ch) ==
  CASE ch \in 65..90  -> ch - 65
    [] ch \in 97..122 -> ch - 97 + 26
    [] ch \in 48..57  -> ch - 48 + 52
    [] ch = 43 -> 62
    [] ch = 47 -> 63
    [] OTHER -> -1

b64_level(feats) ==
  CASE {"avx512", "avx512bw"} \subseteq feats -> 2
    [] "avx2" \in feats -> 1
    [] OTHER -> 0

-----------------------------------------------------------------------------
(* The scalar coder.                                                       *)

\* The four six-bit values of three bytes.
Sextets(t) == <<t[1] \div 4, (t[1] % 4) * 16 + (t[2] \div 16), (t[2] % 16) * 4 + (t[3] \div 64), t[3] % 64>>

Octets(v) == <<v[1] * 4 + (v[2] \div 16), (v[2] % 16) * 16 + (v[3] \div 4), (v[3] % 4) * 64 + v[4]>>

Chars(v) == [j \in DOMAIN v |-> B64_ALPHABET[v[j] + 1]]

base64_encode_scalar(d) ==
  LET whole == FlattenSeq([k \in 1..(Len(d) \div 3) |-> Chars(Sextets(SubSeq(d, 3 * k - 2, 3 * k)))])
      rest  == After(d, 3 * (Len(d) \div 3))
  IN CASE Len(rest) = 0 -> whole
       [] Len(rest) = 1 -> whole \o SubSeq(Chars(Sextets(rest \o <<0, 0>>)), 1, 2) \o <<PadChar, PadChar>>
       [] Len(rest) = 2 -> whole \o SubSeq(Chars(Sextets(rest \o <<0>>)), 1, 3) \o <<PadChar>>

-----------------------------------------------------------------------------
(* The vector kernels, one 32-bit lane at a time.  A lane holds the bytes  *)
(* 1, 0, 2, 1 of its three, that is two 16-bit words.                      *)

encode_indices(t) ==
  LET w0 == t[2] + 256 * t[1]
      w1 == t[3] + 256 * t[2]
  IN <<w0 \div 1024, (w0 \div 16) % 64, (w1 \div 64) % 64, w1 % 64>>

encode_shift_lut == <<71>> \o [i \in 1..10 |-> -4] \o <<-19, -16, 65, 0, 0>>

\* The unsigned saturating difference picks the entry; 13 is or-ed in below 26.
encode_chars(i) ==
  LET t == IF i > 51 THEN i - 51 ELSE 0
  IN i + encode_shift_lut[(IF i < 26 THEN 13 ELSE t) + 1]

decode_lower_lut == <<1, 1, 43, 48, 65, 80, 97, 112>> \o [i \in 1..8 |-> 1]
decode_upper_lut == <<0, 0, 43, 57, 79, 90, 111, 122>> \o [i \in 1..8 |-> 0]
decode_shift_lut == <<0, 0, 19, 4, -65, -65, -71, -71>> \o [i \in 1..8 |-> 0]

Signed(b) == IF b > 127 THEN b - 256 ELSE b

\* Mutant: '/' is not an exception to the range of its row.
Outside_NoSlash(ch) ==
  LET h == (ch \div 16) + 1
  IN decode_lower_lut[h] > Signed(ch) \/ Signed(ch) > decode_upper_lut[h]

Outside(ch) ==
  LET h == (ch \div 16) + 1
  IN ch # 47 /\ (decode_lower_lut[h] > Signed(ch) \/ Signed(ch) > decode_upper_lut[h])

decode_value(ch) ==
  ch + decode_shift_lut[(ch \div 16) + 1] + (IF ch = 47 THEN -3 ELSE 0)

\* Two multiply-adds put four values into 24 bits; the shuffle reverses the bytes.
pack_values(v) ==
  LET n == (v[1] * 64 + v[2]) * 4096 + v[3] * 64 + v[4]
  IN <<n \div 65536, (n \div 256) % 256, n % 256>>

\* The lanes of the first n bytes or characters, n a multiple of the group.
EncodeLanes(d, n) ==
  FlattenSeq([k \in 1..(n \div 3) |->
                LET v == encode_indices(SubSeq(d, 3 * k - 2, 3 * k)) IN [j \in 1..4 |-> encode_chars(v[j])]])

DecodeLanes(t, n) ==
  [ok |-> \A i \in 1..n : ~Outside(t[i]),
   out |-> FlattenSeq([k \in 1..(n \div 4) |-> pack_values([j \in 1..4 |-> decode_value(t[4 * k - 4 + j])])])]

\* 24 bytes at a time, while the two loads of 16 stay inside the text.
avx2_encoded(n) == IF n < 28 THEN 0 ELSE 24 * ((n - 28) \div 24 + 1)

avx512_encoded(n) == 48 * (n \div 48)

base64_encode_avx2(d)   == EncodeLanes(d, avx2_encoded(Len(d)))
base64_encode_avx512(d) == EncodeLanes(d, avx512_encoded(Len(d)))
base64_decode_avx2(t, n)   == DecodeLanes(t, n)
base64_decode_avx512(t, n) == DecodeLanes(t, n)

-----------------------------------------------------------------------------
base64_encode(feats, d) ==
  LET head == CASE b64_level(feats) = 2 -> base64_encode_avx512(d)
                [] b64_level(feats) = 1 -> base64_encode_avx2(d)
                [] b64_level(feats) = 0 -> <<>>
  IN head \o base64_encode_scalar(After(d, (Len(head) \div 4) * 3))

Refused64 == [ok |-> FALSE, out |-> <<>>]

\* One group of the scalar loop: padding only in its last two places, and only
\* when nothing follows.
DecodeGroup(s, g, last) ==
  LET padded == g[3] = PadChar \/ g[4] = PadChar
      v      == [j \in 1..4 |-> IF g[j] = PadChar /\ j > 2 THEN 0 ELSE b64_value(g[j])]
      o      == Octets(v)
  IN IF ~s.ok \/ (\E j \in 1..4 : v[j] = -1) \/ (padded /\ ~last) THEN Refused64
     ELSE [ok |-> TRUE,
           out |-> s.out \o <<o[1]>> \o (IF g[3] = PadChar THEN <<>> ELSE <<o[2]>>)
                         \o (IF g[4] = PadChar THEN <<>> ELSE <<o[3]>>)]

\* How much of a text of n characters the kernels take: never its last group.
VectorPart(feats, n) ==
  CASE b64_level(feats) = 2 /\ n >= 68 -> ((n - 4) \div 64) * 64
    [] b64_level(feats) = 1 /\ n >= 36 -> ((n - 4) \div 32) * 32
    [] OTHER -> 0

base64_decode(feats, t) ==
  LET i    == VectorPart(feats, Len(t))
      head == CASE i = 0 -> [ok |-> TRUE, out |-> <<>>]
                [] i > 0 /\ b64_level(feats) = 2 -> base64_decode_avx512(t, i)
                [] i > 0 /\ b64_level(feats) = 1 -> base64_decode_avx2(t, i)
      rest == Parts(After(t, i), 4)
  IN IF Len(t) % 4 # 0 \/ ~head.ok THEN Refused64
     ELSE FoldLeft(LAMBDA s, k : DecodeGroup(s, rest[k], k = Len(rest)), head, [k \in DOMAIN rest |-> k])

-----------------------------------------------------------------------------
(* RFC 4648: the bits of the bytes in order, six at a time.                *)

Bit(d, i) == IF i \div 8 < Len(d) THEN (d[i \div 8 + 1] \div 2^(7 - (i % 8))) % 2 ELSE 0

BASE64(d) ==
  [k \in 1..4 * ((Len(d) + 2) \div 3) |->
     IF 6 * (k - 1) >= 8 * Len(d) THEN PadChar
     ELSE B64_ALPHABET[1 + 32 * Bit(d, 6 * k - 6) + 16 * Bit(d, 6 * k - 5) + 8 * Bit(d, 6 * k - 4)
                         + 4 * Bit(d, 6 * k - 3) + 2 * Bit(d, 6 * k - 2) + Bit(d, 6 * k - 1)]]

-----------------------------------------------------------------------------
(***************************************************************************)
(* The variable-length integers and the transport parameters of QUIC.  A   *)
(* byte has BYTE values, a quarter of them per length (256 in the code);   *)
(* the limits of single parameters are those of the code.                  *)
(***************************************************************************)

CONSTANTS BYTE,      \* values of a byte (256)
          MaxStreams \* first count of streams that is refused (2^60)

ASSUME QuicAssumption == BYTE \in {4 * n : n \in 1..64} /\ MaxStreams \in Nat

QUARTER == BYTE \div 4

\* The numbers a varint can carry (2^62 in the code).
VarintLimit == QUARTER * BYTE^7

quic_varint_encoded_len(v) ==
  CASE v < QUARTER -> 1
    [] v >= QUARTER /\ v < QUARTER * BYTE -> 2
    [] v >= QUARTER * BYTE /\ v < QUARTER * BYTE^3 -> 4
    [] OTHER -> 8

\* The class of the length is or-ed into the two high bits of the first byte.
quic_varint_encode(v) ==
  LET n   == quic_varint_encoded_len(v)
      cls == CASE n = 1 -> 0 [] n = 2 -> 1 [] n = 4 -> 2 [] n = 8 -> 3
  IN [i \in 1..n |-> IF i = 1 THEN cls * QUARTER + ((v \div BYTE^(n - 1)) % QUARTER)
                     ELSE (v \div BYTE^(n - i)) % BYTE]

NoVarint == [ok |-> FALSE, v |-> 0, n |-> 0]

quic_varint_decode(p) ==
  LET n == 2^(p[1] \div QUARTER)
  IN IF p = <<>> THEN NoVarint
     ELSE IF n > Len(p) THEN NoVarint
     ELSE [ok |-> TRUE, n |-> n,
           v |-> FoldLeft(LAMBDA a, i : a * BYTE + p[i], p[1] % QUARTER, [i \in 1..n - 1 |-> i + 1])]

-----------------------------------------------------------------------------
(* Transport parameters: a record of numbers, byte strings and one flag.   *)

\* <<identifier, field, default>>: left out when it has its default.
NumberFields ==
  <<<<1, "max_idle_timeout", 0>>, <<4, "initial_max_data", 0>>,
    <<5, "initial_max_stream_data_bidi_local", 0>>, <<6, "initial_max_stream_data_bidi_remote", 0>>,
    <<7, "initial_max_stream_data_uni", 0>>, <<8, "initial_max_streams_bidi", 0>>,
    <<9, "initial_max_streams_uni", 0>>, <<10, "ack_delay_exponent", 3>>, <<11, "max_ack_delay", 25>>,
    <<14, "active_connection_id_limit", 2>>, <<3, "max_udp_payload_size", 65527>>>>

\* <<identifier, field>>: left out when empty, except the source connection ID.
ByteFields ==
  <<<<0, "original_destination_connection_id">>, <<2, "stateless_reset_token">>,
    <<13, "preferred_address">>, <<15, "initial_source_connection_id">>,
    <<16, "retry_source_connection_id">>>>

Parameters ==
  [n |-> [i \in DOMAIN NumberFields |-> NumberFields[i][3]],
   b |-> [i \in DOMAIN ByteFields |-> <<>>],
   disable_active_migration |-> FALSE,
   custom |-> <<>>]

quic_tp_put_bytes(id, d) == quic_varint_encode(id) \o quic_varint_encode(Len(d)) \o d

quic_tp_put_uint(id, v) == quic_tp_put_bytes(id, quic_varint_encode(v))

\* [ok |->, v |->]: an empty value is zero, and nothing may follow the number.
quic_tp_get_uint(d) ==
  LET r == quic_varint_decode(d)
  IN IF d = <<>> THEN [ok |-> TRUE, v |-> 0] ELSE [ok |-> r.ok /\ r.n = Len(d), v |-> r.v]

\* What is written for identifier id: nothing for a default, except the payload
\* size (3) and the source connection ID (15), which are always written.
WriteParameter(p, id) ==
  LET num == {i \in DOMAIN NumberFields : NumberFields[i][1] = id}
      str == {i \in DOMAIN ByteFields : ByteFields[i][1] = id}
  IN IF \E i \in num : p.n[i] # NumberFields[i][3] \/ id = 3
       THEN quic_tp_put_uint(id, p.n[CHOOSE i \in num : TRUE])
     ELSE IF \E i \in str : p.b[i] # <<>> \/ id = 15
       THEN quic_tp_put_bytes(id, p.b[CHOOSE i \in str : TRUE])
     ELSE IF id = 12 /\ p.disable_active_migration THEN quic_tp_put_bytes(id, <<>>)
     ELSE <<>>

tp_encode(p) ==
  FlattenSeq([k \in 1..17 |-> WriteParameter(p, k - 1)])
    \o FlattenSeq([i \in DOMAIN p.custom |-> quic_tp_put_bytes(p.custom[i][1], p.custom[i][2])])

\* What a parameter's number must satisfy.
NumberAllowed(id, v) ==
  CASE id = 3 -> v >= 1200
    [] id \in {8, 9} -> v < MaxStreams
    [] id = 10 -> v <= 20
    [] id = 11 -> v < 16384
    [] id = 14 -> v >= 2
    [] OTHER -> TRUE

\* One parameter stored into p.
StoreParameter(p, id, d) ==
  LET num == {i \in DOMAIN NumberFields : NumberFields[i][1] = id}
      str == {i \in DOMAIN ByteFields : ByteFields[i][1] = id}
      r   == quic_tp_get_uint(d)
  IN CASE num # {} -> [ok |-> r.ok /\ NumberAllowed(id, r.v),
                       p |-> [p EXCEPT !.n = [i \in DOMAIN p.n |-> IF i \in num THEN r.v ELSE p.n[i]]]]
       [] str # {} -> [ok |-> id = 2 => Len(d) = 16,
                       p |-> [p EXCEPT !.b = [i \in DOMAIN p.b |-> IF i \in str THEN d ELSE p.b[i]]]]
       [] id = 12 -> [ok |-> d = <<>>, p |-> [p EXCEPT !.disable_active_migration = TRUE]]
       [] OTHER -> [ok |-> TRUE, p |-> [p EXCEPT !.custom = Append(@, <<id, d>>)]]

\* One turn of the loop of decode: an identifier, a length and a value.
DecodeOne(s, d) ==
  LET id   == quic_varint_decode(s.left)
      vlen == quic_varint_decode(SubSeq(s.left, id.n + 1, Len(s.left)))
      at   == id.n + vlen.n
      r    == StoreParameter(s.p, id.v, SubSeq(s.left, at + 1, at + vlen.v))
  IN IF ~s.ok \/ s.left = <<>> THEN s
     ELSE IF ~id.ok \/ ~vlen.ok \/ vlen.v > Len(s.left) - at THEN [s EXCEPT !.ok = FALSE]
     ELSE [ok |-> r.ok, p |-> r.p, left |-> SubSeq(s.left, at + vlen.v + 1, Len(s.left))]

tp_decode(d) ==
  FoldLeft(DecodeOne, [ok |-> TRUE, p |-> Parameters, left |-> d], d)

-----------------------------------------------------------------------------
(***************************************************************************)
(* The bytes of DER: lengths, integers, object identifiers, and the two    *)
(* forms of an ECDSA signature.  A byte is its number.                     *)
(***************************************************************************)

INTEGER_TAG  == 2
SEQUENCE_TAG == 48

\* The bytes of n > 0, most significant first.
BigEndian(n) ==
  LET size == CHOOSE k \in 1..4 : n < 256^k /\ (k = 1 \/ n >= 256^(k - 1))
  IN [i \in 1..size |-> (n \div 256^(size - i)) % 256]

FromBigEndian(b) == FoldLeft(LAMBDA a, x : a * 256 + x, 0, b)

HighBit(b) == b >= 128

\* s without the zeros in front, except a last one.
StripZeros(s) ==
  LET first == CHOOSE i \in 1..Len(s) : /\ \A j \in 1..i - 1 : s[j] = 0
                                        /\ s[i] # 0 \/ i = Len(s)
  IN IF s = <<>> THEN <<>> ELSE SubSeq(s, first, Len(s))

PadTo(s, n) == [i \in 1..n - Len(s) |-> 0] \o s

-----------------------------------------------------------------------------
encode_length(n) ==
  IF n < 128 THEN <<n>> ELSE <<128 + Len(BigEndian(n))>> \o BigEndian(n)

encode_tlv(tag, v) == <<tag>> \o encode_length(Len(v)) \o v

\* A zero in front when the high bit is set, then no zero that is not needed.
IntegerBytes(b) ==
  LET v == IF b # <<>> /\ HighBit(b[1]) THEN <<0>> \o b ELSE b
      first == CHOOSE i \in 1..Len(v) :
                 /\ \A j \in 1..i - 1 : v[j] = 0 /\ ~HighBit(v[j + 1])
                 /\ i = Len(v) \/ v[i] # 0 \/ HighBit(v[i + 1])
  IN IF v = <<>> THEN <<>> ELSE SubSeq(v, first, Len(v))

encode_integer(b) == encode_tlv(INTEGER_TAG, IntegerBytes(b))

\* [len |->, off |->]: what does not fit gives length 0 with the bytes left unread.
decode_length(d, off) ==
  LET first == d[off + 1]
      n     == first - 128
  IN IF off >= Len(d) THEN [len |-> 0, off |-> off]
     ELSE IF first < 128 THEN [len |-> first, off |-> off + 1]
     ELSE IF n = 0 \/ off + 1 + n > Len(d) THEN [len |-> 0, off |-> off + 1]
     ELSE [len |-> FromBigEndian(SubSeq(d, off + 2, off + 1 + n)), off |-> off + 1 + n]

NoTlv == [ok |-> FALSE]

\* The strict reader refuses a length of zero that is not written as one zero.
decode_tlv(d, off) ==
  LET l == decode_length(d, off + 1)
  IN IF off >= Len(d) THEN NoTlv
     ELSE IF l.len = 0 /\ d[l.off] # 0 THEN NoTlv
     ELSE IF l.off + l.len > Len(d) THEN NoTlv
     ELSE [ok |-> TRUE, tag |-> d[off + 1], v |-> SubSeq(d, l.off + 1, l.off + l.len), off |-> l.off + l.len]

\* The reader of the parsers takes it for an empty value.
decode_tlv2(d, off) ==
  LET l == decode_length(d, off + 1)
  IN IF off >= Len(d) THEN NoTlv
     ELSE IF l.off + l.len > Len(d) THEN NoTlv
     ELSE [ok |-> TRUE, tag |-> d[off + 1], v |-> SubSeq(d, l.off + 1, l.off + l.len), off |-> l.off + l.len]

\* One component: seven bits per byte, a continuation bit on all but the last.
Component(n) ==
  LET size == CHOOSE k \in 1..4 : n < 128^k /\ (k = 1 \/ n >= 128^(k - 1))
  IN [i \in 1..size |-> ((n \div 128^(size - i)) % 128) + (IF i < size THEN 128 ELSE 0)]

\* The components are read and written again; the first byte stays merged.
tlv_to_oid(v) ==
  LET step == FoldLeft(LAMBDA a, b : IF HighBit(b) THEN [a EXCEPT !.comp = @ * 128 + (b - 128), !.open = TRUE]
                                     ELSE [comp |-> 0, open |-> FALSE, out |-> a.out \o Component(a.comp * 128 + b)],
                       [comp |-> 0, open |-> FALSE, out |-> <<Head(v)>>], Tail(v))
  IN IF v = <<>> THEN <<>>
     ELSE IF step.open THEN step.out \o Component(step.comp) ELSE step.out

-----------------------------------------------------------------------------
(* ECDSA-Sig-Value: SEQUENCE { INTEGER r, INTEGER s }, or r and s in fields.*)

ecdsa_raw_sig_to_der(raw, field_len) ==
  LET Half(h) == StripZeros(SubSeq(raw, h * field_len + 1, (h + 1) * field_len))
  IN encode_tlv(SEQUENCE_TAG, encode_integer(Half(0)) \o encode_integer(Half(1)))

NoSignature == [ok |-> FALSE, raw |-> <<>>]

\* read_int of the converter: the length of an integer is one byte.
ReadInt(d) ==
  IF Len(d) < 2 THEN NoTlv
  ELSE IF d[1] # INTEGER_TAG \/ d[2] > Len(d) - 2 THEN NoTlv
  ELSE [ok |-> TRUE, v |-> SubSeq(d, 3, d[2] + 2), rest |-> SubSeq(d, d[2] + 3, Len(d))]

ecdsa_der_sig_to_raw(d, field_len) ==
  LET n     == d[2] - 128
      hdr   == IF d[2] < 128 THEN 2 ELSE 2 + n
      total == IF d[2] < 128 THEN d[2] ELSE FromBigEndian(SubSeq(d, 3, hdr))
      r     == ReadInt(SubSeq(d, hdr + 1, Len(d)))
      s     == ReadInt(r.rest)
      Norm(v) == StripZeros(v)
  IN IF Len(d) < 2 THEN NoSignature
     ELSE IF d[1] # SEQUENCE_TAG \/ (d[2] >= 128 /\ (n = 0 \/ n > 4 \/ 2 + n > Len(d))) THEN NoSignature
     ELSE IF hdr + total # Len(d) THEN NoSignature
     ELSE IF ~r.ok THEN NoSignature
     ELSE IF ~s.ok THEN NoSignature
     ELSE IF Len(Norm(r.v)) > field_len \/ Len(Norm(s.v)) > field_len THEN NoSignature
     ELSE [ok |-> TRUE, raw |-> PadTo(Norm(r.v), field_len) \o PadTo(Norm(s.v), field_len)]

\* Whatever has the size of the two fields is taken for them.
sig_to_raw(sig, field_len) ==
  IF Len(sig) = 2 * field_len THEN [ok |-> TRUE, raw |-> sig] ELSE ecdsa_der_sig_to_raw(sig, field_len)
=============================================================================
