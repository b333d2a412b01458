-------------------------------- MODULE X509 ---------------------------------
(***************************************************************************)
(* X.509 certificates: encoding, parsing, issuing, and the verification of *)
(* chains.  DER is a tree of TLVs: the bytes of a TLV are the business of  *)
(* Codecs.  Times are whole years since 1970, a name or an object          *)
(* identifier is a value, a signature remembers who made it, how and over  *)
(* what.                                                                   *)
(***************************************************************************)
EXTENDS Codecs

CONSTANTS Absent,     \* a field or TLV that is not there
          RSA_UNIT,   \* bytes of a modulus per 1024 bits (128)
          ZERO_TIME   \* 2^64 seconds, in years

ASSUME X509Assumption == RSA_UNIT \in Nat \ {0} /\ ZERO_TIME \in Nat

RsaTypes == {"RSA_2048", "RSA_3072", "RSA_4096"}
EcTypes  == {"ECDSA_P256", "ECDSA_P384", "ECDSA_P521", "SM2"}

rsa_mod_bytes(kt) ==
  CASE kt = "RSA_2048" -> 2 * RSA_UNIT [] kt = "RSA_3072" -> 3 * RSA_UNIT [] OTHER -> 4 * RSA_UNIT

rsa_key_type_from_mod_len(n) ==
  CASE n <= 2 * RSA_UNIT -> "RSA_2048"
    [] n > 2 * RSA_UNIT /\ n <= 3 * RSA_UNIT -> "RSA_3072"
    [] OTHER -> "RSA_4096"

Tlv(tag, v) == [tag |-> tag, v |-> v]

\* The i-th TLV of a value, Absent behind the last one.
At(v, i) == IF i \in DOMAIN v THEN v[i] ELSE Absent

Is(t, tag) == t # Absent /\ t.tag = tag

Oid(name) == Tlv("OID", <<name>>)

Null == Tlv("NULL", <<>>)

F65537 == <<1, 0, 1>>

-----------------------------------------------------------------------------
(* Encoding.                                                               *)

\* The two digits of the year; the rest of the date is written as it is.
encode_utc_time(t) == Tlv("UTCTime", <<(1970 + t) % 100>>)

encode_name(dn) ==
  Tlv("SEQUENCE", [i \in DOMAIN dn |->
                     Tlv("SET", <<Tlv("SEQUENCE", <<Oid(dn[i].oid), Tlv("UTF8_STRING", <<dn[i].value>>)>>)>>)])

HashName(n) == CASE n = 48 -> "SHA384" [] n = 64 -> "SHA512" [] OTHER -> "SHA256"

encode_sig_algo(kt, hash_len, pss) ==
  LET hash == Tlv("SEQUENCE", <<Oid(HashName(hash_len)), Null>>)
  IN CASE kt \in RsaTypes /\ ~pss -> Tlv("SEQUENCE", <<Oid(<<HashName(hash_len), "RSA">>), Null>>)
       [] kt \in RsaTypes /\ pss ->
            Tlv("SEQUENCE", <<Oid(<<"RSASSA_PSS">>),
                              Tlv("SEQUENCE", <<Tlv("CONTEXT0", <<hash>>),
                                                Tlv("CONTEXT1", <<Tlv("SEQUENCE", <<Oid("MGF1"), hash>>)>>),
                                                Tlv("CONTEXT2", <<Tlv("INTEGER", IntegerBytes(<<hash_len>>))>>)>>)>>)
       [] OTHER -> Tlv("SEQUENCE", <<Oid(<<kt>>)>>)

\* An RSA key is the modulus with the three bytes of the exponent behind it.
encode_spki(kt, raw) ==
  LET alg == CASE kt \in RsaTypes -> <<Oid("RSA_ENCRYPTION"), Null>>
               [] kt \in EcTypes -> <<Oid("EC_PUBLIC_KEY"), Oid(kt)>>
               [] OTHER -> <<Oid(kt)>>
      key == CASE kt \in RsaTypes ->
                    <<Tlv("SEQUENCE", <<Tlv("INTEGER", IntegerBytes(SubSeq(raw, 1, Len(raw) - 3))),
                                        Tlv("INTEGER", IntegerBytes(F65537))>>)>>
               [] kt \in EcTypes -> <<4>> \o raw
               [] OTHER -> raw
  IN Tlv("SEQUENCE", <<Tlv("SEQUENCE", alg), Tlv("BIT_STRING", <<0>> \o key)>>)

Critical == Tlv("BOOLEAN", <<255>>)

Extension(oid, critical, v) ==
  Tlv("SEQUENCE", <<Oid(oid)>> \o (IF critical THEN <<Critical>> ELSE <<>>) \o <<Tlv("OCTET_STRING", v)>>)

\* The bytes up to the last bit set, and how many bits of the last are unused.
KeyUsageBits(bits) ==
  LET tz         == CHOOSE z \in 0..15 : bits % 2^z = 0 /\ (bits \div 2^z) % 2 = 1
      meaningful == 16 - tz
      len        == (meaningful + 7) \div 8
  IN <<len * 8 - meaningful>> \o SubSeq(<<bits \div 256, bits % 256>>, 1, len)

encode_extensions(c) ==
  LET basic == c.basic_constraints
      bc  == IF basic = Absent THEN <<>>
             ELSE <<Extension("BASIC_CONSTRAINTS", TRUE,
                      <<Tlv("SEQUENCE",
                          (IF basic.ca THEN <<Critical>> ELSE <<>>)
                          \o IF basic.path_len < 0 THEN <<>>
                             ELSE <<Tlv("INTEGER", IntegerBytes(IF basic.path_len = 0 THEN <<0>>
                                                                ELSE BigEndian(basic.path_len)))>>)>>)>>
      ku  == IF c.key_usage = Absent THEN <<>>
             ELSE IF c.key_usage = 0 THEN <<>>
             ELSE <<Extension("KEY_USAGE", TRUE, <<Tlv("BIT_STRING", KeyUsageBits(c.key_usage))>>)>>
      eku == IF c.ext_key_usage = <<>> THEN <<>>
             ELSE <<Extension("EXT_KEY_USAGE", FALSE,
                              <<Tlv("SEQUENCE", [i \in DOMAIN c.ext_key_usage |-> Oid(c.ext_key_usage[i])])>>)>>
      san == IF c.subject_alt_name \in {Absent, <<>>} THEN <<>>
             ELSE <<Extension("SUBJECT_ALT_NAME", FALSE,
                              <<Tlv("SEQUENCE", [i \in DOMAIN c.subject_alt_name |->
                                                   Tlv("DNS_NAME", <<c.subject_alt_name[i]>>)])>>)>>
      raw == [i \in DOMAIN c.raw_extensions |->
                Extension(c.raw_extensions[i].oid, c.raw_extensions[i].critical, c.raw_extensions[i].extn_value)]
      all == bc \o ku \o eku \o san \o raw
  IN IF all = <<>> THEN <<>> ELSE <<Tlv("CONTEXT3", <<Tlv("SEQUENCE", all)>>)>>

SigAlgo(c) == encode_sig_algo(c.sign_key_type, c.sig_hash_len, c.sig_is_pss)

ToBeSigned(c) ==
  Tlv("SEQUENCE",
      (IF c.version > 0 THEN <<Tlv("CONTEXT0", <<Tlv("INTEGER", IntegerBytes(<<c.version>>))>>)>> ELSE <<>>)
      \o <<Tlv("INTEGER", IntegerBytes(c.serial_number)), SigAlgo(c), encode_name(c.issuer),
           Tlv("SEQUENCE", <<encode_utc_time(c.not_before), encode_utc_time(c.not_after)>>),
           encode_name(c.subject), encode_spki(c.key_type, c.public_key)>>
      \o (IF c.version >= 2 THEN encode_extensions(c) ELSE <<>>))

to_der(c) == Tlv("SEQUENCE", <<ToBeSigned(c), SigAlgo(c), Tlv("BIT_STRING", <<0>> \o c.signature)>>)

-----------------------------------------------------------------------------
(* Parsing.                                                                *)

\* Years from 50 on are of the last century; a time before 1970 wraps.
tlv_to_utc_time(t) ==
  LET year == t.v[1] + (IF t.v[1] >= 50 THEN 1900 ELSE 2000)
  IN (year - 1970) % ZERO_TIME

\* parse_dn(v): the attributes up to the first RDN that is no SET.
parse_dn(v) ==
  LET names == {i \in DOMAIN v : \A j \in 1..i : Is(v[j], "SET")}
      Attr(i) == At(v[i].v, 1)
      good  == {i \in names : Is(Attr(i), "SEQUENCE") /\ Is(At(Attr(i).v, 1), "OID") /\ At(Attr(i).v, 2) # Absent}
      order == SetToSortSeq(good, <)
  IN [k \in DOMAIN order |-> [oid |-> Attr(order[k]).v[1].v[1], value |-> Attr(order[k]).v[2].v[1]]]

\* The curve of an EC key; P-256 when it is missing or unknown.
CurveOf(t) == IF t = Absent THEN "ECDSA_P256"
              ELSE IF t.v[1] \in {"SM2", "ECDSA_P384", "ECDSA_P521"} THEN t.v[1] ELSE "ECDSA_P256"

\* [ok |->, kt |->, key |->]: an algorithm that is not known leaves the default.
parse_spki(spki) ==
  LET alg  == At(spki.v, 1)
      pub  == At(spki.v, 2)
      name == alg.v[1].v[1]
      kt   == CASE name = "RSA_ENCRYPTION" -> "RSA_2048"
                [] name = "EC_PUBLIC_KEY" -> CurveOf(At(alg.v, 2))
                [] OTHER -> IF name = "Ed448" THEN "Ed448" ELSE "Ed25519"
      bits == Tail(pub.v)
      rsa  == bits[1].v
      mod  == IF rsa[1].v[1] = 0 THEN Tail(rsa[1].v) ELSE rsa[1].v
  IN IF ~Is(alg, "SEQUENCE") THEN [ok |-> FALSE]
     ELSE IF ~Is(At(alg.v, 1), "OID") \/ ~Is(pub, "BIT_STRING") THEN [ok |-> FALSE]
     ELSE CASE kt \in RsaTypes -> [ok |-> TRUE, kt |-> rsa_key_type_from_mod_len(Len(mod)), key |-> mod \o rsa[2].v]
            [] kt \in EcTypes -> [ok |-> TRUE, kt |-> kt,
                                  key |-> IF bits # <<>> /\ bits[1] = 4 THEN Tail(bits) ELSE bits]
            [] OTHER -> [ok |-> TRUE, kt |-> kt, key |-> bits]

\* Of the basic constraints the flag is read first, then the first byte of the length.
ParseBasic(seq) ==
  LET ca == At(seq.v, 1)
      pl == At(seq.v, 2)
  IN [ca |-> IF Is(ca, "BOOLEAN") THEN ca.v[1] # 0 ELSE FALSE,
      path_len |-> IF Is(pl, "INTEGER") THEN pl.v[1] ELSE -1]

\* One extension: basic constraints and names are understood, the rest kept as it is.
ParseExtension(c, ext) ==
  LET oid      == ext.v[1].v[1]
      flag     == At(ext.v, 2)
      critical == Is(flag, "BOOLEAN") /\ flag.v[1] # 0
      value    == IF Is(flag, "BOOLEAN") THEN At(ext.v, 3) ELSE flag
      names    == SelectSeq(value.v[1].v, LAMBDA n : n.tag = "DNS_NAME")
  IN CASE oid = "BASIC_CONSTRAINTS" -> [c EXCEPT !.basic_constraints = ParseBasic(value.v[1])]
       [] oid = "SUBJECT_ALT_NAME" -> [c EXCEPT !.subject_alt_name = [i \in DOMAIN names |-> names[i].v[1]]]
       [] OTHER -> [c EXCEPT !.raw_extensions =
                      Append(@, [oid |-> oid, critical |-> critical, extn_value |-> value.v])]

pss_hash_len(params) ==
  LET first == At(params.v, 1)
      hash  == IF Is(first, "CONTEXT0") THEN At(first.v, 1) ELSE first
  IN IF ~Is(params, "SEQUENCE") THEN 32
     ELSE IF ~Is(hash, "SEQUENCE") THEN 32
     ELSE CASE hash.v[1].v[1] = "SHA384" -> 48 [] hash.v[1].v[1] = "SHA512" -> 64 [] OTHER -> 32

\* The family and the hash of the signature; every RSA tier is RSA_2048 here.
ParseSigAlgo(c, alg) ==
  LET name == alg.v[1].v[1]
  IN CASE Len(name) = 2 ->
            [c EXCEPT !.sign_key_type = "RSA_2048",
                      !.sig_hash_len = CASE name[1] = "SHA256" -> 32 [] name[1] = "SHA384" -> 48
                                         [] name[1] = "SHA512" -> 64]
       [] name = <<"RSASSA_PSS">> ->
            [c EXCEPT !.sign_key_type = "RSA_2048", !.sig_is_pss = TRUE,
                      !.sig_hash_len = pss_hash_len(At(alg.v, 2))]
       [] OTHER -> IF name[1] \in EcTypes \cup {"Ed25519", "Ed448"} THEN [c EXCEPT !.sign_key_type = name[1]]
                   ELSE c

\* The fields of x509_cert as they are declared.
x509_cert ==
  [version |-> 2, serial_number |-> <<>>, issuer |-> <<>>, subject |-> <<>>, not_before |-> 0, not_after |-> 0,
   key_type |-> "Ed25519", public_key |-> <<>>, basic_constraints |-> Absent, key_usage |-> Absent,
   ext_key_usage |-> <<>>, subject_alt_name |-> Absent, raw_extensions |-> <<>>,
   sign_key_type |-> "Ed25519", signature |-> <<>>, tbs_raw |-> Absent, sig_is_pss |-> FALSE, sig_hash_len |-> 32]

\* from_der(d): Absent when a part is missing or has the wrong tag.
from_der(d) ==
  LET tbs  == At(d.v, 1)
      alg  == At(d.v, 2)
      sig  == At(d.v, 3)
      ver  == Is(At(tbs.v, 1), "CONTEXT0")
      Field(i) == At(tbs.v, IF ver THEN i + 1 ELSE i)
      spki == parse_spki(Field(6))
      exts == IF Is(Field(7), "CONTEXT3") THEN Field(7).v[1].v ELSE <<>>
      base == [x509_cert EXCEPT
                 !.tbs_raw = tbs, !.signature = Tail(sig.v),
                 !.version = IF ver THEN tbs.v[1].v[1].v[1] ELSE 0,
                 !.serial_number = Field(1).v, !.issuer = parse_dn(Field(3).v),
                 !.not_before = tlv_to_utc_time(Field(4).v[1]), !.not_after = tlv_to_utc_time(Field(4).v[2]),
                 !.subject = parse_dn(Field(5).v), !.key_type = spki.kt, !.public_key = spki.key]
  IN IF ~Is(d, "SEQUENCE") THEN Absent
     ELSE IF ~Is(tbs, "SEQUENCE") \/ ~Is(alg, "SEQUENCE") \/ ~Is(sig, "BIT_STRING") THEN Absent
     ELSE IF ~Is(Field(1), "INTEGER") \/ (\E i \in 2..6 : ~Is(Field(i), "SEQUENCE")) THEN Absent
     ELSE IF ~spki.ok THEN Absent
     ELSE ParseSigAlgo(FoldLeft(ParseExtension, base, exts), alg)

-----------------------------------------------------------------------------
(* Signatures.                                                             *)

\* What a signature is made over: the scheme, the hash and the text.
Scheme(c) == IF c.sign_key_type \in RsaTypes
             THEN <<IF c.sig_is_pss THEN "PSS" ELSE "PKCS1", HashName(c.sig_hash_len)>>
             ELSE <<c.sign_key_type>>

\* The text of a certificate: as it was read, or encoded again.
SignedText(c) == IF c.tbs_raw # Absent THEN c.tbs_raw ELSE ToBeSigned(c)

\* verify_signature: RSA needs a modulus of one of the three sizes and a
\* signature at least as long.
verify_signature(c, issuer) ==
  LET k == Len(issuer.public_key) - 3
      s == c.signature[1]
      rsa == c.sign_key_type \in RsaTypes
  IN /\ c.signature # <<>>
     /\ rsa => k \in {2 * RSA_UNIT, 3 * RSA_UNIT, 4 * RSA_UNIT} /\ s.size >= k
     /\ s.scheme = Scheme(c) /\ s.text = SignedText(c) /\ s.public = issuer.public_key

\* build_and_sign: an RSA key without its modulus, and PSS with 4096 bits, give
\* the certificate back unsigned.  The signature is made over the text encoded
\* now; tbs_raw stays as it was.  A private key is named by its public key.
build_and_sign(cert, kt, priv, modulus) ==
  LET c   == [cert EXCEPT !.sign_key_type = kt, !.signature = <<>>]
      k   == rsa_mod_bytes(kt)
      mod == CASE modulus # Absent /\ Len(modulus) = k -> modulus
               [] OTHER -> IF Len(c.public_key) = k + 3 THEN SubSeq(c.public_key, 1, k) ELSE Absent
      rsa == kt \in RsaTypes
  IN IF rsa /\ (mod = Absent \/ (c.sig_is_pss /\ kt = "RSA_4096")) THEN c
     ELSE [c EXCEPT !.signature =
             <<[scheme |-> Scheme(c), text |-> ToBeSigned(c), size |-> IF rsa THEN k ELSE 0,
                public |-> IF rsa /\ mod # SubSeq(priv, 1, Len(priv) - 3) THEN <<>> ELSE priv]>>]

is_valid_at(c, now) == c.not_before <= now /\ now <= c.not_after

is_ca(c) == c.basic_constraints # Absent /\ c.basic_constraints.ca

\* Mutant: the last certificate only has to be a CA.
x509_verify_chain_NoRoot(chain, now) ==
  chain # <<>> /\ (\A i \in DOMAIN chain :
    is_valid_at(chain[i], now) /\ (IF i < Len(chain) THEN verify_signature(chain[i], chain[i + 1]) ELSE is_ca(chain[i])))

x509_verify_chain(chain, now) ==
  /\ chain # <<>>
  /\ \A i \in DOMAIN chain :
       /\ is_valid_at(chain[i], now)
       /\ IF i < Len(chain) THEN verify_signature(chain[i], chain[i + 1])
          ELSE is_ca(chain[i]) /\ verify_signature(chain[i], chain[i])

same_cert_identity(a, b) ==
  /\ a.serial_number = b.serial_number
  /\ a.public_key = b.public_key
  /\ encode_name(a.subject) = encode_name(b.subject)
  /\ encode_name(a.issuer) = encode_name(b.issuer)

\* With anchors the last certificate must be one of them; its own signature is
\* then not looked at.
x509_verify_chain_anchored(chain, anchors, now) ==
  /\ chain # <<>>
  /\ \A i \in DOMAIN chain :
       is_valid_at(chain[i], now) /\ (i < Len(chain) => verify_signature(chain[i], chain[i + 1]))
  /\ is_ca(Last(chain))
  /\ IF anchors = <<>> THEN verify_signature(Last(chain), Last(chain))
     ELSE \E i \in DOMAIN anchors : \/ to_der(anchors[i]) = to_der(Last(chain))
                                    \/ same_cert_identity(anchors[i], Last(chain))
=============================================================================
