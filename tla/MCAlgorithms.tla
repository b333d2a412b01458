---------------------------- MODULE MCAlgorithms -----------------------------
EXTENDS Algorithms

\* One CPU per level of the dispatchers, and one with nothing.
Cpus == {{}, {"pclmulqdq", "aesni"}, {"avx2", "pclmulqdq", "aesni"},
         {"avx2", "pclmulqdq", "aesni", "gfni", "vpclmulqdq_vaes"},
         {"avx2", "avx512", "pclmulqdq", "aesni", "gfni", "vpclmulqdq_vaes"},
         {"neon", "arm_aes", "arm_pmull"}}

\* Around one block, one group of four or eight, two groups, a chunk and two.
Lengths == {0, 1, 3, 11, 12, 13, 24, 25, 48, 50, 64, 97}

Base ==
  [mode |-> "gcm", alg |-> "aes", op |-> "encrypt", feats |-> {}, raced |-> FALSE,
   ivlen |-> IVLEN, lo |-> 1, aadlen |-> 4, len |-> 25, inplace |-> FALSE, taglen |-> 16,
   fast |-> TRUE, tamper |-> None]

Algs == {<<"gcm", "aes">>, <<"gcm", "sm4">>, <<"ccm", "aes">>, <<"ccm", "sm4">>,
         <<"chacha", "chacha">>}

Of(a, f, o) == [Base EXCEPT !.mode = a[1], !.alg = a[2], !.feats = f, !.op = o]

AllAeadCalls ==
  {c \in
     {[Of(a, f, o) EXCEPT !.len = n, !.inplace = i] :
        a \in Algs, f \in Cpus, o \in {"encrypt", "decrypt"}, n \in Lengths, i \in BOOLEAN}
   \cup
     {[Of(a, f, o) EXCEPT !.aadlen = n, !.raced = r] :
        a \in Algs, f \in Cpus, o \in {"encrypt", "decrypt"}, n \in {0, 2, 3, 12, 26}, r \in BOOLEAN}
   \cup
     {[Of(a, f, "decrypt") EXCEPT !.tamper = t, !.len = n, !.inplace = i] :
        a \in Algs, f \in Cpus, t \in {"tag", "text", "aad"}, n \in {1, 25}, i \in BOOLEAN}
   \cup
     {[Of(a, f, o) EXCEPT !.ivlen = v, !.lo = l, !.len = 50] :
        a \in {<<"gcm", "aes">>, <<"gcm", "sm4">>}, f \in Cpus, o \in {"encrypt", "decrypt"},
        v \in {IVLEN + 1, BLK, BLK + 1}, l \in {CTR - 4, CTR - 1, 7}}
   \cup
     {[Of(<<"ccm", "aes">>, f, o) EXCEPT !.fast = q, !.taglen = t, !.len = n] :
        f \in Cpus, o \in {"encrypt", "decrypt"}, q \in BOOLEAN, t \in {4, 16}, n \in {13, 25, 63}}
   \cup
     {[Base EXCEPT !.mode = m, !.aadlen = a, !.len = n] :
        m \in {"ghash", "poly1305"}, a \in {0, 1, 3, 7}, n \in {0, 1, 3, 8, 12, 14, 25}} :
   \* SM4 counts differently once the low word wraps, and SM4-CCM has no limit
   \* on the text: see the README.
   /\ c.alg = "sm4" /\ c.ivlen # IVLEN => c.lo + c.len < CTR
   /\ c.alg = "sm4" /\ c.mode = "ccm" => c.len < CTR}

Bytes0 == 0..BLK + 1

AllPaddedCalls ==
  {[mode |-> m, op |-> "decrypt", text |-> t] :
     m \in {"aes_cbc", "sm4_cbc", "aes_ecb"},
     t \in {<<>>} \cup [1..BLK -> Bytes0] \cup {<<9, 9, 9>> \o s : s \in [1..BLK -> {1, 2, 3}]}}
  \cup
  {[mode |-> m, op |-> "encrypt", text |-> [i \in 1..n |-> i]] :
     m \in {"aes_cbc", "sm4_cbc", "aes_ecb"}, n \in 0..2 * BLK + 1}

-----------------------------------------------------------------------------
(* RSA: every way a block may change, every way threads and lanes divide.   *)

Tiers == {"2048", "3072", "4096"}

HashNames == {"SHA256", "SHA384", "SHA512"}

RsaBase == [mode |-> "rsa", tier |-> "2048", text |-> "any", len |-> 2, hash |-> "SHA256", pl |-> PREFIX, salt |-> 0,
            crt |-> TRUE, random |-> TRUE, change |-> <<None>>]

\* Padding of random bytes, some of them zero.
RandomBytes == {[i \in 1..32 |-> IF i \in z THEN {} ELSE {<<"r", i>>}] : z \in {{}, {1}, {2, 3}, 1..32}}

RsaBlocks ==
  {[RsaBase EXCEPT !.tier = t, !.text = x, !.len = n, !.random = r, !.change = d] :
     t \in Tiers, x \in {"any", "zeros", "ones"}, n \in {0, 1, 2, 3, 12, 13}, r \in RandomBytes,
     d \in {<<None>>, <<"low", 1>>, <<"low", 2>>}}

Batches ==
  {[mode |-> "rsa_batch", tier |-> t, crt |-> c, blocks |-> b] :
     t \in Tiers, c \in BOOLEAN, b \in UNION {[1..n -> {"a", "b", "type"}] : n \in 0..4}
                                         \cup {<<"empty", "a">>, <<"endless", "a", "b">>}
                                         \cup {[i \in 1..n |-> IF i % 3 = 0 THEN "type" ELSE "a"] : n \in 5..13}}

ByteChanges(n) == {<<b, i>> : b \in {"low", "hi"}, i \in 1..n}

V15Calls ==
  {[RsaBase EXCEPT !.mode = "rsa_v15", !.tier = t, !.hash = h, !.pl = p, !.crt = c, !.change = d] :
     t \in {"2048", "3072"}, h \in HashNames, p \in 1..8, c \in BOOLEAN,
     d \in {<<None>>, <<"message">>, <<"hash", "SHA256">>, <<"hash", "SHA384">>, <<"hash", "SHA512">>, <<"above">>}}
  \cup
  {[RsaBase EXCEPT !.mode = "rsa_v15", !.tier = t, !.hash = h, !.pl = p, !.change = d] :
     t \in {"2048", "3072"}, h \in HashNames, p \in {2, PREFIX}, d \in ByteChanges(24)}

\* RSA-2048 hashes with SHA-256 and does not compare a number with the modulus.
V15Meant(c) ==
  /\ c.change[1] = "hash" => c.change[2] # c.hash
  /\ c.change[1] \in {"low", "hi"} => c.change[2] <= ModBytes(c.tier)
  /\ c.tier = "2048" => /\ c.change[1] # "above"
                        /\ c.change[1] \in {"low", "hi"} => c.hash = "SHA256" \/ c.pl < PREFIX
                        /\ c.pl + PssHashLen(c.hash) + 3 <= ModBytes(c.tier)

PssCalls ==
  {[RsaBase EXCEPT !.mode = "rsa_pss", !.tier = t, !.hash = h, !.salt = s, !.crt = c, !.random = r, !.change = d] :
     t \in Tiers, h \in HashNames, s \in 0..5, c \in BOOLEAN, r \in BOOLEAN,
     d \in {<<None>>, <<"message">>, <<"hash", "SHA256">>, <<"hash", "SHA512">>, <<"above">>, <<"salt", 1>>, <<"salt", 4>>}}
  \cup
  {[RsaBase EXCEPT !.mode = "rsa_pss", !.tier = t, !.hash = h, !.salt = s, !.change = d] :
     t \in {"2048", "4096"}, h \in HashNames, s \in {0, 1}, d \in ByteChanges(32)}

PssMeant(c) ==
  /\ c.change[1] = "hash" => c.change[2] # c.hash
  /\ c.change[1] = "salt" => c.change[2] # PssSalt(c)
  /\ c.change[1] \in {"low", "hi"} => c.change[2] <= ModBytes(c.tier)

\* The first byte of an OAEP block is not looked at; RSA-2048 does not compare
\* with the modulus; both need the CRT numbers.
OaepCalls ==
  {[RsaBase EXCEPT !.mode = "rsa_oaep", !.tier = t, !.text = x, !.len = n, !.change = d] :
     t \in {"2048", "3072"}, x \in {"any", "zeros", "ones"}, n \in (0..2) \cup (9..11) \cup (17..19),
     d \in {<<None>>, <<"message">>, <<"above">>} \cup ByteChanges(24)}

OaepMeant(c) ==
  /\ c.change[1] = "above" => c.tier = "3072"
  /\ c.change[1] \in {"low", "hi"} => c.change[2] \in 2..ModBytes(c.tier)

\* Moduli with a top bit, and limbs at their limits.
Moduli == {33, 35, 37, 39, 41, 43, 49, 51, 53, 55, 57, 59}

PowerCalls ==
  {[mode |-> "rsa_modpow", alg |-> "scalar", m |-> m, bases |-> <<b>>, e |-> e] :
     m \in Moduli, b \in 0..63, e \in {0, 1, 3, 22, 63}}
  \cup
  {[mode |-> "rsa_modpow", alg |-> a, m |-> m, bases |-> [i \in 1..4 |-> (b * i) % m], e |-> 11] :
     a \in {"avx2", "avx512", "mul avx2", "mul avx512"}, m \in Moduli, b \in {1, 7, 20, 31, 32}}

\* A search that finds one of the primes, or meets its deadline.
Primes == {53, 59, 61}

Outcomes == [found : Primes \cup {None}, table : {53, 61}]

SearchesOf(finds) == {[i \in 1..3 |-> [found |-> f[i], table |-> 53]] : f \in finds}

\* Three searches that lead to a pair or meet a deadline.
Enough == {f \in [1..3 -> {53, 61, None}] : None \in {f[i] : i \in 1..3} \/ f[2] # f[1] \/ f[3] # f[1]}

KeygenCalls ==
  {[mode |-> "rsa_keygen", tier |-> t, attempts |-> <<o>>] :
     t \in {"2048", "4096"}, o \in {s \in [1..3 -> Outcomes] : \E i \in 2..3 : find_prime("2048", s[i]) # find_prime("2048", s[1])}}
  \cup
  {[mode |-> "rsa_keygen", tier |-> "3072", attempts |-> <<a, b, c>>] :
     a \in SearchesOf(Enough),
     b \in SearchesOf({<<None, 53, 61>>, <<53, None, 61>>, <<59, 61, None>>, <<59, 59, 61>>}),
     c \in SearchesOf({<<None, 53, 61>>, <<53, None, 61>>, <<59, 53, None>>, <<59, 59, 53>>})}

EveryRsaCall ==
  RsaBlocks \cup Batches \cup {c \in V15Calls : V15Meant(c)} \cup {c \in PssCalls : PssMeant(c)}
  \cup {c \in OaepCalls : OaepMeant(c)} \cup PowerCalls \cup KeygenCalls

HashCpus == {{}, {"avx2", "sha_ni"}, {"avx2", "avx512", "sha_ni"},
             {"arm_sha1", "arm_sha2", "arm_sha512", "arm_sha3", "arm_sm3"}}

HashBase == [mode |-> "stream", alg |-> "sha256", feats |-> {}, pieces |-> <<>>, n |-> 1,
             salt |-> 0, squeezes |-> <<>>]

\* One, two and three pieces, around one block and two.
Cuts(most) ==
  {<<n>> : n \in 0..most} \cup ((0..most) \X (0..most))
    \cup {<<1, n, 2>> : n \in 0..most} \cup {<<most, 0, n>> : n \in 0..most}

AllHashCalls ==
  {[HashBase EXCEPT !.alg = a, !.feats = f, !.pieces = p] :
     a \in {"sha1", "sha256", "sha512", "sm3"}, f \in HashCpus, p \in Cuts(2 * HB + 1)}
  \cup
  {[HashBase EXCEPT !.mode = "sha_ni", !.pieces = <<n>>] : n \in 0..3 * HB}
  \cup
  {[HashBase EXCEPT !.mode = "batch", !.alg = "sha1", !.feats = f, !.pieces = <<n>>, !.n = k] :
     f \in HashCpus, n \in 0..2 * HB + 1, k \in 0..2 * LANES5 + LANES2 + 1}
  \cup
  {[HashBase EXCEPT !.mode = "sha3", !.feats = f, !.pieces = p] :
     f \in HashCpus, p \in Cuts(2 * RATE + 1)}
  \cup
  {[HashBase EXCEPT !.mode = "shake", !.feats = f, !.pieces = p, !.squeezes = q] :
     f \in HashCpus, p \in Cuts(RATE + 1),
     q \in {<<n>> : n \in 1..2 * RATE + 1} \cup {<<1, n>> : n \in 1..2 * RATE} \cup {<<RATE, 1, RATE>>}}
  \cup
  {[HashBase EXCEPT !.mode = "hmac", !.alg = a, !.feats = f, !.n = k, !.pieces = <<m>>] :
     a \in {"sha256", "sha512", "sm3"}, f \in HashCpus, k \in {0, 1, HB - 1, HB, HB + 1, 2 * HB + 1},
     m \in {0, 1, HB}}
  \cup
  {[HashBase EXCEPT !.mode = "hkdf", !.alg = a, !.feats = f, !.n = k, !.salt = t, !.pieces = <<1>>] :
     a \in {"sha256", "sha512", "sm3"}, f \in HashCpus, k \in 1..DIG * (COUNT - 1), t \in {0, 1}}

-----------------------------------------------------------------------------
\* Around the groups of 24, 48 bytes and 32, 64 characters.
B64Cpus == {{}, {"avx2"}, {"avx2", "avx512", "avx512bw"}}

SomeBytes(n, k) == [i \in 1..n |-> (i * k + 11) % 256]

TextOfA(n) == [i \in 1..n |-> 65]

\* Numbers around the limits of each length.
VarintLimits == UNION {{n - 1, n} : n \in {1, QUARTER, QUARTER * BYTE, QUARTER * BYTE^3}} \cup {VarintLimit - 1}

\* A parameter at a time, then some together.
SomeParameters ==
  {[Parameters EXCEPT !.n[i] = v] : i \in DOMAIN NumberFields,
                                     v \in {0, 1, 2, 3, 20, 21, 25, 1199, 1200, 16383, 16384, 65527, MaxStreams - 1, MaxStreams}}
  \cup {[Parameters EXCEPT !.b[i] = SomeBytes(16, 3), !.disable_active_migration = d] :
           i \in DOMAIN ByteFields, d \in BOOLEAN}
  \cup {[Parameters EXCEPT !.custom = c, !.n[1] = 7] :
           c \in {<<>>, <<<<17, <<>>>>>>, <<<<17, <<1, 2>>>>, <<40, SomeBytes(70, 1)>>>>}}

Halves == {[i \in 1..n |-> IF i <= z THEN 0 ELSE b] : n \in {32}, z \in {0, 1, 31, 32}, b \in {1, 127, 128, 255}}

LongHalves == {[i \in 1..n |-> IF i <= z THEN 0 ELSE b] : n \in {66}, z \in {0, 1, 65}, b \in {1, 128}}

\* A DER signature as long as the two fields is taken for them: see the README.
Signatures(halves, f) ==
  {[mode |-> "signature", data |-> r \o s, field |-> f] :
     r \in halves, s \in halves}

AllCodecCalls ==
  {[mode |-> "b64", feats |-> f, data |-> SomeBytes(n, k)] :
     f \in B64Cpus, n \in (0..5) \cup (23..29) \cup (47..53) \cup {76, 96, 100}, k \in {1, 37}}
  \cup
  {[mode |-> "b64text", feats |-> f, data |-> [TextOfA(n) EXCEPT ![i] = ch]] :
     f \in B64Cpus, n \in {36, 72}, i \in {1, 4, 32, 33, 35, 36}, ch \in 0..255}
  \cup
  {[mode |-> "b64text", feats |-> f, data |-> TextOfA(n)] : f \in B64Cpus, n \in {33, 34, 69, 70}}
  \cup
  {[mode |-> "varint", v |-> v, rest |-> r] : v \in VarintLimits, r \in {<<>>, <<3>>}}
  \cup
  {[mode |-> "parameters", p |-> p] : p \in SomeParameters}
  \cup
  {[mode |-> "tlv", data |-> SomeBytes(n, 1)] : n \in {0, 1, 127, 128, 255, 256, 300}}
  \cup
  {[mode |-> "integer", data |-> d] :
     d \in {<<0>>, <<127>>, <<128>>, <<0, 0>>, <<0, 127>>, <<0, 128>>, <<0, 0, 1>>, <<255, 0>>, <<1, 0, 1>>}}
  \cup
  {[mode |-> "oid", data |-> <<42>> \o c \o d] :
     c \in {<<>>, <<1>>, <<129, 0>>, <<134, 247, 13>>}, d \in {<<>>, <<127>>, <<206, 61>>}}
  \cup
  {c \in Signatures(Halves, 32) \cup Signatures(LongHalves, 66) :
     Len(ecdsa_raw_sig_to_der(c.data, c.field)) # 2 * c.field}

-----------------------------------------------------------------------------
KeyTypes == RsaTypes \cup EcTypes \cup {"Ed25519", "Ed448"}

Named(n) == <<[oid |-> "CN", value |-> n], [oid |-> "O", value |-> "org"]>>

CaFields == [x509_cert EXCEPT !.serial_number = <<1>>, !.issuer = Named("root"), !.subject = Named("root"),
                              !.not_before = 40, !.not_after = 79, !.basic_constraints = [ca |-> TRUE, path_len |-> -1]]

Issue == [mode |-> "issue", fields |-> CaFields, id |-> 1, by |-> 1, kt |-> "Ed25519", modulus |-> FALSE]

\* Every pair of key types, hash and scheme; then the other fields.
Issues ==
  {[Issue EXCEPT !.fields = [@ EXCEPT !.key_type = k, !.sig_hash_len = h, !.sig_is_pss = p],
                 !.kt = s, !.by = b, !.modulus = m] :
     k \in KeyTypes, s \in KeyTypes, h \in {32, 48, 64}, p \in BOOLEAN, b \in {1, 2}, m \in BOOLEAN}

Fields ==
  {[Issue EXCEPT !.fields = [@ EXCEPT !.version = v, !.serial_number = n, !.key_usage = u, !.ext_key_usage = e,
                                      !.subject_alt_name = a, !.basic_constraints = b]] :
     v \in 0..2, n \in {<<5>>, <<200, 1>>, <<0, 5>>}, u \in {Absent, 0, 32768, 1024, 1536, 128, 34816},
     e \in {<<>>, <<"SERVER_AUTH">>}, a \in {Absent, <<>>, <<"a", "b">>},
     b \in {Absent, [ca |-> FALSE, path_len |-> -1], [ca |-> TRUE, path_len |-> -1],
             [ca |-> TRUE, path_len |-> 0], [ca |-> TRUE, path_len |-> 127]}}
  \cup
  {[Issue EXCEPT !.fields = [@ EXCEPT !.not_before = a, !.not_after = b]] : a \in {0, 29, 30, 79}, b \in {0, 30, 79}}

\* The key and the flags that RSA leaves for others to choose stay small.
IssueCalls == {c \in Issues : c.kt \notin RsaTypes => ~c.fields.sig_is_pss /\ c.fields.sig_hash_len = 32 /\ ~c.modulus}
              \cup Fields

\* Certificates for chains: who has which key, who signed, until when, and whether it is a CA.
Links ==
  {[Issue EXCEPT !.fields = [@ EXCEPT !.key_type = k, !.not_after = t, !.basic_constraints = [ca |-> a, path_len |-> -1],
                                      !.serial_number = <<i>>],
                 !.id = i, !.by = b, !.kt = s, !.modulus = TRUE] :
     k \in {"ECDSA_P256", "RSA_3072"}, s \in {"ECDSA_P256", "RSA_3072"}, t \in {50, 79}, a \in BOOLEAN,
     i \in {1, 2}, b \in {1, 2}}

ChainCalls ==
  {[mode |-> "chain", chain |-> c, now |-> 56] : c \in {<<>>} \cup {<<a>> : a \in Links} \cup (Links \X Links)}
  \cup
  {[mode |-> "chain", chain |-> <<a>>, now |-> n] : a \in Links, n \in {39, 40, 50, 51}}

AnchorCalls ==
  {[mode |-> "anchored", chain |-> <<a, b>>, anchors |-> s, now |-> 56] :
     a \in {l \in Links : l.fields.not_after = 79 /\ l.fields.key_type = "ECDSA_P256"}, b \in Links,
     s \in {<<>>} \cup {<<l>> : l \in {m \in Links : m.kt = "RSA_3072" /\ m.fields.not_after = 79}}}

\* An anchor is told by its serial number, names and key, not by what else it says.
SameAnchor(c) == \A i \in DOMAIN c.anchors :
  LET a == c.anchors[i] b == Last(c.chain)
  IN a # b => <<a.id, a.fields.key_type>> # <<b.id, b.fields.key_type>>

Key == [mode |-> "key", kt |-> "RSA_2048", form |-> "pkcs8", label |-> "PRIVATE KEY", d |-> <<200, 1>>, crt |-> <<>>,
        named |-> TRUE, point |-> TRUE, password |-> Absent, iterations |-> 1, cipher |-> "AES128_CBC"]

Passwords == {Absent, "right", "wrong"}

KeyCalls ==
  {[Key EXCEPT !.kt = k, !.form = f, !.d = d, !.crt = c, !.password = w] :
     k \in RsaTypes, f \in {"pkcs8", "pkcs1"}, d \in {<<1>>, <<200, 1>>, <<127, 0, 0>>},
     c \in {<<>>, <<<<200>>, <<3, 3>>, <<1>>, <<128, 1>>, <<5>>>>}, w \in Passwords}
  \cup
  {[Key EXCEPT !.kt = k, !.form = f, !.d = d, !.point = p, !.named = n, !.label = l] :
     k \in EcTypes, f \in {"pkcs8", "sec1"}, d \in {<<4, 4>>, <<0, 9>>}, p \in BOOLEAN, n \in BOOLEAN,
     l \in {"PRIVATE KEY", "EC PRIVATE KEY"}}
  \cup
  {[Key EXCEPT !.kt = k, !.d = SomeBytes(SeedSize(k), z), !.named = n, !.password = w, !.iterations = i, !.cipher = c] :
     k \in {"Ed25519", "Ed448"}, z \in {0, 3}, n \in BOOLEAN, w \in Passwords, i \in {1, 3},
     c \in {"AES128_CBC", "AES256_CBC"}}

AllCertCalls ==
  IssueCalls \cup ChainCalls \cup {c \in AnchorCalls : SameAnchor(c)}
  \cup {[c EXCEPT !.mode = "request"] : c \in {i \in Issues : i.by = 1 /\ i.kt = i.fields.key_type}}
  \* SEC 1 without the curve says nothing about it: the code takes P-256.
  \cup {k \in KeyCalls : k.form = "sec1" /\ ~k.named => k.kt = "ECDSA_P256"}

-----------------------------------------------------------------------------
\* The formats of a log: short and long texts, lengths around a byte's limit.
SomeOctets(n) == [i \in 1..n |-> (i * 5) % OCTET]

Sct == [version |-> 0, log_id |-> 9, timestamp |-> 300, extensions |-> <<>>, hash_algorithm |-> 4,
        signature_algorithm |-> 3, signature |-> <<7>>]

SomeScts == {[Sct EXCEPT !.timestamp = t, !.extensions = e, !.signature = s] :
               t \in {0, OCTET - 1, OCTET, OCTET^3 + 5}, e \in {<<>>, <<3>>, SomeOctets(OCTET + 1)},
               s \in {<<>>, <<0>>, SomeOctets(OCTET), SomeOctets(2 * OCTET - 1)}}

SctLists == {<<>>, <<Sct>>, <<Sct, [Sct EXCEPT !.log_id = 8, !.extensions = <<1, 2>>]>>}

\* A certificate as its bytes, with a length of one, two and three bytes.
TlvOf(n) ==
  LET len == IF n < OCTET \div 2 THEN <<n>> ELSE IF n < OCTET THEN <<OCTET \div 2 + 1, n>>
             ELSE IF n < OCTET^2 THEN <<OCTET \div 2 + 2>> \o U(2, n) ELSE <<OCTET \div 2 + 3>> \o U(3, n)
  IN <<3>> \o len \o SomeOctets(n)

TlvSizes == {0, 1, OCTET \div 2 - 1, OCTET \div 2, OCTET - 1, OCTET, OCTET^2 - 1, OCTET^2}

SomePrecerts == {[issuer_key_hash |-> 77, tbs_certificate |-> TlvOf(n)] : n \in TlvSizes}

SomeLeaves ==
  {[version |-> 0, leaf_type |-> 0, timestamp |-> t, entry_type |-> X509_ENTRY, signed_entry |-> TlvOf(n), extensions |-> e] :
     t \in {0, OCTET^2}, n \in TlvSizes, e \in {<<>>, <<1>>, SomeOctets(OCTET)}}
  \cup
  {[version |-> 0, leaf_type |-> 0, timestamp |-> t, entry_type |-> PRECERT_ENTRY,
    signed_entry |-> serialize_precert(pc), extensions |-> e] :
     t \in {0, OCTET^2}, pc \in SomePrecerts, e \in {<<>>, <<1>>, SomeOctets(OCTET)}}

LogCodecCalls ==
  {[mode |-> "sct", v |-> v] : v \in SomeScts} \cup {[mode |-> "precert", v |-> v] : v \in SomePrecerts}
  \cup {[mode |-> "leaf", v |-> v] : v \in SomeLeaves} \cup {[mode |-> "scts", v |-> v] : v \in SctLists}

\* Precertificates: the poison alone, behind other extensions, and beside an old list.
Poison == [oid |-> "CT_POISON", critical |-> TRUE, extn_value |-> <<Null>>]

OldList == [oid |-> "SCT_LIST", critical |-> FALSE, extn_value |-> encode_sct_list_extn(<<Sct>>)]

Precert == [mode |-> "final", fields |-> [CaFields EXCEPT !.raw_extensions = <<Poison>>], id |-> 1, by |-> 2,
            kt |-> "Ed25519", modulus |-> FALSE, parsed |-> FALSE, scts |-> <<>>]

\* A key usage changes its place among other extensions when a certificate that
\* was read is encoded: see the README.
FinalCalls ==
  {[Precert EXCEPT !.fields = [@ EXCEPT !.raw_extensions = r, !.basic_constraints = b, !.subject_alt_name = a,
                                        !.key_usage = IF p \/ a # Absent THEN Absent ELSE 32768],
                   !.kt = k, !.parsed = p, !.scts = s] :
     k \in {"Ed25519", "ECDSA_P256", "SM2", "ECDSA_P384"}, p \in BOOLEAN, s \in SctLists,
     r \in {<<Poison>>, <<Poison, OldList>>, <<OldList, Poison>>},
     b \in {Absent, [ca |-> FALSE, path_len |-> -1]}, a \in {Absent, <<"a">>}}

\* Trees of every shape up to two levels behind a complete one.
AllTreeCalls == {[mode |-> "tree", alg |-> a, size |-> n, index |-> i] : a \in {"SM3", "SHA256"}, n \in 0..9, i \in 0..10}

\* A log of each kind of key.
ThreeLogs == {[hash |-> "SM3", sig |-> "SM2", pub |-> <<4, 5>>], [hash |-> "SHA256", sig |-> "ECDSA_P256", pub |-> <<4, 5>>],
              [hash |-> "SHA256", sig |-> "RSA", pub |-> PublicKey("RSA_2048", 1)]}

\* The root, a server it signs, and one that somebody else signed; a certificate expires between the clock readings.
DerOf(c) == to_der(Issued(c))

Anchor == [Issue EXCEPT !.id = 1, !.by = 1]

Server == [Issue EXCEPT !.fields = [@ EXCEPT !.subject = Named("a"), !.basic_constraints = Absent], !.id = 2, !.by = 1]

Expiring == [Server EXCEPT !.fields = [@ EXCEPT !.not_after = 55]]

Forged == [Server EXCEPT !.by = 3]

Poisoned(c) == [c EXCEPT !.fields = [@ EXCEPT !.raw_extensions = <<Poison>>]]

TheRoot == {DerOf(Anchor)}

SomeChains ==
  {<<>>, <<DerOf(Anchor)>>, <<DerOf(Server), DerOf(Anchor)>>, <<DerOf(Expiring), DerOf(Anchor)>>,
   <<DerOf(Forged), DerOf(Anchor)>>, <<DerOf(Server)>>, <<DerOf(Poisoned(Server)), DerOf(Anchor)>>, <<DerOf(Poisoned(Anchor))>>}

Readings == {550, 560}

\* Every pair of certificate and key types, with and without the CRT numbers and a name.
LoadCalls ==
  {[mode |-> "load", csr |-> r,
    cert |-> [Issue EXCEPT !.fields = [@ EXCEPT !.key_type = k, !.subject = n, !.subject_alt_name = <<"a">>, !.key_usage = 32768]],
    key |-> [Key EXCEPT !.kt = t, !.crt = c, !.d = IF t \in {"Ed25519", "Ed448"} THEN SomeBytes(SeedSize(t), 3) ELSE <<200, 1>>]] :
     r \in BOOLEAN, k \in KeyTypes, t \in KeyTypes, c \in {<<>>, <<<<200>>, <<3, 3>>, <<1>>, <<128, 1>>, <<5>>>>},
     n \in {<<>>, Named("root"), Tail(Named("root"))}}

PemBlock(l, d) == [label |-> l, der |-> d]

PemFiles ==
  {<<>>, <<PemBlock("CERTIFICATE", Null)>>, <<PemBlock("PRIVATE KEY", DerOf(Anchor))>>,
   <<PemBlock("CERTIFICATE", Null), PemBlock("CERTIFICATE", DerOf(Anchor)), PemBlock("CERTIFICATE", DerOf(Server))>>,
   <<PemBlock("CERTIFICATE", DerOf(Server))>>}

StoreCalls == {[mode |-> "store", env |-> e, files |-> <<f, g>>] : e \in {Absent} \cup PemFiles, f \in PemFiles, g \in PemFiles}

EveryCodecCall == AllCodecCalls \cup LogCodecCalls

EveryCertCall == AllCertCalls \cup FinalCalls \cup LoadCalls \cup StoreCalls

\* SHA-3 only.
Sha3Calls == {c \in AllHashCalls : c.mode = "sha3"}

NoCalls == {}
=============================================================================
