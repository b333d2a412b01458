--------------------------------- MODULE Rsa ---------------------------------
(***************************************************************************)
(* RSA: the encodings of PKCS #1 (type 2 blocks, v1.5 signatures, PSS and  *)
(* OAEP), the decryption of a batch, the Montgomery kernels, the Chinese   *)
(* remainder and key generation.                                           *)
(*                                                                         *)
(* The encodings are over bytes as in CipherBlocks.  A hash is opaque: its *)
(* bytes have an atom for the top bit, which PSS clears, and one for the   *)
(* others.  The RSA permutation is opaque there too: a signature or a      *)
(* ciphertext is named by the block it is the power of, and by whether it  *)
(* is below the modulus.  The arithmetic below them is over numbers, with  *)
(* limbs of LIMB_BITS bits.                                                *)
(***************************************************************************)
EXTENDS CipherBlocks

CONSTANTS PS_MIN,      \* fewest bytes of padding in a v1.5 signature (8)
          PREFIX,      \* bytes of a DigestInfo prefix (19)
          LIMB_BITS,   \* bits of a limb (64)
          LIMBS,       \* limbs of a modulus (32, 48, 64)
          E_PUB,       \* the public exponent (65537)
          PRIME_BITS   \* bits of a prime, half of a modulus

ASSUME RsaAssumption == /\ {PS_MIN, PREFIX} \subseteq Nat
                        /\ {LIMB_BITS, LIMBS, E_PUB, PRIME_BITS} \subseteq Nat \ {0}

\* Bytes of the modulus of a tier, and of a hash: 1 is 16 bytes of the code.
ModBytes(tier) == CASE tier = "2048" -> 16 [] tier = "3072" -> 24 [] tier = "4096" -> 32

PssHashLen(h) == CASE h = "SHA256" -> 2 [] h = "SHA384" -> 3 [] h = "SHA512" -> 4

Hash(h, d) == [j \in 1..PssHashLen(h) |-> {<<"hi", <<h, d>>, j>>, <<"low", <<h, d>>, j>>}]

LowBits(b) == {a \in b : a[1] # "hi"}

One == Number(1)

\* m^d: by the CRT numbers; some callers compute it from d when these are missing.
PrivatePower(em, crt, fallback) == IF crt \/ fallback THEN em ELSE Message("garbage", Len(em))

-----------------------------------------------------------------------------
(* Blocks of type 2: encryption of a short message, alone or in a batch.   *)

\* Random padding has no zero byte: a zero becomes one.
enc_fn(k, pt, random) ==
  <<{}, Number(2)>> \o [i \in 1..k - Len(pt) - 3 |-> IF random[i] = {} THEN One ELSE random[i]]
                    \o <<{}>> \o pt

Separator(em) ==
  LET zeros == {i \in 3..Len(em) : em[i] = {}} IN IF zeros = {} THEN Len(em) + 1 ELSE Min(zeros)

dec_fn(em) ==
  IF em[1] # {} \/ em[2] # Number(2) \/ Separator(em) >= Len(em) THEN Refusal
  ELSE [ok |-> TRUE, out |-> SubSeq(em, Separator(em) + 1, Len(em))]

pkcs1_unpad(em) == IF Len(em) < 11 THEN Refusal ELSE dec_fn(em)

ThreadRange(count, tid) ==
  LET per == (count + 3) \div 4 IN tid * per + 1..Smaller(tid * per + per, count)

\* Without the CRT numbers four threads take a range of the records each.
rsa_batch_decrypt_dispatch(ems) ==
  [i \in DOMAIN ems |-> IF \E tid \in 0..3 : i \in ThreadRange(Len(ems), tid) THEN ems[i]
                        ELSE Message("old", Len(ems[i]))]

\* The blocks that hold a message are moved to the front, in place.
rsa_batch_decrypt(ems, crt) ==
  LET pts  == IF crt THEN ems ELSE rsa_batch_decrypt_dispatch(ems)
      step(s, i) == IF pkcs1_unpad(s.pts[i]).ok
                      THEN [pts |-> [s.pts EXCEPT ![s.success + 1] = s.pts[i]], success |-> s.success + 1]
                      ELSE s
  IN FoldLeft(step, [pts |-> pts, success |-> 0], Times(Len(ems)))

rsa4096_batch_decrypt(ems, crt) == rsa_batch_decrypt(ems, crt)

rsa3072_batch_decrypt(ems, crt) == rsa_batch_decrypt(ems, crt)

-----------------------------------------------------------------------------
(* RSASSA-PKCS1-v1_5.  The prefix of pl bytes names the hash.               *)

Prefix(h, pl) == Message(h, pl)

HashNamed(h, pl) == IF pl >= PREFIX THEN h ELSE "SHA256"

EmsaBlock(k, t) ==
  <<{}, One>> \o [i \in 1..k - Len(t) - 3 |-> Number(255)] \o <<{}>> \o t

\* RSA-2048 hashes with SHA-256 whatever the prefix says: what a longer digest
\* would have after it is not initialized.
rsassa_pkcs1v15_sign(c, m) ==
  LET k    == ModBytes("2048")
      hLen == PssHashLen(HashNamed(c.hash, c.pl))
      t    == Prefix(c.hash, c.pl) \o Hash("SHA256", m) \o Message("uninit", hLen - PssHashLen("SHA256"))
  IN IF k - Len(t) - 3 < PS_MIN THEN None
     ELSE PrivatePower(EmsaBlock(k, t), c.crt, FALSE)

rsassa_pkcs1v15_sign3072(c, m) ==
  LET k == ModBytes("3072")
      t == Prefix(c.hash, c.pl) \o Hash(HashNamed(c.hash, c.pl), m)
  IN IF Len(t) + 3 > k \/ k - Len(t) - 3 < PS_MIN THEN None
     ELSE PrivatePower(EmsaBlock(k, t), c.crt, TRUE)

\* The block holds the prefix and the digest behind its padding.
Decodes(em, prefix, digest) ==
  LET k    == Len(em)
      ones == {i \in 3..k : \A j \in 3..i : em[j] = Number(255)}
      pos  == Cardinality(ones) + 3
      at   == pos + Len(prefix)
  IN /\ em[1] = {} /\ em[2] = One
     /\ pos <= k /\ em[pos] = {}
     /\ Cardinality(ones) >= PS_MIN
     /\ k - pos >= Len(prefix) + Len(digest)
     /\ SubSeq(em, pos + 1, at) = prefix
     /\ SubSeq(em, at + 1, at + Len(digest)) = digest

\* s is not compared with the modulus.
rsassa_pkcs1v15_verify(c, m, s) == Decodes(s.em, Prefix(c.hash, c.pl), Hash("SHA256", m))

rsassa_pkcs1v15_verify3072(c, m, s) ==
  s.below /\ Decodes(s.em, Prefix(c.hash, c.pl), Hash(HashNamed(c.hash, c.pl), m))

-----------------------------------------------------------------------------
(* MGF1, RSASSA-PSS and RSAES-OAEP.                                         *)

\* Digests of the seed and a counter until the mask is full; the last is cut.
mgf1_impl(h, seed, n) ==
  LET rounds == (n + PssHashLen(h) - 1) \div PssHashLen(h)
  IN SubSeq(FlattenSeq([i \in 1..rounds |-> Hash(h, Append(seed, {<<"counter", i - 1>>}))]), 1, n)

SaltFits(h, sLen, emLen) ==
  /\ sLen # 0 /\ sLen <= PssHashLen("SHA512")
  /\ emLen >= PssHashLen(h) + sLen + 2

\* M': eight zeros, the digest of the message and the salt.
MPrime(mHash, salt) == Zeros(8) \o mHash \o salt

emsa_pss_encode(h, mHash, sLen, emLen, random) ==
  LET salt == Message("salt", sLen)
      H    == Hash(h, MPrime(mHash, salt))
      DB   == Zeros(emLen - sLen - PssHashLen(h) - 2) \o <<One>> \o salt
      masked == Xor(DB, mgf1_impl(h, H, Len(DB)))
  IN IF ~SaltFits(h, sLen, emLen) \/ ~random THEN None
     ELSE [masked EXCEPT ![1] = LowBits(@)] \o H \o <<Number(188)>>

emsa_pss_verify(h, mHash, sLen, EM) ==
  LET emLen == Len(EM)
      dbLen == emLen - PssHashLen(h) - 1
      psLen == emLen - sLen - PssHashLen(h) - 2
      H     == SubSeq(EM, dbLen + 1, dbLen + PssHashLen(h))
      DB    == [Xor(SubSeq(EM, 1, dbLen), mgf1_impl(h, H, dbLen)) EXCEPT ![1] = LowBits(@)]
  IN /\ SaltFits(h, sLen, emLen)
     /\ Last(EM) = Number(188)
     /\ EM[1] = LowBits(EM[1])
     /\ \A i \in 1..psLen : DB[i] = {}
     /\ DB[psLen + 1] = One
     /\ H = Hash(h, MPrime(mHash, SubSeq(DB, psLen + 2, dbLen)))

\* No length asks for a salt as long as the hash.
PssSalt(c) == IF c.salt = 0 THEN PssHashLen(c.hash) ELSE c.salt

PssSigned(c, m, fallback) ==
  LET em == emsa_pss_encode(c.hash, Hash(c.hash, m), PssSalt(c), ModBytes(c.tier), c.random)
  IN IF em = None THEN None ELSE PrivatePower(em, c.crt, fallback)

rsassa_pss_sign(c, m) == PssSigned(c, m, TRUE)

rsassa_pss_sign4096(c, m) == PssSigned(c, m, FALSE)

rsassa_pss_sign3072(c, m) == PssSigned(c, m, TRUE)

rsassa_pss_verify(c, m, s) == s.below /\ emsa_pss_verify(c.hash, Hash(c.hash, m), PssSalt(c), s.em)

rsassa_pss_verify4096(c, m, s) == rsassa_pss_verify(c, m, s)

rsassa_pss_verify3072(c, m, s) == rsassa_pss_verify(c, m, s)

\* SHA-256 throughout; k is the length of the modulus.
rsaes_oaep_encrypt3072(k, label, msg) ==
  LET hLen == PssHashLen("SHA256")
      DB   == Hash("SHA256", label) \o Zeros(k - Len(msg) - 2 * hLen - 2) \o <<One>> \o msg
      seed == Message("seed", hLen)
      maskedDB == Xor(DB, mgf1_impl("SHA256", seed, k - hLen - 1))
  IN IF Len(msg) > k - 2 * hLen - 2 THEN None
     ELSE <<{}>> \o Xor(seed, mgf1_impl("SHA256", maskedDB, hLen)) \o maskedDB

\* The first byte is not looked at.
OaepDecoded(EM, label) ==
  LET hLen == PssHashLen("SHA256")
      maskedDB == SubSeq(EM, hLen + 2, Len(EM))
      seed == Xor(SubSeq(EM, 2, hLen + 1), mgf1_impl("SHA256", maskedDB, hLen))
      DB   == Xor(maskedDB, mgf1_impl("SHA256", seed, Len(maskedDB)))
      rest == {i \in hLen + 1..Len(DB) : DB[i] # {}}
  IN IF SubSeq(DB, 1, hLen) # Hash("SHA256", label) \/ rest = {} THEN Refusal
     ELSE IF DB[Min(rest)] # One THEN Refusal
     ELSE [ok |-> TRUE, out |-> SubSeq(DB, Min(rest) + 1, Len(DB))]

\* A sender of the same encoding for RSA-2048.  The code's own is not modelled: it
\* fills 64 bytes of a seed of 32 (rsa_oaep.cpp:52), and what that overwrites
\* depends on the build.
PeerOaepBlock(k, label, msg) == rsaes_oaep_encrypt3072(k, label, msg)

\* 2^2048 is the only bound that RSA-2048 sets, and a ciphertext is below it.
rsaes_oaep_decrypt(label, ct, crt) == OaepDecoded(PrivatePower(ct.em, crt, FALSE), label)

rsaes_oaep_decrypt3072(label, ct, crt) ==
  IF ~ct.below THEN Refusal ELSE OaepDecoded(PrivatePower(ct.em, crt, FALSE), label)

-----------------------------------------------------------------------------
(* Montgomery multiplication, the limbs of a number from the lowest on.    *)

LIMB == 2^LIMB_BITS

Limbs(v) == [i \in 1..LIMBS |-> (v \div LIMB^(i - 1)) % LIMB]

Value(l) == FoldLeft(LAMBDA a, i : a + l[i] * LIMB^(i - 1), 0, Times(Len(l)))

\* One added from limb idx on.  There is a limb that takes the carry: past the
\* end of t the code would write outside its buffer, and Min has no value.
Ripple(t, idx) ==
  LET stop == Min({i \in idx..Len(t) : t[i] # LIMB - 1})
  IN SubSeq(t, 1, idx - 1) \o [i \in 1..stop - idx |-> 0] \o <<t[stop] + 1>> \o SubSeq(t, stop + 1, Len(t))

AddAt(t, idx, carry) ==
  LET s == t[idx] + carry
      u == [t EXCEPT ![idx] = s % LIMB]
  IN IF s >= LIMB THEN Ripple(u, idx + 1) ELSE u

\* t + x * v * LIMB^i.
AddRow(t, i, x, v) ==
  LET step(s, j) == LET p == x * v[j] + s.t[i + j] + s.carry
                    IN [t |-> [s.t EXCEPT ![i + j] = p % LIMB], carry |-> p \div LIMB]
      row == FoldLeft(step, [t |-> t, carry |-> 0], Times(LIMBS))
  IN AddAt(row.t, i + LIMBS + 1, row.carry)

\* r - m, each borrow found by a comparison that may itself overflow.
SubtractMod(r, m) ==
  LET step(s, i) == [r  |-> [s.r EXCEPT ![i] = (@ - m[i] - s.bo) % LIMB],
                     bo |-> IF s.r[i] < (m[i] + s.bo) % LIMB THEN 1 ELSE 0]
  IN FoldLeft(step, [r |-> r, bo |-> 0], Times(LIMBS)).r

\* Mutant: the word above the result is forgotten.
mont_mul_final_sub_NoTop(t, m) ==
  LET r == SubSeq(t, LIMBS + 1, 2 * LIMBS) IN IF Value(r) > Value(m) THEN SubtractMod(r, m) ELSE r

mont_mul_final_sub(t, m) ==
  LET r == SubSeq(t, LIMBS + 1, 2 * LIMBS)
      s == IF t[2 * LIMBS + 1] # 0 THEN SubtractMod(r, m) ELSE r
  IN IF Value(s) > Value(m) THEN SubtractMod(s, m) ELSE s

\* One lane: a row of the product and a row of the reduction, LIMBS times.
MontMul(x, y, m, mp) ==
  LET step(t, i) ==
        LET p == AddRow(t, i - 1, x[i], y) IN AddRow(p, i - 1, (p[i] * mp) % LIMB, m)
  IN mont_mul_final_sub(FoldLeft(step, Limbs(0) \o Limbs(0) \o <<0, 0>>, Times(Len(x))), m)

\* The lanes go in lockstep and share nothing but the modulus.
batch_mont_mul_scalar(a, b, m, mp) == [msg \in DOMAIN a |-> MontMul(a[msg], b[msg], m, mp)]

batch_mont_mul_avx2(a, b, m, mp) == batch_mont_mul_scalar(a, b, m, mp)

batch_mont_mul_avx512(a, b, m, mp) == batch_mont_mul_scalar(a, b, m, mp)

\* What mont_init makes of an odd modulus.
mont_init(m) ==
  LET R == LIMB^LIMBS
  IN [m |-> Limbs(m), R |-> Limbs(R % m), R2 |-> Limbs(((R % m) * (R % m)) % m),
      mp |-> CHOOSE x \in 0..LIMB - 1 : (m * x + 1) % LIMB = 0]

exp_bits(e) ==
  LET high == {i \in 1..LIMBS : e[i] # 0}
      t    == e[Max(high)]
      bits == Cardinality({b \in 0..LIMB_BITS - 1 : 2^b <= t})
  IN IF high = {} THEN 0 ELSE Max(high) * LIMB_BITS - (LIMB_BITS - bits)

ToMontgomery(base, c) == MontMul(base, c.R2, c.m, c.mp)

Squares(rm, c) == MontMul(rm, rm, c.m, c.mp)

Products(rm, bm, c) == MontMul(rm, bm, c.m, c.mp)

FromMontgomery(rm, c) == MontMul(rm, Limbs(1), c.m, c.mp)

\* Every lane has the same exponent.
batch_modpow_scalar(bases, e, c) ==
  LET n == exp_bits(e)
      lane(base) ==
        LET bm == ToMontgomery(base, c)
            step(rm, k) ==
              LET bit == n - k
                  on  == (e[bit \div LIMB_BITS + 1] \div 2^(bit % LIMB_BITS)) % 2 = 1
              IN IF on THEN Products(Squares(rm, c), bm, c) ELSE Squares(rm, c)
        IN FromMontgomery(FoldLeft(step, c.R, Times(n)), c)
  IN [msg \in DOMAIN bases |-> lane(bases[msg])]

batch_modpow_avx2(bases, e, c) == batch_modpow_scalar(bases, e, c)

batch_modpow_avx512(bases, e, c) == batch_modpow_scalar(bases, e, c)

-----------------------------------------------------------------------------
(* Keys.                                                                    *)

\* b^e modulo m, the exponent of at most 16 bits from its top bit on.
Power(b, e, m) ==
  LET f[i \in 0..16] ==
        IF i = 0 THEN 1 % m
        ELSE LET h == f[i - 1]
                 s == (h * h) % m
             IN IF (e \div 2^(16 - i)) % 2 = 1 THEN (s * (b % m)) % m ELSE s
  IN f[16]

RSAEP(pub, m) == Power(m, pub.e, pub.n)

RSAEP4096(pub, m) == RSAEP(pub, m)

RSAEP3072(pub, m) == RSAEP(pub, m)

RSADP(k, c) ==
  LET m1  == Power(c, k.dP, k.p)
      m2  == Power(c, k.dQ, k.q)
      m2p == IF m2 < k.p THEN m2 ELSE m2 % k.p
      h   == IF m1 < m2p THEN m1 + (k.p - m2p) ELSE m1 - m2p
  IN m2 + k.q * ((h * k.qInv) % k.p)

RSADP4096(k, c) == RSADP(k, c)

RSADP3072(k, c) == RSADP(k, c)

\* The inverse of a modulo m by Euclid's algorithm; 20 steps are enough for
\* the numbers of two primes of at most six bits.
bn_modinv(a, m) ==
  LET step(s, i) ==
        IF s.r1 = 0 THEN s
        ELSE LET x  == ((s.r0 \div s.r1) * s.s1) % m
                 s2 == IF s.s0 < x THEN m - (x - s.s0) ELSE s.s0 - x
             IN [r0 |-> s.r1, r1 |-> s.r0 % s.r1, s0 |-> s.s1, s1 |-> s2]
      r == FoldLeft(step, [r0 |-> m, r1 |-> a, s0 |-> 0, s1 |-> 1], Times(20)).s0
  IN IF r < m THEN r ELSE r - m

compute_crt_params(p, q, d) ==
  [dP |-> d % (p - 1), dQ |-> d % (q - 1), qInv |-> Power(q, p - 2, p)]

compute_crt_params4096(p, q, d) == compute_crt_params(p, q, d)

compute_crt_params3072(p, q, d) == compute_crt_params(p, q, d)

PrivateExponent(p, q) == bn_modinv(E_PUB, (p - 1) * (q - 1))

\* The key of two primes, with its CRT numbers.
KeyOf(p, q, crt) ==
  [n |-> p * q, e |-> E_PUB, d |-> PrivateExponent(p, q), p |-> p, q |-> q,
   dP |-> crt.dP, dQ |-> crt.dQ, qInv |-> crt.qInv]

\* The search ends with a prime or at its deadline; then RSA-2048 and RSA-4096
\* take one of the primes they bring along.
find_prime(tier, x) == IF x.found = None /\ tier # "3072" THEN x.table ELSE x.found

FullWidth(p, q) == p * q >= 2^(2 * PRIME_BITS - 1)

\* Where a search is: for p, for a q that differs from it, for both again.
Search == [p |-> 0, q |-> 0, at |-> "p", guard |-> 0]

Found(s, q) ==
  [s EXCEPT !.q = q, !.at = IF FullWidth(s.p, q) THEN "done" ELSE IF s.guard = 4 THEN "failed" ELSE "p again"]

\* A pair that is too narrow is replaced, by RSA-2048 and RSA-4096 without a
\* look at whether the primes differ.
KgenStep(s, x) ==
  CASE s.at = "p" -> [s EXCEPT !.p = x, !.at = "q"]
    [] s.at = "q" -> IF x = s.p THEN s ELSE Found(s, x)
    [] s.at = "p again" -> [s EXCEPT !.p = x, !.at = "q again"]
    [] s.at = "q again" -> Found(s, x)
    [] OTHER -> s

rsa_keygen_crt(outcomes) ==
  LET s == FoldLeft(LAMBDA a, x : KgenStep(a, find_prime("2048", x)), Search, outcomes)
  IN KeyOf(s.p, s.q, compute_crt_params(s.p, s.q, PrivateExponent(s.p, s.q)))

rsa4096_keygen_crt(outcomes) ==
  LET s == FoldLeft(LAMBDA a, x : KgenStep(a, find_prime("4096", x)), Search, outcomes)
  IN KeyOf(s.p, s.q, compute_crt_params4096(s.p, s.q, PrivateExponent(s.p, s.q)))

\* RSA-3072 gives up at the first deadline and looks for another pair four times.
rsa3072_kgen_once(outcomes) ==
  LET step(s, x) ==
        IF s.at \in {"done", "failed"} THEN s
        ELSE IF x = None THEN [s EXCEPT !.at = "failed"]
        ELSE IF s.at = "p again" THEN [s EXCEPT !.p = x, !.at = "q", !.guard = @ + 1]
        ELSE KgenStep(s, x)
  IN FoldLeft(LAMBDA a, x : step(a, find_prime("3072", x)), Search, outcomes)

\* Three attempts.
keygen_with_watchdog(attempts) ==
  LET ends == [i \in 1..3 |-> rsa3072_kgen_once(attempts[i])]
      good == {i \in 1..3 : ends[i].at = "done"}
  IN IF good = {} THEN None ELSE ends[Min(good)]

rsa3072_keygen_crt(attempts) ==
  LET s == keygen_with_watchdog(attempts)
  IN IF s = None THEN None
     ELSE KeyOf(s.p, s.q, compute_crt_params3072(s.p, s.q, PrivateExponent(s.p, s.q)))
=============================================================================
