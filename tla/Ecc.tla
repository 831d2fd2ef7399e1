-------------------------------- MODULE Ecc --------------------------------
(***************************************************************************)
(* The elliptic-curve arithmetic of the HSM's keys over the field and the  *)
(* points of EccField and EccPoints: crypto/uECC.c and the part of curve-  *)
(* specific.inc that secp256r1 uses, on a curve of the same form with      *)
(* small words.  A point is <<x, y>>; <<0, 0>> stands for infinity, as     *)
(* EccPoint_isZero has it.                                                 *)
(***************************************************************************)
EXTENDS EccPoints, Integers, Sequences, FiniteSets

CONSTANTS
    LimbBits,   \* bits of a word: 32 in the firmware
    CurveN,     \* the order of the generator, as wide as the prime
    CurveB,     \* y^2 = x^3 - 3x + CurveB
    GeneratorX, GeneratorY,
    SomeKeys,   \* bounds: private keys, hashes and random Z that are combined
    SomeHashes, SomeZ,
    NonceStep,  \* bound: every NonceStep-th nonce is signed with
    MaxTries,   \* uECC_RNG_MAX_TRIES (64)
    SomeDraws   \* bound: what the random number generator is taken to give

Width == 8 * LimbBits
G == <<GeneratorX, GeneratorY>>

ASSUME CurveAssumption ==
    /\ LimbBits > 0 /\ WordSize = 2^LimbBits /\ CurveP % 4 = 3
    /\ CurveN \in 2^(Width - 1)..(CurveP - 1)
    /\ SomeKeys \subseteq 1..(CurveN - 1)
    /\ SomeHashes \subseteq 0..(2^Width - 1)
    /\ SomeZ \subseteq 1..(CurveP - 1) /\ NonceStep \in Nat \ {0, 1}
    /\ MaxTries \in Nat /\ SomeDraws \subseteq 0..(2^Width - 1)

Bit(v, i) == (v \div 2^i) % 2
NumBits(v) == CHOOSE k \in 0..Width : 2^k > v /\ (k = 0 \/ 2^(k - 1) <= v)

----------------------------------------------------------------------------
(* Arithmetic modulo the prime or the order: the loops over the rounds. *)

RECURSIVE MmodLoop(_, _)
MmodLoop(s, shift) == IF shift < 0 THEN s.v ELSE MmodLoop(MmodRound(s), shift - 1)
Mmod(product, mod) ==
    LET shift == 2 * Width - NumBits(mod)
    IN  MmodLoop([v |-> product, multiple |-> mod * 2^shift], shift)
ModMult(l, r, mod) == Mmod(l * r, mod)

RECURSIVE ModInvLoop(_, _)
ModInvLoop(s, mod) == IF s.a = s.b THEN s.u ELSE ModInvLoop(InversionRound(s, mod), mod)
ModInv(input, mod) == IF input = 0 THEN 0 ELSE ModInvLoop(InversionStart(input, mod), mod)

XSide(x) == (((x \otimes x) \ominus 3) \otimes x) \oplus CurveB

\* a^((CurveP + 1) / 4), from the top bit of CurveP + 1 down to bit 2.
RECURSIVE SqrtStep(_, _, _)
SqrtStep(a, l, i) ==
    IF i < 2 THEN l
    ELSE SqrtStep(a, IF Bit(CurveP + 1, i) = 1 THEN l \otimes l \otimes a
                     ELSE l \otimes l, i - 1)
ModSqrt(a) == SqrtStep(a, 1, NumBits(CurveP + 1) - 1)

----------------------------------------------------------------------------
(* The ladder.  L holds the two points and the difference that the next    *)
(* AddC takes.                                                              *)

RECURSIVE Ladder(_, _, _, _)
Ladder(L, point, scalar, i) ==
    LET nb == 1 - Bit(scalar, i)
        Last(R) == LastStep(R, point, nb, ModInv(ZInput(R, point, nb), CurveP))
    IN  IF i = 0 THEN Last(LadderAddC(L.R, L.sub, nb))
        ELSE Ladder(LadderRound(L, nb), point, scalar, i - 1)

\* EccPoint_mult.  The top bit of the scalar, one above Width, is taken as set.
EccPointMult(point, scalar, initial_Z) ==
    Ladder(WithDifference(InitialDouble(point, initial_Z)), point, scalar, Width - 1)

PointMult(point, k, initial_Z) == EccPointMult(point, Regularize(k, CurveN), initial_Z)

----------------------------------------------------------------------------
(* Keys, secrets and signatures.  A random Z of 0 and a blinding factor of  *)
(* 1 are those of a device without a random number generator.              *)

Infinity == <<0, 0>>
Fail == <<0, 0>>        \* of a key, a secret or a signature

\* EccPoint_compute_public_key, which fails with Infinity.
PublicKey(d, initial_Z) == PointMult(G, d, initial_Z)
ComputePublicKey(d, initial_Z) ==
    IF d = 0 \/ d >= CurveN THEN Fail ELSE PublicKey(d, initial_Z)

ValidPoint(Q) ==
    /\ Q # Infinity
    /\ Q[1] < CurveP /\ Q[2] < CurveP
    /\ Q[2] \otimes Q[2] = XSide(Q[1])

\* The result of the call and the secret.
SecretOf(S) == IF S = Infinity THEN Fail ELSE <<1, S[1]>>
SharedSecret(Q, d, initial_Z) == SecretOf(PointMult(Q, d, initial_Z))

Compress(Q) == <<2 + (Q[2] % 2), Q[1]>>
Decompress(c) ==
    LET y == ModSqrt(XSide(c[2]))
    IN  <<c[2], IF y % 2 # c[1] % 2 THEN CurveP - y ELSE y>>

\* A hash as wide as n is taken as it is, not reduced.  x is not reduced
\* either: a signature may hold an r that is not below n, and an s of 0.
SignatureOf(r, d, e, k, blind) ==
    LET inverse == ModMult(ModInv(ModMult(k, blind, CurveN), CurveN), blind, CurveN)
        s == ModMult(ModAdd(e, ModMult(d, r, CurveN), CurveN), inverse, CurveN)
    IN  IF r = 0 THEN Fail ELSE <<r, s>>
SignWithK(d, e, k, initial_Z, blind) ==
    IF k = 0 \/ k >= CurveN THEN Fail
    ELSE SignatureOf(PointMult(G, k, initial_Z)[1], d, e, k, blind)

\* Shamir's trick, from the bit below the highest that u1 or u2 has.
RECURSIVE Shamir(_, _, _, _, _, _)
Shamir(points, u1, u2, acc, z, i) ==
    IF i < 0 THEN ApplyZ(acc, ModInv(z, CurveP))
    ELSE LET index == Bit(u1, i) + 2 * Bit(u2, i)
             Summed(t, d) == Shamir(points, u1, u2, Add(t, d.point).sum,
                                    d.z \otimes (d.point[1] \ominus t[1]), i - 1)
             Round(d) == IF index = 0 THEN Shamir(points, u1, u2, d.point, d.z, i - 1)
                         ELSE Summed(ApplyZ(points[index], d.z), d)
         IN  Round(DoubleJacobian(acc, z))

Verify(Q, e, signature) ==
    LET r == signature[1]
        s == signature[2]
        w == ModInv(s, CurveN)
        u1 == ModMult(e, w, CurveN)
        u2 == ModMult(r, w, CurveN)
        sum == ApplyZ(Add(G, Q).sum, ModInv(Q[1] \ominus GeneratorX, CurveP))
        points == [index \in 1..3 |-> CASE index = 1 -> G [] index = 2 -> Q [] OTHER -> sum]
        top == NumBits(IF u1 > u2 THEN u1 ELSE u2) - 1
        first == points[Bit(u1, top) + 2 * Bit(u2, top)]
        ModN(x) == IF x >= CurveN THEN x - CurveN ELSE x
    IN  /\ r \in 1..(CurveN - 1) /\ s \in 1..(CurveN - 1)
        /\ ModN(Shamir(points, u1, u2, first, 1, top - 1)[1]) = r

----------------------------------------------------------------------------
(* Keys and nonces that are drawn.  draws is what the random number          *)
(* generator has left to give; once it is used up the generator fails.       *)

\* uECC_generate_random_int: a draw is cut to the bits of top; 0 and what is
\* not below top is drawn again.  The value is 0 if it gives up.
RandomInt(draws, top) ==
    LET cut(i) == draws[i] % 2^NumBits(top)
        good == {i \in DOMAIN draws : i <= MaxTries /\ cut(i) \in 1..(top - 1)}
        first == CHOOSE i \in good : \A j \in good : i <= j
        From(i) == SubSeq(draws, i, Len(draws))
    IN  IF good = {} THEN [value |-> 0, rest |-> From(MaxTries + 1)]
        ELSE [value |-> cut(first), rest |-> From(first + 1)]

\* uECC_make_key: a key and its Z are drawn until the key has a public key.
NoKey == <<0, Fail>>
RECURSIVE MakeKey(_, _)
MakeKey(draws, tries) ==
    LET d == RandomInt(draws, CurveN)
        z == RandomInt(d.rest, CurveP)
        Made(Q) == IF Q # Fail THEN <<d.value, Q>> ELSE MakeKey(z.rest, tries - 1)
    IN  IF tries = 0 \/ d.value = 0 THEN NoKey
        ELSE Made(IF z.value = 0 THEN Fail ELSE PublicKey(d.value, z.value))

\* uECC_sign: a nonce, its Z and a blinding factor.  A nonce without a point
\* fails before the blinding factor is drawn.
RECURSIVE Sign(_, _, _, _)
Sign(d, e, draws, tries) ==
    LET k == RandomInt(draws, CurveN)
        z == RandomInt(k.rest, CurveP)
        blind == RandomInt(z.rest, CurveN)
        pointless == z.value = 0 \/ SignWithK(d, e, k.value, z.value, 1) = Fail
    IN  IF tries = 0 \/ k.value = 0 THEN Fail
        ELSE IF pointless THEN Sign(d, e, z.rest, tries - 1)
        ELSE IF blind.value = 0 THEN Sign(d, e, blind.rest, tries - 1)
        ELSE SignWithK(d, e, k.value, z.value, blind.value)

\* uECC_sign_deterministic, without a random number generator: candidates are
\* what the chain of HMACs gives for T, which is cut to the bits of n.
FirstSigned(signatures) ==
    LET good == {i \in DOMAIN signatures : signatures[i] # Fail}
    IN  IF good = {} THEN Fail ELSE signatures[CHOOSE i \in good : \A j \in good : i <= j]
SignDeterministic(d, e, candidates) ==
    FirstSigned([i \in {j \in DOMAIN candidates : j <= MaxTries} |->
                    SignWithK(d, e, candidates[i] % 2^Width, 0, 1)])

----------------------------------------------------------------------------
(* What the arithmetic is for: the affine group law and ECDSA.  Three       *)
(* scalars, 1, n - 2 and n - 1, take the ladder through infinity whatever  *)
(* the curve, and a point with x = 0 leaves its last step nothing to       *)
(* divide by.                                                               *)

Irregular == {1, CurveN - 2, CurveN - 1}

Inverse(x) == CHOOSE i \in 1..(CurveP - 1) : (i * x) % CurveP = 1
Inverses == [x \in 1..(CurveP - 1) |-> Inverse(x)]
GroupAdd(P, Q) ==
    LET slope == IF P = Q THEN (3 * P[1] * P[1] - 3) * Inverses[(2 * P[2]) % CurveP]
                 ELSE (Q[2] - P[2]) * Inverses[(Q[1] - P[1]) % CurveP]
        m == slope % CurveP
        x == (m * m - P[1] - Q[1]) % CurveP
    IN  CASE P = Infinity -> Q
          [] Q = Infinity -> P
          [] P[1] = Q[1] /\ P # Q -> Infinity
          [] OTHER -> <<x, (m * (P[1] - x) - P[2]) % CurveP>>
Times[k \in Nat] ==
    IF k = 0 THEN Infinity
    ELSE LET twice == GroupAdd(Times[k \div 2], Times[k \div 2])
         IN  IF k % 2 = 1 THEN GroupAdd(twice, G) ELSE twice
Scalars == 1..(CurveN - 1)
Multiples == [k \in 0..CurveN |-> Times[k]]

WordsRight ==
    LET numbers == [w \in Words |-> NumberOf(w)]
    IN  \A l, r \in Words :
            LET sum == VliAdd(l, r)
                difference == VliSub(l, r)
            IN  /\ numbers[sum.words] + Range8 * sum.carry = numbers[l] + numbers[r]
                /\ numbers[difference.words] - Range8 * difference.borrow = numbers[l] - numbers[r]
ReductionRight ==
    /\ WordsRight
    /\ \A l, r \in Field : l \otimes r = (l * r) % CurveP
    /\ \A l, r \in Scalars : ModMult(l, r, CurveN) = (l * r) % CurveN
    /\ \A m \in {CurveP, CurveN} : \A v \in 1..(m - 1) : (v * ModInv(v, m)) % m = 1
KeysRight ==
    /\ Multiples[CurveN] = Infinity
    /\ \A d \in Scalars, z \in SomeZ \cup {0} :
          ComputePublicKey(d, z) = IF d \in Irregular THEN Fail ELSE Multiples[d]
SecretsAgree(d) ==
    \A k \in Scalars, z \in SomeZ :
        SharedSecret(Multiples[k], d, z) =
            IF d \in Irregular \/ Multiples[k][1] = 0 THEN Fail
            ELSE <<1, Multiples[(d * k) % CurveN][1]>>
PointsTold ==
    LET Points == {Multiples[k] : k \in Scalars}
    IN  /\ MultiplesOfAPoint([k \in Scalars |-> Multiples[k]], CurveN)
        /\ \A Q \in (0..CurveP) \X (0..CurveP) : ValidPoint(Q) <=> Q \in Points
        /\ \A Q \in Points : Decompress(Compress(Q)) = Q

Ecdsa(d, e, k) ==
    LET r == Multiples[k][1]
    IN  IF k \in Irregular \/ r = 0 THEN Fail
        ELSE <<r, ((e + d * r) * ModInv(k, CurveN)) % CurveN>>
Signed(d, e, signature) ==
    LET k == ((e + d * signature[1]) * ModInv(signature[2], CurveN)) % CurveN
    IN  /\ \A i \in 1..2 : signature[i] \in Scalars
        /\ Multiples[k] # Infinity /\ Multiples[k][1] % CurveN = signature[1]
\* No addition of Shamir's trick meets twice the same point, or opposite ones.
Smooth(d, u1, u2) ==
    \A i \in 0..(Width - 1) :
        LET before == (2 * (u1 \div 2^(i + 1) + d * (u2 \div 2^(i + 1)))) % CurveN
            added == (Bit(u1, i) + d * Bit(u2, i)) % CurveN
        IN  u1 >= 2^(i + 1) \/ u2 >= 2^(i + 1)
                => added = 0 \/ before \notin {added, CurveN - added}
AcceptedIfSigned(accepted, d, e, signature) ==
    LET w == ModInv(signature[2], CurveN)
    IN  /\ accepted => Signed(d, e, signature)
        /\ (/\ Signed(d, e, signature)
            /\ Smooth(d, (e * w) % CurveN, (signature[1] * w) % CurveN))
           => accepted
SignatureTold(signature, d, e, k) ==
    /\ signature = Ecdsa(d, e, k)
    /\ \A f \in SomeHashes :
          AcceptedIfSigned(Verify(Multiples[d], f, signature), d, f, signature)
SignaturesTold(d) ==
    \A e \in SomeHashes, k \in {i \in Scalars : i % NonceStep = 1}, z \in SomeZ :
        SignatureTold(SignWithK(d, e, k, z, z), d, e, k)

\* What is drawn is used in order, and nothing but a drawn, regular scalar
\* becomes a key or a nonce; if all are regular the first ones do.
Draws == UNION {[1..n -> SomeDraws] : n \in 0..4}
Regular(draws) == {draws[i] : i \in DOMAIN draws} \cap (Scalars \ Irregular)
AllRegular(draws) == \A i \in DOMAIN draws : draws[i] \in Regular(draws)
KeyDrawn(key, draws) ==
    /\ key # NoKey => key[1] \in Regular(draws) /\ key[2] = Multiples[key[1]]
    /\ Len(draws) > 1 /\ AllRegular(draws) => key[1] = draws[1]
KeysDrawn == \A draws \in Draws : KeyDrawn(MakeKey(draws, MaxTries), draws)
NonceDrawn(signature, d, e, draws) ==
    signature # Fail => \E k \in Regular(draws) : signature = Ecdsa(d, e, k)
FirstDrawn(signature, d, e, draws) ==
    /\ NonceDrawn(signature, d, e, draws)
    /\ Len(draws) > 2 /\ AllRegular(draws) => signature = Ecdsa(d, e, draws[1])
SomeDrawn(signature, d, e, draws) ==
    /\ NonceDrawn(signature, d, e, draws)
    /\ signature = Fail <=> \A i \in DOMAIN draws : i <= MaxTries => draws[i] \notin Regular(draws)
NoncesDrawn(d) ==
    \A draws \in Draws :
        LET e == CHOOSE e \in SomeHashes : TRUE
        IN  /\ FirstDrawn(Sign(d, e, draws, MaxTries), d, e, draws)
            /\ SomeDrawn(SignDeterministic(d, e, draws), d, e, draws)

\* For each key, whether all of the arithmetic is right.
ArithmeticRight ==
    [d \in SomeKeys |->
        /\ ReductionRight /\ KeysRight /\ PointsTold /\ KeysDrawn
        /\ SecretsAgree(d) /\ SignaturesTold(d) /\ NoncesDrawn(d)]

=============================================================================
