------------------------------ MODULE EccPoints ------------------------------
(***************************************************************************)
(* Points of secp256r1: the doubling, the additions and the rounds of the  *)
(* ladder of crypto/uECC.c and curve-specific.inc, over the field of       *)
(* EccField, and the affine group law that they are to follow.             *)
(***************************************************************************)
EXTENDS EccField, Integers, Sequences

\* The prime is one.
ASSUME PrimeAssumption == \A l, r \in 1..(CurveP - 1) : (l * r) % CurveP # 0

----------------------------------------------------------------------------
(* Points: Jacobian coordinates, pairs of points with a common Z. *)

ApplyZ(Q, z) == <<Q[1] \otimes (z \otimes z), Q[2] \otimes (z \otimes z \otimes z)>>

Triple(v) == v \oplus (v \oplus v)

DoubleWith(Q, z, yy, A, B) ==
    LET x3 == B \otimes B \ominus A \ominus A
    IN  [point |-> <<x3, B \otimes (A \ominus x3) \ominus (yy \otimes yy)>>, z |-> Q[2] \otimes z]
DoubleJacobian(Q, z) ==
    LET yy == Q[2] \otimes Q[2]
        zz == z \otimes z
        D  == (Q[1] \oplus zz) \otimes ((Q[1] \oplus zz) \ominus (zz \oplus zz))
    IN  IF z = 0 THEN [point |-> Q, z |-> z]
        ELSE DoubleWith(Q, z, yy, Q[1] \otimes yy, Half(Triple(D), CurveP))

\* P, Q to P with the new Z, P + Q; sub is what the next AddC squares.
\* B and C are the x of P and Q with the new Z.
AddWith(P, Q, B, C) ==
    LET dy == Q[2] \ominus P[2]
        x3 == dy \otimes dy \ominus B \ominus C
        E  == P[2] \otimes (C \ominus B)
    IN  [P |-> <<B, E>>, sum |-> <<x3, dy \otimes (B \ominus x3) \ominus E>>,
         sub |-> B \ominus x3]
Add(P, Q) ==
    LET dx == Q[1] \ominus P[1]
    IN  AddWith(P, Q, P[1] \otimes (dx \otimes dx), Q[1] \otimes (dx \otimes dx))

\* P, Q to P - Q, P + Q, with sub the difference of their x.
AddCWith(P, Q, B, C) ==
    LET sy == Q[2] \oplus P[2]
        dy == Q[2] \ominus P[2]
        E  == P[2] \otimes (C \ominus B)
        x3 == dy \otimes dy \ominus (B \oplus C)
        xd == sy \otimes sy \ominus (B \oplus C)
    IN  [difference |-> <<xd, sy \otimes (xd \ominus B) \ominus E>>,
         sum |-> <<x3, dy \otimes (B \ominus x3) \ominus E>>]
AddC(P, Q, sub) == AddCWith(P, Q, P[1] \otimes (sub \otimes sub), Q[1] \otimes (sub \otimes sub))

\* One AddC of the ladder: R[1 - nb] becomes the difference of the two, R[nb] the sum.
LadderAddC(R, sub, nb) ==
    LET Placed(both) == [i \in 0..1 |-> IF i = nb THEN both.sum ELSE both.difference]
    IN  Placed(AddC(R[1 - nb], R[nb], sub))

\* One Add of the ladder: R[nb] with the Z of the sum, which goes to R[1 - nb].
LadderAdd(R, nb) ==
    LET Placed(both) == [R |-> [i \in 0..1 |-> IF i = nb THEN both.P ELSE both.sum],
                         sub |-> both.sub]
    IN  Placed(Add(R[nb], R[1 - nb]))

\* A round of the ladder: the two points and the difference that AddC takes.
LadderRound(L, nb) == LadderAdd(LadderAddC(L.R, L.sub, nb), nb)

\* After the last AddC: the common Z is found from x and y of the point, with
\* the inverse of ZInput.
ZInput(R, point, nb) == (R[1][1] \ominus R[0][1]) \otimes R[1 - nb][2] \otimes point[1]
LastStep(R, point, nb, inverse) ==
    ApplyZ(LadderAdd(R, nb).R[0], inverse \otimes point[2] \otimes R[1 - nb][1])

\* The point at 0 and its double at 1, with the Z of the double.
InitialDouble(point, initial_Z) ==
    LET z0 == IF initial_Z = 0 THEN 1 ELSE initial_Z
        Placed(doubled) == [i \in 0..1 |-> IF i = 1 THEN doubled.point ELSE ApplyZ(point, doubled.z)]
    IN  Placed(DoubleJacobian(ApplyZ(point, z0), z0))
WithDifference(R) == [R |-> R, sub |-> R[0][1] \ominus R[1][1]]

\* k + n or k + 2n, whichever has the bit above the eight words: what is
\* stored of it.
Regularize(k, n) == IF k + n >= Range8 THEN (k + n) % Range8 ELSE (k + 2 * n) % Range8

----------------------------------------------------------------------------
(* The affine group law: M[k] is k times a point of order n.               *)

a \cong b == (a - b) % CurveP = 0

Chord(A, B, S) ==
    \E m \in Field : /\ m * (B[1] - A[1]) \cong B[2] - A[2]
                     /\ S[1] \cong m * m - A[1] - B[1]
                     /\ S[2] \cong m * (A[1] - S[1]) - A[2]
Tangent(A, S) ==
    \E m \in Field : /\ 2 * A[2] * m \cong 3 * A[1] * A[1] - 3
                     /\ S[1] \cong m * m - A[1] - A[1]
                     /\ S[2] \cong m * (A[1] - S[1]) - A[2]
MultiplesOfAPoint(M, n) ==
    /\ M \in [1..(n - 1) -> Field \X Field]
    /\ \A k \in 1..(n - 1) :
          M[k][2] # 0 /\ M[n - k][1] = M[k][1] /\ M[n - k][2] + M[k][2] = CurveP
    /\ \A j, k \in 1..(n - 1) :
          j # k /\ j + k # n => M[j][1] # M[k][1] /\ Chord(M[j], M[k], M[(j + k) % n])
    /\ Tangent(M[1], M[2])

=============================================================================
