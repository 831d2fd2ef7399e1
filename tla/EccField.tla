------------------------------ MODULE EccField ------------------------------
(***************************************************************************)
(* Words and the field: the loops of crypto/uECC.c that add, subtract and   *)
(* multiply word by word, arithmetic modulo a number of eight words, a      *)
(* round of the binary inversion, and the fast reduction modulo the prime   *)
(* of secp256r1 in curve-specific.inc.  A big integer is the number its      *)
(* words make.                                                              *)
(***************************************************************************)
EXTENDS Integers, Sequences

CONSTANT WordSize   \* how many values a word has: 2^32 in the firmware

ASSUME WordAssumption == WordSize \in Nat \ {0} /\ WordSize % 2 = 0

Word == 0..(WordSize - 1)
Words == [1..8 -> Word]
NumberOf(w) ==
    w[1] + WordSize * (w[2] + WordSize * (w[3] + WordSize * (w[4]
    + WordSize * (w[5] + WordSize * (w[6] + WordSize * (w[7] + WordSize * w[8]))))))

\* One more than the greatest number of eight words.
Range8 == LET Square == WordSize * WordSize IN Square * Square * Square * Square

\* The prime of secp256r1, from its lowest word.
Ones == WordSize - 1
CurveP == NumberOf(<<Ones, Ones, Ones, 0, 0, 0, 1, Ones>>)

----------------------------------------------------------------------------
(* Addition and subtraction, word by word. *)

\* A word of the sum; the carry is seen from the sum being less than a
\* summand, and kept when the sum is that summand.
SumWord(l, r, carry) == (l + r + carry) % WordSize
CarryOut(l, r, carry) ==
    LET sum == SumWord(l, r, carry)
    IN  IF sum = l THEN carry ELSE IF sum < l THEN 1 ELSE 0
DiffWord(l, r, borrow) == (l - r - borrow) % WordSize
BorrowOut(l, r, borrow) ==
    LET diff == DiffWord(l, r, borrow)
    IN  IF diff = l THEN borrow ELSE IF diff > l THEN 1 ELSE 0

\* carries[i] goes into word i of a sum or a difference.
Carries(Out(_, _, _), l, r) ==
    LET c2 == Out(l[1], r[1], 0)
        c3 == Out(l[2], r[2], c2)
        c4 == Out(l[3], r[3], c3)
        c5 == Out(l[4], r[4], c4)
        c6 == Out(l[5], r[5], c5)
        c7 == Out(l[6], r[6], c6)
        c8 == Out(l[7], r[7], c7)
    IN  <<0, c2, c3, c4, c5, c6, c7, c8, Out(l[8], r[8], c8)>>
VliAdd(l, r) ==
    LET carries == Carries(CarryOut, l, r)
    IN  [words |-> [i \in 1..8 |-> SumWord(l[i], r[i], carries[i])], carry |-> carries[9]]
VliSub(l, r) ==
    LET borrows == Carries(BorrowOut, l, r)
    IN  [words |-> [i \in 1..8 |-> DiffWord(l[i], r[i], borrows[i])], borrow |-> borrows[9]]

----------------------------------------------------------------------------
(* The product, column by column.  What a column adds to r0, r1 and r2 is    *)
(* taken as one number, of which r0 becomes a word of the product and the    *)
(* rest goes to the next column; three words hold it if a word has eight     *)
(* values or more.                                                          *)

SumOf(terms) ==
    terms[1] + terms[2] + terms[3] + terms[4] + terms[5] + terms[6] + terms[7] + terms[8]
Column(l, r, k) ==
    SumOf([i \in 1..8 |-> IF k + 2 - i \in 1..8 THEN l[i] * r[k + 2 - i] ELSE 0])
Above(column, below) == (below + column) \div WordSize

\* Columns(l, r)[k + 1] is what the columns below k leave for it.
Stack(column, c) == Append(c, Above(column[Len(c) - 1], c[Len(c)]))
Stack5(column, c) ==
    Stack(column, Stack(column, Stack(column, Stack(column, Stack(column, c)))))
Accumulated(column) == Stack5(column, Stack5(column, Stack5(column, <<0>>)))
Columns(l, r) == Accumulated([k \in 0..14 |-> Column(l, r, k)])
VliMult(l, r) ==
    LET columns == Columns(l, r)
    IN  [k \in 0..15 |-> (columns[k + 1] + Column(l, r, k)) % WordSize]

----------------------------------------------------------------------------
(* Arithmetic modulo a number of eight words. *)

\* Mutation: the carry out of the addition is not looked at.
ModAddNoCarry(l, r, mod) ==
    LET sum == (l + r) % Range8
    IN  IF sum >= mod THEN sum - mod ELSE sum
\* l and r need not be reduced: the sum may keep a multiple of mod then.
ModAdd(l, r, mod) ==
    IF l + r >= mod THEN (l + r - mod) % Range8 ELSE l + r
ModSub(l, r, mod) == (IF l < r THEN l - r + mod ELSE l - r) % Range8

\* Halving of an odd number carries its top bit through the addition.
Half(u, mod) == IF u % 2 = 0 THEN u \div 2 ELSE (u + mod) \div 2

\* A round of uECC_vli_mmod: the multiple of the modulus is taken off where
\* that leaves no borrow, and halved.
MmodRound(s) ==
    [v |-> IF s.v < s.multiple THEN s.v ELSE s.v - s.multiple,
     multiple |-> s.multiple \div 2]

\* A round of uECC_vli_modInv.  u and v follow a and b: a = u * input and
\* b = v * input, modulo mod.
InversionStart(input, mod) == [a |-> input, b |-> mod, u |-> 1, v |-> 0]
InversionRound(s, mod) ==
    IF s.a % 2 = 0
    THEN [a |-> s.a \div 2, b |-> s.b, u |-> Half(s.u, mod), v |-> s.v]
    ELSE IF s.b % 2 = 0
    THEN [a |-> s.a, b |-> s.b \div 2, u |-> s.u, v |-> Half(s.v, mod)]
    ELSE IF s.a > s.b
    THEN [a |-> (s.a - s.b) \div 2, b |-> s.b, u |-> Half(ModSub(s.u, s.v, mod), mod), v |-> s.v]
    ELSE [a |-> s.a, b |-> (s.b - s.a) \div 2, u |-> s.u, v |-> Half(ModSub(s.v, s.u, mod), mod)]

----------------------------------------------------------------------------
(* The fast reduction of a product of sixteen words. *)

Products == [0..15 -> Word]
Low(c) == NumberOf([i \in 1..8 |-> c[i - 1]])
High(c) == NumberOf([i \in 1..8 |-> c[i + 7]])
ProductOf(c) == Low(c) + Range8 * High(c)

\* tmp, filled with words of the product; no word is numbered 0 there.
Tmp(c, words) == NumberOf([i \in 1..8 |-> IF words[i] = 0 THEN 0 ELSE c[words[i]]])

\* What the additions and subtractions leave in result, with what they leave
\* in carry above it.
FastSum(c) ==
    Low(c)
    + 2 * Tmp(c, <<0, 0, 0, 11, 12, 13, 14, 15>>)
    + 2 * Tmp(c, <<0, 0, 0, 12, 13, 14, 15, 0>>)
    + Tmp(c, <<8, 9, 10, 0, 0, 0, 14, 15>>)
    + Tmp(c, <<9, 10, 11, 13, 14, 15, 13, 8>>)
    - Tmp(c, <<11, 12, 13, 0, 0, 0, 8, 10>>)
    - Tmp(c, <<12, 13, 14, 15, 0, 0, 9, 11>>)
    - Tmp(c, <<13, 14, 15, 8, 9, 10, 0, 12>>)
    - Tmp(c, <<14, 15, 0, 9, 10, 11, 0, 13>>)

\* The prime is added until the carry is not negative, or else taken off
\* until there is no carry and the number is below it.
Normalise[v \in Int] ==
    IF v < 0 THEN Normalise[v + CurveP]
    ELSE IF v >= CurveP THEN Normalise[v - CurveP] ELSE v
MmodFast(c) == Normalise[FastSum(c)]

----------------------------------------------------------------------------
(* The field: numbers below the prime, as their words. *)

Field == 0..(CurveP - 1)

WordsOf(v) ==
    LET v2 == v \div WordSize
        v3 == v2 \div WordSize
        v4 == v3 \div WordSize
        v5 == v4 \div WordSize
        v6 == v5 \div WordSize
        v7 == v6 \div WordSize
        v8 == v7 \div WordSize
    IN  <<v % WordSize, v2 % WordSize, v3 % WordSize, v4 % WordSize,
          v5 % WordSize, v6 % WordSize, v7 % WordSize, v8 % WordSize>>
WordsIn == [v \in Field |-> WordsOf(v)]
ProductTable(words) ==
    [l \in DOMAIN words |-> [r \in DOMAIN words |-> MmodFast(VliMult(words[l], words[r]))]]
FieldProduct == ProductTable(WordsIn)

l \oplus r == ModAdd(l, r, CurveP)
l \ominus r == ModSub(l, r, CurveP)
l \otimes r == FieldProduct[l][r]

=============================================================================
