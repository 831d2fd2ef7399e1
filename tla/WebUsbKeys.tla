----------------------------- MODULE WebUsbKeys -----------------------------
(***************************************************************************)
(* The key pairs of the HSM that the commands of WebUsb generate, read and *)
(* sign with (security/hsm.c), as keys of the curve of Ecc.                 *)
(***************************************************************************)
EXTENDS WebUsb, Ecc

ASSUME KeysAssumption == Cardinality(SomeKeys) = MaxKeys

\* The private keys in the order in which they are drawn.
PrivateKey(pair) ==
    CHOOSE d \in SomeKeys : Cardinality({e \in SomeKeys : e < d}) = pair - 1

\* The key pair in a slot of the HSM, however it came to be there, makes what
\* the group law and ECDSA define, with whatever random Z, or reports failure:
\* a carry lost in an addition, a multiple of n that is not taken off or a
\* step through infinity never makes another public key, another shared
\* secret, or a signature that holds for another hash or not for its own.
CurveCorrect ==
    \A slot \in Slots : hsm_slots[slot] # 0 => ArithmeticRight[PrivateKey(hsm_slots[slot])]

=============================================================================
