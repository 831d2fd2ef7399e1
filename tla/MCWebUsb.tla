------------------------------ MODULE MCWebUsb ------------------------------
(* An instance of WebUsb for TLC, with a curve for the HSM's key pairs: 199   *)
(* is the prime of secp256r1 with limbs of one bit.                           *)
EXTENDS WebUsbKeys
=============================================================================
