----------------------------- MODULE MCCtapHid -----------------------------
(* An instance of CtapHid for TLC. *)
EXTENDS CtapHid
============================================================================
