------------------------------ MODULE MCCtap21 ------------------------------
(* An instance of Ctap21 for TLC. *)
EXTENDS Ctap21
=============================================================================
