--------------------------- MODULE MCCcidTransport ---------------------------
(* Instances of CcidTransport for TLC. *)
EXTENDS CcidTransport, TLC
==============================================================================
