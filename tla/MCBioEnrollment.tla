-------------------------- MODULE MCBioEnrollment --------------------------
(* An instance of BioEnrollment for TLC. *)
EXTENDS BioEnrollment
============================================================================
