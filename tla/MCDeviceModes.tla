--------------------------- MODULE MCDeviceModes ---------------------------
(* An instance of DeviceModes for TLC. *)
EXTENDS DeviceModes
=============================================================================
