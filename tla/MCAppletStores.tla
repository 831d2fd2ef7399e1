---------------------------- MODULE MCAppletStores ----------------------------
(* Instances of AppletStores for TLC. *)
EXTENDS AppletStores, TLC
==============================================================================
