---------------------------- MODULE MCOathApplet -----------------------------
(* Instances of OathApplet for TLC. *)
EXTENDS OathApplet, TLC

CONSTANTS n1, touched, timed, broken, b1, b2

ShortNames == [n \in Names |-> n]
OneRandomKey == {{b1}}
NoForeignBackup == {}
==============================================================================
