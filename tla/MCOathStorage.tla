---------------------------- MODULE MCOathStorage ----------------------------
(* Instances for TLC of the store and of the dictionary it implements. *)
EXTENDS OathStorageVault, TLC

CONSTANTS n1, n2, p1, a1, b1, b2, b3

\* Names shorter than 64 characters.
ShortNames == [n \in Names |-> n]

TwoRandomKeys == {{b1}, {b2}}
OneRandomKey == {{b1, b2}}
OneBitKey == {{b1}}

\* The backup of a device with a key this one can never have and one
\* credential, of a name that is used here too.
ForeignImage ==
  [slots |-> [i \in Slots |-> IF i = 1
                              THEN [key |-> {b3}, cred |-> [name |-> n1, payload |-> p1, counter |-> 0]]
                              ELSE None],
   code |-> None]
OneForeignBackup == {ForeignImage}
NoForeignBackup == {}
==============================================================================
