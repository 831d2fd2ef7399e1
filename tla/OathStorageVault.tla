--------------------------- MODULE OathStorageVault ---------------------------
(***************************************************************************)
(* The store implements OathVault when its names are short enough to be    *)
(* kept whole: where its package fits the sector, whatever backups it      *)
(* restores, its own or those of devices that hold no name twice either;   *)
(* where it runs on into the OTP sector, with backups of its own.          *)
(***************************************************************************)
EXTENDS OathStorage, FiniteSets

\* None is a value of its own for the dictionary, too.
Entry == [payload : Payloads, counter : Nat]
ASSUME VaultAssumption ==
  None \notin Entry \cup [creds : [Names -> Entry \cup {None}], unread : Nat,
                         code : AccessCodes \cup {None}]

\* The dictionary in an image, as the scans of get() see it under a key.
EntryOf(image, key, n) ==
  LET holders == {i \in Slots : /\ image.slots[i] # None
                                /\ image.slots[i].key = key
                                /\ image.slots[i].cred.name = n}
  IN IF holders = {} THEN None
     ELSE LET cred == image.slots[CHOOSE i \in holders : \A j \in holders : i <= j].cred
          IN [payload |-> cred.payload, counter |-> cred.counter]

\* Slots that do not open: no scan finds them, but none takes them for free.
Unread(image, key) == {i \in Slots : image.slots[i] # None /\ image.slots[i].key # key}

Dictionary(image, key) ==
  [creds |-> [n \in Names |-> EntryOf(image, key, n)],
   unread |-> Cardinality(Unread(image, key)), code |-> image.code]

Phases == [off |-> "off", boot |-> "starting", idle |-> "ready", erase |-> "saving", program |-> "gap"]

Recoverable == IF PackageOpens THEN Dictionary(flash.image, otp) ELSE None
Visible == Dictionary(ram, otp)
Copied == IF backup = None THEN None ELSE Dictionary(backup, otp)

Vault == INSTANCE OathVault WITH
  Capacity <- MAX_CREDENTIALS,
  Foreign <- {Dictionary(image, key) : image \in ForeignBackups, key \in SUBSET KeyBits},
  MayDamage <- Spills,
  store <- Recoverable,
  work <- Visible,
  phase <- Phases[pc],
  copy <- Copied

\* Slots, encryption, provisioning and the two-step save together behave like
\* the dictionary that loses its content only to a power loss inside a save, or
\* to a save that runs on into the OTP sector, and then as a whole.
ImplementsVault == Vault!Spec

=============================================================================
