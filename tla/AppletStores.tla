----------------------------- MODULE AppletStores -----------------------------
(***************************************************************************)
(* What the other applets keep: the OpenPGP data (openpgp_storage.c), the  *)
(* FIDO2 credentials (fido2_storage.c, fido2_applet.c) and the key slots of *)
(* the HSM (hsm.c).  OpenPGP and HSM write the same flash sector, the third *)
(* from the end.  Every save erases its sector and programs it, and power   *)
(* may fail between the two.  A call that returns an error changes nothing *)
(* and is not a step.                                                      *)
(***************************************************************************)
EXTENDS Naturals, Sequences

CONSTANTS
  HSM_MAX_SLOTS,
  FIDO2_MAX_CREDENTIALS,
  HsmStarted,   \* whether the boot calls hsm_init, the only caller of uECC_set_rng
  MaxKeys,      \* bound: key pairs that are ever generated
  None

ASSUME StoresAssumption ==
  /\ HSM_MAX_SLOTS \in Nat \ {0}
  /\ FIDO2_MAX_CREDENTIALS \in Nat
  /\ HsmStarted \in BOOLEAN
  /\ MaxKeys \in Nat

VARIABLES
  powered,
  todo,      \* initialisations still to run, in order
  job,       \* the save under way and its next step, or None
  flash,     \* the third and the fourth sector from the end
  pgp,       \* current_pgp_data: zero, or the defaults (nothing else is ever written to it)
  fido,      \* current_fido_storage: the ids of the credentials
  hsm,       \* hsm_slots: the key pair in each slot, or None
  rng,       \* uECC has a random number generator
  call,      \* the MakeCredential being handled, or None
  issued     \* key pairs generated so far; a credential id is numbered like its key

device == <<todo, job, pgp, fido, hsm, rng, call>>
vars == <<powered, flash, device, issued>>

HsmSlots == 0..HSM_MAX_SLOTS - 1
Keys == 1..MaxKeys
Stores == {"openpgp", "fido2", "hsm"}
Sector == [openpgp |-> "third", hsm |-> "third", fido2 |-> "fourth"]
NoKeys == [s \in HsmSlots |-> None]

KeySlots == [HsmSlots -> Keys \cup {None}]
PgpPackage == [by : {"openpgp"}, content : {"zero", "defaults", None}]
HsmPackage == [by : {"hsm"}, content : KeySlots \cup {None}]
Fido2Package == [by : {"fido2"}, content : Seq(Keys) \cup {None}]
Job == [store : Stores, step : {"erase", "program"}]
Call == [id : Keys, stored : BOOLEAN]
ASSUME NoneAssumption ==
  None \notin {"zero", "defaults"} \cup KeySlots \cup Seq(Keys) \cup Job \cup Call
                \cup PgpPackage \cup HsmPackage \cup Fido2Package

\* The two storages of the applets hand aes_gcm_encrypt the tag buffer for the
\* ciphertext and the ciphertext buffer for the tag; what they store does not
\* authenticate when it is read back.  hsm_save_to_flash has them in order.
Swapped == {"openpgp", "fido2"}
\* A package torn while it was programmed has its first page, and with it the
\* magic number of an applet's storage, and no content.
Package(store, content) == [by |-> store, content |-> content]
Torn(store) == Package(store, None)
Authentic(package) == package.by \notin Swapped /\ package.content # None

\* What a load finds: the magic number of its storage before the applets
\* decrypt anything; for the HSM the authentication is the first check.
Found(store) == flash[Sector[store]] # None /\ flash[Sector[store]].by = store

Cached == [openpgp |-> pgp, fido2 |-> fido, hsm |-> hsm]

Starts(store) == powered /\ job = None /\ todo # <<>> /\ Head(todo) = store /\ todo' = Tail(todo)
Begin(store) == job' = [store |-> store, step |-> "erase"]
Free == powered /\ job = None /\ todo = <<>>
Idle == Free /\ call = None

-----------------------------------------------------------------------------
(***************************************************************************)
(* Power, boot and the flash writes.                                       *)
(***************************************************************************)
Dark == /\ todo' = <<>> /\ job' = None /\ call' = None
        /\ pgp' = "zero" /\ fido' = <<>> /\ hsm' = NoKeys /\ rng' = FALSE

Init ==
  /\ powered = FALSE
  /\ todo = <<>> /\ job = None /\ call = None
  /\ flash = [third |-> None, fourth |-> None]
  /\ pgp = "zero" /\ fido = <<>> /\ hsm = NoKeys /\ rng = FALSE
  /\ issued = 0

PowerOn ==
  /\ ~powered
  /\ powered' = TRUE
  /\ todo' = IF HsmStarted THEN <<"openpgp", "fido2", "hsm">> ELSE <<"openpgp", "fido2">>
  /\ UNCHANGED <<job, pgp, fido, hsm, rng, call, flash, issued>>

\* SG_INIT initialises the applets again, not the HSM.
Reinit ==
  /\ Idle
  /\ todo' = <<"openpgp", "fido2">>
  /\ UNCHANGED <<powered, job, pgp, fido, hsm, rng, call, flash, issued>>

PowerLoss ==
  /\ powered
  /\ powered' = FALSE
  /\ Dark
  /\ \/ UNCHANGED flash
     \/ job # None /\ job.step = "erase" /\ flash' = [flash EXCEPT ![Sector[job.store]] = None]
     \/ /\ job # None /\ job.step = "program"
        /\ flash' = [flash EXCEPT ![Sector[job.store]] = Torn(job.store)]
  /\ UNCHANGED issued

EraseSector ==
  /\ powered /\ job # None /\ job.step = "erase"
  /\ flash' = [flash EXCEPT ![Sector[job.store]] = None]
  /\ job' = [job EXCEPT !.step = "program"]
  /\ UNCHANGED <<powered, todo, pgp, fido, hsm, rng, call, issued>>

ProgramSector ==
  /\ powered /\ job # None /\ job.step = "program"
  /\ flash' = [flash EXCEPT ![Sector[job.store]] = Package(job.store, Cached[job.store])]
  /\ job' = None
  /\ UNCHANGED <<powered, todo, pgp, fido, hsm, rng, call, issued>>

\* openpgp_load_from_flash: a package that does not authenticate leaves the
\* data as it is, in spite of the message "Re-initializing".
OpenPgpInit ==
  /\ Starts("openpgp")
  /\ IF Found("openpgp")
     THEN /\ pgp' = IF Authentic(flash.third) THEN flash.third.content ELSE pgp
          /\ UNCHANGED job
     ELSE pgp' = "defaults" /\ Begin("openpgp")
  /\ UNCHANGED <<powered, flash, fido, hsm, rng, call, issued>>

\* Mutation: the fresh storage is not written back.
Fido2InitUnsaved ==
  /\ Starts("fido2")
  /\ fido' = <<>>
  /\ UNCHANGED <<powered, job, flash, pgp, hsm, rng, call, issued>>

\* fido2_load_from_flash: here the storage is emptied, and not saved.
Fido2Init ==
  /\ Starts("fido2")
  /\ IF Found("fido2")
     THEN /\ fido' = IF Authentic(flash.fourth) THEN flash.fourth.content ELSE <<>>
          /\ UNCHANGED job
     ELSE fido' = <<>> /\ Begin("fido2")
  /\ UNCHANGED <<powered, flash, pgp, hsm, rng, call, issued>>

\* hsm_init; the master key exists, oath_init has provisioned it before.
HsmInit ==
  /\ Starts("hsm")
  /\ rng' = TRUE
  /\ IF Found("hsm") /\ Authentic(flash.third)
     THEN hsm' = flash.third.content /\ UNCHANGED job
     ELSE hsm' = NoKeys /\ Begin("hsm")
  /\ UNCHANGED <<powered, flash, pgp, fido, call, issued>>

-----------------------------------------------------------------------------
(***************************************************************************)
(* Key slots and credentials.                                              *)
(***************************************************************************)

\* hsm_generate_key: uECC_make_key fails without a generator.
Generate(slot) ==
  /\ Idle
  /\ rng
  /\ issued < MaxKeys
  /\ issued' = issued + 1
  /\ hsm' = [hsm EXCEPT ![slot] = issued + 1]
  /\ Begin("hsm")

GenerateKey(slot) ==
  /\ Generate(slot)
  /\ UNCHANGED <<powered, todo, flash, pgp, fido, rng, call>>

\* Mutation: the slot is cleared in RAM only.
DeleteKeyUnsaved(slot) ==
  /\ Idle
  /\ hsm' = [hsm EXCEPT ![slot] = None]
  /\ UNCHANGED <<powered, job, todo, flash, pgp, fido, rng, call, issued>>

DeleteKey(slot) ==
  /\ Idle
  /\ hsm' = [hsm EXCEPT ![slot] = None]
  /\ Begin("hsm")
  /\ UNCHANGED <<powered, todo, flash, pgp, fido, rng, call, issued>>

\* handle_make_credential makes its key in slot 0, always.
MakeCredential ==
  /\ Generate(0)
  /\ call' = [id |-> issued + 1, stored |-> FALSE]
  /\ UNCHANGED <<powered, todo, flash, pgp, fido, rng>>

\* Mutation: a full storage is not handled.
StoreCredentialIfRoom ==
  /\ Free
  /\ call # None
  /\ ~call.stored
  /\ Len(fido) < FIDO2_MAX_CREDENTIALS
  /\ fido' = Append(fido, call.id)
  /\ Begin("fido2")
  /\ call' = [call EXCEPT !.stored = TRUE]
  /\ UNCHANGED <<powered, todo, flash, pgp, hsm, rng, issued>>

\* Mutation: the count is not compared with the capacity.
StoreCredentialAlways ==
  /\ Free
  /\ call # None
  /\ ~call.stored
  /\ fido' = Append(fido, call.id)
  /\ Begin("fido2")
  /\ call' = [call EXCEPT !.stored = TRUE]
  /\ UNCHANGED <<powered, todo, flash, pgp, hsm, rng, issued>>

\* Once the key is saved: the credential is appended if there is room for it.
StoreCredential ==
  /\ Free
  /\ call # None
  /\ ~call.stored
  /\ IF Len(fido) < FIDO2_MAX_CREDENTIALS
     THEN fido' = Append(fido, call.id) /\ Begin("fido2")
     ELSE UNCHANGED <<fido, job>>
  /\ call' = [call EXCEPT !.stored = TRUE]
  /\ UNCHANGED <<powered, todo, flash, pgp, hsm, rng, issued>>

\* The answer is a success with or without room.
AnswerCredential ==
  /\ Free
  /\ call # None
  /\ call.stored
  /\ call' = None
  /\ UNCHANGED <<powered, todo, job, flash, pgp, fido, hsm, rng, issued>>

-----------------------------------------------------------------------------
Firmware ==
  \/ EraseSector \/ ProgramSector
  \/ OpenPgpInit \/ Fido2Init \/ HsmInit
  \/ StoreCredential \/ AnswerCredential

Next ==
  \/ Firmware
  \/ PowerOn \/ Reinit \/ PowerLoss
  \/ \E slot \in HsmSlots : GenerateKey(slot) \/ DeleteKey(slot)
  \/ MakeCredential

\* The firmware runs on by itself for as long as it has power.
Spec == Init /\ [][Next]_vars /\ WF_vars(Firmware)

-----------------------------------------------------------------------------
(***************************************************************************)
(* Properties.                                                             *)
(***************************************************************************)

\* Every variable has its type.
StoresTypeOK ==
  /\ powered \in BOOLEAN /\ rng \in BOOLEAN
  /\ todo \in Seq(Stores)
  /\ job \in Job \cup {None}
  /\ flash = [third |-> flash.third, fourth |-> flash.fourth]
  /\ flash.third # None =>
       \/ flash.third.by = "openpgp" /\ flash.third \in PgpPackage
       \/ flash.third.by = "hsm" /\ flash.third \in HsmPackage
  /\ flash.fourth \in Fido2Package \cup {None}
  /\ pgp \in {"zero", "defaults"}
  /\ fido \in Seq(Keys) /\ Len(fido) <= FIDO2_MAX_CREDENTIALS
  /\ hsm \in KeySlots
  /\ call \in Call \cup {None}
  /\ issued \in 0..MaxKeys

\* However often the power failed inside a save, a device that is ready for a
\* call has left neither sector erased, and none of the HSM's packages torn.
\* (The applets' storages find a torn package, refuse it and leave it there.)
SectorsWritten ==
  Idle => /\ flash.third # None /\ flash.fourth # None
          /\ flash.third # Torn("hsm")

\* While it is the last writer of the shared sector, the HSM has on flash the
\* keys it has in RAM; the FIDO2 sector holds the credentials in RAM, or those
\* a load refused.
WriterAgrees ==
  Idle => /\ flash.third.by = "hsm" => flash.third.content = hsm
          /\ flash.fourth.content = fido \/ fido = <<>>

\* The inductive invariant behind the first two: from the moment the storage of a sector
\* was initialised the sector is written, by whoever writes it last, with what
\* the writer has in RAM, unless a save of it is under way.
PgpDone == todo \in {<<>>, <<"hsm">>, <<"fido2">>, <<"fido2", "hsm">>}
Fido2Done == todo \in {<<>>, <<"hsm">>}
Saving(store) == job # None /\ job.store = store

StoresInv ==
  /\ StoresTypeOK
  /\ PgpDone \/ todo \in {<<"openpgp", "fido2">>, <<"openpgp", "fido2", "hsm">>}
  /\ powered /\ PgpDone /\ ~Saving("openpgp") /\ ~Saving("hsm") =>
       /\ flash.third # None
       /\ flash.third.by = "hsm" => flash.third.content = hsm
  /\ powered /\ Fido2Done /\ ~Saving("fido2") =>
       /\ flash.fourth # None
       /\ flash.fourth.content = fido \/ fido = <<>>

\* A MakeCredential that was begun is answered, unless the power goes first.
CredentialAnswered == call # None ~> call = None

=============================================================================
