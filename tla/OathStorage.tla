------------------------------ MODULE OathStorage ------------------------------
(***************************************************************************)
(* The encrypted OATH credential store (secure_world/src/oath/            *)
(* oath_storage.c) together with the master key it is sealed under        *)
(* (secure_world/src/security/security.c).  The firmware is single        *)
(* threaded: an operation changes the RAM cache and then calls            *)
(* save_to_flash, which erases the OATH sector and programs it again with *)
(* interrupts off.  Only a loss of power can fall between these steps.     *)
(*                                                                         *)
(* The simulated OTP is the flash sector right after the OATH sector, and  *)
(* a package that is larger than a sector is programmed into it.  NOR      *)
(* flash only clears bits until it is erased, so the OTP content is kept   *)
(* as the set of the bits that are still 1: erased is KeyBits, and         *)
(* programming intersects.                                                 *)
(***************************************************************************)
EXTENDS Naturals

CONSTANTS
  Names,             \* credential names a caller may pass
  Trunc,             \* Trunc[n]: what strncpy keeps of n (at most 63 characters)
  Payloads,          \* everything else put() stores: secret, type, algorithm, digits, period, touch
  AccessCodes,       \* (hashes of) access codes
  KeyBits,           \* bit positions of the master key
  RandomKeys,        \* what the random number generator may return for a key
  MAX_CREDENTIALS,
  FLASH_SECTOR_SIZE,
  MaxCounter,        \* bound: HOTP counters the model distinguishes
  ForeignBackups,    \* persistence images exported by other devices
  None               \* no slot content, no package, no access code

Slots == 1..MAX_CREDENTIALS
Credential == [name : Names, payload : Payloads, counter : Nat]
Sealed == [key : SUBSET KeyBits, cred : Credential]
Image == [slots : [Slots -> Sealed \cup {None}], code : AccessCodes \cup {None}]
Package == [key : SUBSET KeyBits, image : Image]

\* Truncation is idempotent; the generator never returns 256 one bits (that
\* has probability 2^-256, and the key would read as not written).
ASSUME StorageAssumption ==
  /\ MAX_CREDENTIALS \in Nat \ {0}
  /\ FLASH_SECTOR_SIZE \in Nat
  /\ MaxCounter \in Nat
  /\ Trunc \in [Names -> Names]
  /\ \A n \in Names : Trunc[Trunc[n]] = Trunc[n]
  /\ RandomKeys \subseteq (SUBSET KeyBits) \ {KeyBits}
  /\ ForeignBackups \subseteq Image
  /\ None \notin Sealed \cup Package \cup AccessCodes \cup Image

VARIABLES
  otp,       \* bits of the simulated OTP key area that are still 1
  flash,     \* the OATH sector: a package that authenticates, or None
  ram,       \* ram_cache
  pc,        \* where the firmware is
  backup     \* the image the host keeps of the last SG_OATH_BACKUP, or None

vars == <<otp, flash, ram, pc, backup>>

-----------------------------------------------------------------------------
(***************************************************************************)
(* Layout: sizeof(oath_persist_t), padded for AES, behind a 16 byte IV and *)
(* a 16 byte tag.                                                          *)
(***************************************************************************)
AlignUp(n, a) == ((n + a - 1) \div a) * a
PersistSize == AlignUp(4 + 4 + 32 + 1 + 285 * MAX_CREDENTIALS + MAX_CREDENTIALS + 16, 4)
PackageSize == 16 + 16 + AlignUp(PersistSize, 16)
Spills == PackageSize > FLASH_SECTOR_SIZE

\* BSS, and what load_from_flash and oath_storage_reset build with memset.
Factory == [slots |-> [i \in Slots |-> None], code |-> None]

\* is_master_key_written
Written == otp # KeyBits

\* aes_gcm_decrypt accepts the package that is on flash.
PackageOpens == flash # None /\ flash.key = otp

\* The key opens a slot, and the credential in it has this very name.
Opens(i) == ram.slots[i] # None /\ ram.slots[i].key = otp
Holds(i, n) == Opens(i) /\ ram.slots[i].cred.name = n

\* The scans over the slots stop at the first hit.
FirstHolder(i, n) == Holds(i, n) /\ \A j \in Slots : j < i => ~Holds(j, n)
FirstFree(i) == ram.slots[i] = None /\ \A j \in Slots : j < i => ram.slots[j] # None

\* Mutation: the result of derive_and_validate_key is ignored, the key buffer is all zero.
SealUnkeyed(n, p, c) == [key |-> {}, cred |-> [name |-> n, payload |-> p, counter |-> c]]

\* encrypt_credential; derive_and_validate_key finds the key written, because
\* every boot provisions it (KeyProvisioned).
Seal(n, p, c) == [key |-> otp, cred |-> [name |-> n, payload |-> p, counter |-> c]]

\* The cache changes and save_to_flash is entered.
Save(image) ==
  /\ ram' = image
  /\ pc' = "erase"
  /\ UNCHANGED <<otp, flash, backup>>

-----------------------------------------------------------------------------
(***************************************************************************)
(* Power, boot and the flash writes.                                       *)
(***************************************************************************)
Init ==
  /\ otp = KeyBits
  /\ flash = None
  /\ ram = Factory
  /\ pc = "off"
  /\ backup = None

PowerOn ==
  /\ pc = "off"
  /\ pc' = "boot"
  /\ UNCHANGED <<otp, flash, ram, backup>>

\* SG_INIT runs applet_manager_init again, at any time the gateway is idle.
Reinit ==
  /\ pc = "idle"
  /\ pc' = "boot"
  /\ UNCHANGED <<otp, flash, ram, backup>>

\* Mutation: the check of is_master_key_written is dropped.
ProvisionAgain ==
  /\ pc = "boot"
  /\ \E k \in RandomKeys : otp' = otp \cap k
  /\ UNCHANGED <<flash, ram, pc, backup>>

\* otp_write_new_master_key, called while loading.
Provision ==
  /\ pc = "boot"
  /\ ~Written
  /\ \E k \in RandomKeys : otp' = otp \cap k
  /\ UNCHANGED <<flash, ram, pc, backup>>

\* load_from_flash: a package that authenticates replaces the cache, anything
\* else is taken for a new device and overwritten.
LoadStored ==
  /\ pc = "boot"
  /\ Written
  /\ PackageOpens
  /\ ram' = flash.image
  /\ pc' = "idle"
  /\ UNCHANGED <<otp, flash, backup>>

\* Mutation: a boot that starts over instead of saving.
LoadFactoryAgain ==
  /\ pc = "boot"
  /\ Written
  /\ ~PackageOpens
  /\ ram' = Factory
  /\ UNCHANGED <<otp, flash, pc, backup>>

LoadFactory ==
  /\ pc = "boot"
  /\ Written
  /\ ~PackageOpens
  /\ Save(Factory)

\* Mutation: the sector behind is erased too, since the package reaches into it.
EraseSectors ==
  /\ pc = "erase"
  /\ flash' = None
  /\ otp' = IF Spills THEN KeyBits ELSE otp
  /\ pc' = "program"
  /\ UNCHANGED <<ram, backup>>

\* flash_range_erase
EraseSector ==
  /\ pc = "erase"
  /\ flash' = None
  /\ pc' = "program"
  /\ UNCHANGED <<otp, ram, backup>>

\* flash_range_program; a package that does not fit runs on into the OTP
\* sector, clears key bits, and survives only where it cleared nothing it needed.
ProgramPackage ==
  /\ pc = "program"
  /\ LET package == [key |-> otp, image |-> ram]
     IN IF Spills
        THEN \E tail \in SUBSET KeyBits :
               /\ otp' = otp \cap tail
               /\ \/ flash' = None
                  \/ tail \subseteq otp /\ flash' = package
        ELSE flash' = package /\ UNCHANGED otp
  /\ pc' = "idle"
  /\ UNCHANGED <<ram, backup>>

\* The cache is lost, and a write that was under way is torn.
PowerLoss ==
  /\ pc # "off"
  /\ pc' = "off"
  /\ ram' = Factory
  /\ flash' \in IF pc = "erase" THEN {flash, None} ELSE {flash}
  /\ \/ UNCHANGED otp
     \/ pc = "boot" /\ ~Written /\ \E k \in RandomKeys : otp' \in {k \cup part : part \in SUBSET KeyBits}
     \/ pc = "program" /\ Spills /\ otp' \in SUBSET otp
  /\ UNCHANGED backup

-----------------------------------------------------------------------------
(***************************************************************************)
(* Operations.  A call that returns false changes nothing and is not a     *)
(* step.                                                                   *)
(***************************************************************************)
\* Mutation: put() takes the first free slot without looking for the name.
PutAppends(n, p) ==
  /\ pc = "idle"
  /\ \E i \in Slots : FirstFree(i) /\ Save([ram EXCEPT !.slots[i] = Seal(Trunc[n], p, 0)])

Put(n, p) ==
  /\ pc = "idle"
  /\ \E i \in Slots :
       /\ \/ FirstHolder(i, n)
          \/ (\A j \in Slots : ~Holds(j, n)) /\ FirstFree(i)
       /\ Save([ram EXCEPT !.slots[i] = Seal(Trunc[n], p, 0)])

\* Mutation: the slot is wiped but stays in use.
DeleteWipes(n) ==
  /\ pc = "idle"
  /\ \E i \in Slots :
       /\ FirstHolder(i, n)
       /\ Save([ram EXCEPT !.slots[i] = [key |-> {}, cred |-> None]])

Delete(n) ==
  /\ pc = "idle"
  /\ \E i \in Slots :
       /\ FirstHolder(i, n)
       /\ Save([ram EXCEPT !.slots[i] = None])

\* Mutation: the call of save_to_flash is forgotten.
UpdateCounterUnsaved(n, c) ==
  /\ pc = "idle"
  /\ \E i \in Slots :
       /\ FirstHolder(i, n)
       /\ ram' = [ram EXCEPT !.slots[i] = Seal(n, @.cred.payload, c)]
  /\ UNCHANGED <<otp, flash, pc, backup>>

UpdateCounter(n, c) ==
  /\ pc = "idle"
  /\ \E i \in Slots :
       /\ FirstHolder(i, n)
       /\ Save([ram EXCEPT !.slots[i] = Seal(n, @.cred.payload, c)])

Reset ==
  /\ pc = "idle"
  /\ Save(Factory)

\* Mutation: the call of save_to_flash is forgotten.
SetPasswordUnsaved(code) ==
  /\ pc = "idle"
  /\ ram' = [ram EXCEPT !.code = code]
  /\ UNCHANGED <<otp, flash, pc, backup>>

SetPassword(code) ==
  /\ pc = "idle"
  /\ Save([ram EXCEPT !.code = code])

Export ==
  /\ pc = "idle"
  /\ backup' = ram
  /\ UNCHANGED <<otp, flash, ram, pc>>

Import(image) ==
  /\ pc = "idle"
  /\ Save(image)

-----------------------------------------------------------------------------
Firmware == Provision \/ LoadStored \/ LoadFactory \/ EraseSector \/ ProgramPackage

Caller ==
  \/ \E n \in Names, p \in Payloads : Put(n, p)
  \/ \E n \in Names : Delete(n)
  \/ \E n \in Names, c \in 0..MaxCounter : UpdateCounter(n, c)
  \/ \E code \in AccessCodes : SetPassword(code)
  \/ \E image \in ForeignBackups \cup ({backup} \ {None}) : Import(image)
  \/ Reset
  \/ Export
  \/ Reinit

Next == Firmware \/ Caller \/ PowerOn \/ PowerLoss

Spec == Init /\ [][Next]_vars

\* The firmware runs on by itself for as long as it has power.
FairSpec == Spec /\ WF_vars(Firmware)

-----------------------------------------------------------------------------
(***************************************************************************)
(* Properties.                                                             *)
(***************************************************************************)

\* Every variable has its type.
TypeOK ==
  /\ otp \in SUBSET KeyBits
  /\ flash \in Package \cup {None}
  /\ ram \in Image
  /\ pc \in {"off", "boot", "idle", "erase", "program"}
  /\ backup \in Image \cup {None}

\* Whatever mixture of operations, restarts and power losses came before, a
\* store that waits for a call has on flash, under the key a restart will
\* read, exactly what it has in RAM: no operation forgets to save, none is
\* lost by the next load_from_flash.  A package that runs on into the OTP
\* sector may be lost or unreadable, but never is another one than that.
IdleIsDurable ==
  pc = "idle" => /\ flash # None => flash.image = ram
                 /\ ~Spills => flash = [key |-> otp, image |-> ram]

\* A used slot can be opened with the master key, unless it came in a backup of
\* another device or, where the package does not fit, was sealed before a save
\* cleared bits of the key: for no other reason do the scans of put, get and
\* delete skip a credential, and none is sealed under a key that was not drawn.
Readable(image, key) ==
  \A i \in Slots :
    image.slots[i] # None /\ image.slots[i].key # key
      => \/ Spills /\ key \subseteq image.slots[i].key
         \/ \E foreign \in ForeignBackups, j \in Slots : image.slots[i] = foreign.slots[j]
SlotsReadable == Readable(ram, otp)

\* Two slots never hold the same name, unless put() was able to make the name
\* by cutting off a longer one (strcmp compares the uncut name).
NamesUnique ==
  \A n \in Names, i, j \in Slots :
    Holds(i, n) /\ Holds(j, n) => i = j \/ \E long \in Names \ {n} : Trunc[long] = n

\* Outside boot the master key area never looks unwritten, so that no
\* operation provisions a second key over the first, whatever a package that
\* ran on into the OTP sector did to it.
KeyProvisioned == pc \notin {"off", "boot"} => Written

\* The master key is written once and never changes again
\* (docs/SECURITY_IMPLEMENTATION.md, section 3).
MasterKeyPermanent == [][Written => otp' = otp]_vars

\* What holds of the key in every layout: once it is written, no call, no load
\* and no restart changes it; a package that does not fit does, while it is
\* programmed, and can only clear bits, so that the key never looks unwritten.
KeyChangesOnlyBySpill ==
  [][Written => otp' = otp \/ (Spills /\ pc = "program" /\ otp' \subseteq otp)]_vars

\* A credential that put() accepted is found under the name it was stored
\* with (oath_storage.h: "Find a credential by name").
PutIsFindable ==
  [][\A n \in Names, p \in Payloads :
       Put(n, p) => \E i \in Slots : Holds(i, n)' /\ ram'.slots[i].cred.payload = p]_vars

\* A device that keeps its power always comes back to serving calls: neither
\* provisioning nor the factory path of load_from_flash can loop.
KeepsServing == []<>(pc = "idle") \/ []<>(pc = "off")

\* The inductive invariant behind SlotsReadable and IdleIsDurable, for every
\* layout: nothing exists before the key, and what is in RAM, on flash or in the
\* last backup can be read as far as the key is still the one it was sealed under.
StorageInv ==
  /\ TypeOK
  /\ KeyProvisioned
  /\ ~Written => ram = Factory /\ flash = None /\ backup = None
  /\ IdleIsDurable
  /\ SlotsReadable
  /\ flash # None => Readable(flash.image, otp)
  /\ backup # None => Readable(backup, otp)

\* Where no backup of another device comes in, that is to say that key bits are
\* only cleared: a slot that does not open any more never will.
SealedBefore(image) == \A i \in Slots : image.slots[i] # None => otp \subseteq image.slots[i].key

\* Another name is cut off to n.
CutOff(n) == \E long \in Names \ {n} : Trunc[long] = n

\* Slots of an image that are sealed under one key have different names.
SameName(image, i, j) ==
  /\ image.slots[i] # None /\ image.slots[j] # None
  /\ image.slots[i].key = image.slots[j].key
  /\ image.slots[i].cred.name = image.slots[j].cred.name
UniqueIn(image) ==
  \A i, j \in Slots : SameName(image, i, j) => i = j \/ CutOff(image.slots[i].cred.name)

\* The inductive invariant behind NamesUnique.
UniqueInv ==
  /\ TypeOK
  /\ UniqueIn(ram)
  /\ flash # None => UniqueIn(flash.image)
  /\ backup # None => UniqueIn(backup)

=============================================================================
