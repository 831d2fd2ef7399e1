------------------------------ MODULE OathProofs ------------------------------
(***************************************************************************)
(* Theorems about the credential store (OathStorage), the applet on top of *)
(* it (OathApplet) and the dictionary it implements (OathStorageVault),    *)
(* for every number of slots, set of names, key length and history of      *)
(* restarts and power losses.                                              *)
(***************************************************************************)
EXTENDS OathApplet, OathStorageVault, Integers, FiniteSetTheorems, TLAPS

\* A flash image that gets a new slot content is still an image.
LEMMA SlotChangeType ==
  ASSUME NEW image \in Image, NEW i \in Slots, NEW s \in Sealed \cup {None}
  PROVE  [image EXCEPT !.slots[i] = s] \in Image
BY DEF Image

LEMMA FactoryType == Factory \in Image
BY DEF Factory, Image

LEMMA SealType ==
  ASSUME otp \in SUBSET KeyBits, NEW n \in Names, NEW p \in Payloads, NEW c \in Nat
  PROVE  Seal(n, p, c) \in Sealed
BY DEF Seal, Sealed, Credential

\* What a slot that opens contains.
LEMMA OpenSlot ==
  ASSUME TypeOK, NEW i \in Slots, Opens(i)
  PROVE  ram.slots[i] \in Sealed /\ ram.slots[i].key = otp /\ ram.slots[i].cred \in Credential
BY DEF TypeOK, Opens, Image, Sealed

\* Every call that changes the cache enters a save of a well-formed image.
LEMMA CallerSaves ==
  ASSUME TypeOK, Caller
  PROVE  \/ \E image \in Image : Save(image)
         \/ Export
         \/ Reinit
<1>1. ASSUME NEW n \in Names, NEW p \in Payloads, Put(n, p)
      PROVE  \E image \in Image : Save(image)
  <2>1. PICK i \in Slots : Save([ram EXCEPT !.slots[i] = Seal(Trunc[n], p, 0)])
    BY <1>1 DEF Put
  <2>2. Seal(Trunc[n], p, 0) \in Sealed
    BY SealType, StorageAssumption DEF TypeOK
  <2>3. QED
    BY <2>1, <2>2, SlotChangeType DEF TypeOK
<1>2. ASSUME NEW n \in Names, Delete(n)
      PROVE  \E image \in Image : Save(image)
  BY <1>2, SlotChangeType DEF Delete, TypeOK
<1>3. ASSUME NEW n \in Names, NEW c \in 0..MaxCounter, UpdateCounter(n, c)
      PROVE  \E image \in Image : Save(image)
  <2>1. PICK i \in Slots : /\ FirstHolder(i, n)
                           /\ Save([ram EXCEPT !.slots[i] = Seal(n, @.cred.payload, c)])
    BY <1>3 DEF UpdateCounter
  <2>2. ram.slots[i].cred.payload \in Payloads
    BY <2>1, OpenSlot DEF FirstHolder, Holds, Credential
  <2>3. Seal(n, ram.slots[i].cred.payload, c) \in Sealed
    BY <2>2, SealType DEF TypeOK
  <2>4. [ram EXCEPT !.slots[i] = Seal(n, ram.slots[i].cred.payload, c)] \in Image
    BY <2>3, SlotChangeType DEF TypeOK
  <2>5. QED
    BY <2>1, <2>4
<1>4. ASSUME NEW code \in AccessCodes, SetPassword(code)
      PROVE  \E image \in Image : Save(image)
  BY <1>4 DEF SetPassword, TypeOK, Image
<1>5. ASSUME NEW image \in ForeignBackups \cup ({backup} \ {None}), Import(image)
      PROVE  \E im \in Image : Save(im)
  BY <1>5, StorageAssumption DEF Import, TypeOK
<1>6. ASSUME Reset
      PROVE  \E image \in Image : Save(image)
  BY <1>6, FactoryType DEF Reset
<1>7. QED
  BY <1>1, <1>2, <1>3, <1>4, <1>5, <1>6 DEF Caller

LEMMA InitType == Init => TypeOK
BY FactoryType DEF Init, TypeOK

LEMMA NextType == TypeOK /\ [Next]_vars => TypeOK'
<1> SUFFICES ASSUME TypeOK, [Next]_vars
             PROVE  TypeOK'
  OBVIOUS
<1> USE DEF TypeOK
<1>1. ASSUME NEW image \in Image, Save(image)
      PROVE  TypeOK'
  BY <1>1 DEF Save
<1>2. CASE Caller
  BY <1>1, <1>2, CallerSaves DEF Export, Reinit
<1>3. CASE Provision
  BY <1>3 DEF Provision
<1>4. CASE LoadStored
  BY <1>4, StorageAssumption DEF LoadStored, PackageOpens, Package
<1>5. CASE LoadFactory
  BY <1>1, <1>5, FactoryType DEF LoadFactory
<1>6. CASE EraseSector
  BY <1>6 DEF EraseSector
<1>7. CASE ProgramPackage
  <2>1. [key |-> otp, image |-> ram] \in Package
    BY DEF Package
  <2>2. otp' \in SUBSET KeyBits /\ flash' \in Package \cup {None}
    BY <1>7, <2>1 DEF ProgramPackage
  <2>3. QED
    BY <1>7, <2>2 DEF ProgramPackage
<1>8. CASE PowerOn
  BY <1>8 DEF PowerOn
<1>9. CASE PowerLoss
  <2>1. otp' \in SUBSET KeyBits
    BY <1>9, StorageAssumption DEF PowerLoss
  <2>2. flash' \in Package \cup {None}
    BY <1>9 DEF PowerLoss
  <2>3. QED
    BY <1>9, <2>1, <2>2, FactoryType DEF PowerLoss
<1>10. CASE UNCHANGED vars
  BY <1>10 DEF vars
<1>11. QED
  BY <1>2, <1>3, <1>4, <1>5, <1>6, <1>7, <1>8, <1>9, <1>10 DEF Next, Firmware

\* Every reachable state is well typed.
THEOREM TypeCorrect == Spec => []TypeOK
<1>1. QED
  BY InitType, NextType, PTL DEF Spec

-----------------------------------------------------------------------------
(***************************************************************************)
(* The master key.                                                         *)
(***************************************************************************)

LEMMA KeyStep ==
  ASSUME TypeOK, [Next]_vars, Written
  PROVE  otp' = otp \/ (Spills /\ pc = "program" /\ otp' \subseteq otp)
<1>1. CASE ProgramPackage
  BY <1>1 DEF ProgramPackage
<1>2. CASE PowerLoss
  BY <1>2 DEF PowerLoss
<1>3. CASE ~ProgramPackage /\ ~PowerLoss
  BY <1>3 DEF Next, Firmware, Caller, vars, Provision, LoadStored, LoadFactory, EraseSector,
     PowerOn, Put, Delete, UpdateCounter, Reset, SetPassword, Export, Import, Reinit, Save
<1> QED BY <1>1, <1>2, <1>3

\* Once written, the master key changes only while a package that does not fit
\* its sector is programmed, and then only loses bits: not by a call, not by a
\* load, not by a torn write.  Where the package fits, it is permanent.
THEOREM KeyPermanence ==
  Spec => KeyChangesOnlyBySpill /\ (~Spills => MasterKeyPermanent)
<1>1. TypeOK /\ [Next]_vars
        => [Written => otp' = otp \/ (Spills /\ pc = "program" /\ otp' \subseteq otp)]_vars
  BY KeyStep
<1>2. Spec => KeyChangesOnlyBySpill
  BY <1>1, TypeCorrect, PTL DEF Spec, KeyChangesOnlyBySpill
<1>3. ASSUME ~Spills
      PROVE  Spec => MasterKeyPermanent
  <2>1. TypeOK /\ [Next]_vars => [Written => otp' = otp]_vars
    BY <1>3, KeyStep
  <2> QED BY <2>1, TypeCorrect, PTL DEF Spec, MasterKeyPermanent
<1> QED BY <1>2, <1>3

\* Bits of the key area are only ever cleared, so a written key stays written,
\* in a layout that spills too.
LEMMA KeyShrinks ==
  ASSUME TypeOK, [Next]_vars
  PROVE  otp' \subseteq otp
<1>1. CASE Provision
  BY <1>1 DEF Provision
<1>2. CASE ProgramPackage
  BY <1>2 DEF ProgramPackage
<1>3. CASE PowerLoss
  <2>1. CASE Written \/ pc # "boot"
    BY <1>3, <2>1 DEF PowerLoss
  <2>2. CASE ~Written
    BY <1>3, <2>2, NextType DEF Written, TypeOK
  <2> QED BY <2>1, <2>2
<1>4. CASE ~Provision /\ ~ProgramPackage /\ ~PowerLoss
  BY <1>4 DEF Next, Firmware, Caller, vars, LoadStored, LoadFactory, EraseSector,
     PowerOn, Put, Delete, UpdateCounter, Reset, SetPassword, Export, Import, Reinit, Save
<1> QED BY <1>1, <1>2, <1>3, <1>4

LEMMA WrittenStep ==
  ASSUME TypeOK, [Next]_vars, Written
  PROVE  Written'
BY KeyShrinks DEF Written, TypeOK

LEMMA ProvisionedStep == TypeOK /\ KeyProvisioned /\ [Next]_vars => KeyProvisioned'
<1> SUFFICES ASSUME TypeOK, KeyProvisioned, [Next]_vars, pc' \notin {"off", "boot"}
             PROVE  Written'
  BY DEF KeyProvisioned
<1>1. CASE Written
  BY <1>1, WrittenStep
<1>2. CASE ~Written
  <2>1. pc \in {"off", "boot"}
    BY <1>2 DEF KeyProvisioned
  <2>2. ~LoadStored /\ ~LoadFactory
    BY <1>2 DEF LoadStored, LoadFactory
  <2>3. pc' \in {"off", "boot"}
    BY <2>1, <2>2 DEF Next, Firmware, Caller, vars, Provision, EraseSector, ProgramPackage,
       PowerOn, PowerLoss, Put, Delete, UpdateCounter, Reset, SetPassword, Export, Import, Reinit
  <2>4. QED
    BY <2>3
<1>3. QED
  BY <1>1, <1>2

\* No operation outside boot ever finds the key area blank.
THEOREM KeyStaysProvisioned == Spec => []KeyProvisioned
<1>1. Init => KeyProvisioned
  BY DEF Init, KeyProvisioned
<1> QED BY <1>1, ProvisionedStep, TypeCorrect, PTL DEF Spec

-----------------------------------------------------------------------------
(***************************************************************************)
(* Durability and readability, by the inductive invariant StorageInv.      *)
(***************************************************************************)

LEMMA FactoryReadable == ASSUME NEW key PROVE Readable(Factory, key)
BY DEF Readable, Factory

\* Sealing a credential into one slot keeps an image readable.
LEMMA SealReadable ==
  ASSUME NEW image \in Image, Readable(image, otp), NEW i \in Slots,
         NEW n, NEW p, NEW c
  PROVE  Readable([image EXCEPT !.slots[i] = Seal(n, p, c)], otp)
BY DEF Readable, Image, Seal

LEMMA ClearReadable ==
  ASSUME NEW image \in Image, Readable(image, otp), NEW i \in Slots
  PROVE  Readable([image EXCEPT !.slots[i] = None], otp)
BY DEF Readable, Image

LEMMA ForeignReadable ==
  ASSUME NEW image \in ForeignBackups, NEW key
  PROVE  Readable(image, key)
BY DEF Readable

\* A key that loses bits leaves its slots among those it explains.
LEMMA StillReadable ==
  ASSUME NEW image, NEW key, NEW less, Readable(image, key),
         less = key \/ (Spills /\ less \subseteq key)
  PROVE  Readable(image, less)
BY DEF Readable

LEMMA ReadableSealed ==
  ASSUME ForeignBackups = {}, NEW image, Readable(image, otp)
  PROVE  SealedBefore(image)
BY DEF Readable, SealedBefore

\* Every call that changes the cache enters a save of a readable image.
LEMMA CallerSavesReadable ==
  ASSUME StorageInv, Caller
  PROVE  \/ \E image : Readable(image, otp) /\ Save(image)
         \/ Export
         \/ Reinit
<1> USE DEF StorageInv, SlotsReadable, TypeOK
<1>1. ASSUME NEW n \in Names, NEW p \in Payloads, Put(n, p)
      PROVE  \E image : Readable(image, otp) /\ Save(image)
  BY <1>1, SealReadable DEF Put
<1>2. ASSUME NEW n \in Names, Delete(n)
      PROVE  \E image : Readable(image, otp) /\ Save(image)
  BY <1>2, ClearReadable DEF Delete
<1>3. ASSUME NEW n \in Names, NEW c \in 0..MaxCounter, UpdateCounter(n, c)
      PROVE  \E image : Readable(image, otp) /\ Save(image)
  <2>1. PICK i \in Slots : Save([ram EXCEPT !.slots[i] = Seal(n, ram.slots[i].cred.payload, c)])
    BY <1>3 DEF UpdateCounter
  <2>2. Readable([ram EXCEPT !.slots[i] = Seal(n, ram.slots[i].cred.payload, c)], otp)
    BY SealReadable
  <2>3. QED
    BY <2>1, <2>2
<1>4. ASSUME NEW code \in AccessCodes, SetPassword(code)
      PROVE  \E image : Readable(image, otp) /\ Save(image)
  <2>1. Readable([ram EXCEPT !.code = code], otp)
    BY DEF Readable, Image
  <2>2. QED
    BY <1>4, <2>1 DEF SetPassword
<1>5. ASSUME NEW image \in ForeignBackups \cup ({backup} \ {None}), Import(image)
      PROVE  \E im : Readable(im, otp) /\ Save(im)
  BY <1>5, ForeignReadable DEF Import
<1>6. ASSUME Reset
      PROVE  \E image : Readable(image, otp) /\ Save(image)
  BY <1>6, FactoryReadable DEF Reset
<1>7. QED
  BY <1>1, <1>2, <1>3, <1>4, <1>5, <1>6 DEF Caller

LEMMA InitInv == Init => StorageInv
<1>1. Init => ~Written
  BY DEF Init, Written
<1>2. QED
  BY <1>1, InitType, FactoryReadable DEF Init, StorageInv, KeyProvisioned, IdleIsDurable,
                                         SlotsReadable

LEMMA StepInv == StorageInv /\ [Next]_vars => StorageInv'
<1> SUFFICES ASSUME StorageInv, [Next]_vars PROVE StorageInv'
  OBVIOUS
<1>1. /\ TypeOK /\ TypeOK' /\ KeyProvisioned' /\ (Written => Written')
      /\ Written => otp' = otp \/ (Spills /\ otp' \subseteq otp)
  BY NextType, ProvisionedStep, WrittenStep, KeyStep DEF StorageInv
\* Before the key is written there is nothing, and nothing comes.
<1>2. ~Written => ram' = Factory /\ flash' = None /\ backup' = None
  <2> SUFFICES ASSUME ~Written PROVE ram' = Factory /\ flash' = None /\ backup' = None
    OBVIOUS
  <2>1. /\ pc \in {"off", "boot"}
        /\ ram = Factory /\ flash = None /\ backup = None
    BY DEF StorageInv, KeyProvisioned
  <2> QED BY <2>1 DEF Next, Firmware, Caller, vars, Provision, LoadStored, LoadFactory, EraseSector,
          ProgramPackage, PowerOn, PowerLoss, Put, Delete, UpdateCounter, Reset, SetPassword,
          Export, Import, Reinit
\* A save ends, and a load begins, with the same image in RAM and on flash.
<1>3. IdleIsDurable'
  <2>1. CASE LoadStored
    <3>1. flash \in Package /\ flash.key = otp
      BY <1>1, <2>1 DEF LoadStored, PackageOpens, TypeOK
    <3>2. flash = [key |-> otp, image |-> flash.image]
      BY <3>1 DEF Package
    <3> QED BY <2>1, <3>2 DEF LoadStored, IdleIsDurable
  <2>2. CASE ProgramPackage
    <3>1. flash' \in {None, [key |-> otp, image |-> ram]} /\ ram' = ram
      BY <2>2 DEF ProgramPackage
    <3>2. ~Spills => flash' = [key |-> otp, image |-> ram] /\ otp' = otp
      BY <2>2 DEF ProgramPackage
    <3> QED BY <3>1, <3>2 DEF IdleIsDurable
  <2>3. CASE Export \/ UNCHANGED vars
    BY <2>3 DEF Export, vars, StorageInv, IdleIsDurable
  <2>4. CASE pc' # "idle"
    BY <2>4 DEF IdleIsDurable
  <2> QED BY <2>1, <2>2, <2>3, <2>4 DEF Next, Firmware, Caller, Provision, LoadFactory, EraseSector,
          PowerOn, PowerLoss, Put, Delete, UpdateCounter, Reset, SetPassword, Import, Reinit, Save
\* Nothing comes but what the key opened just now, or another device exported.
<1>4. ASSUME Written
      PROVE  /\ SlotsReadable'
             /\ flash' # None => Readable(flash'.image, otp')
             /\ backup' # None => Readable(backup', otp')
  <2>1. /\ Readable(ram, otp) /\ Readable(Factory, otp)
        /\ flash # None => Readable(flash.image, otp)
        /\ backup # None => Readable(backup, otp)
    BY FactoryReadable DEF StorageInv, SlotsReadable
  <2>2. Readable(ram', otp)
    <3>1. CASE Caller
      BY <2>1, <3>1, CallerSavesReadable DEF Save, Export, Reinit
    <3>2. CASE LoadStored
      BY <2>1, <3>2 DEF LoadStored, PackageOpens
    <3>3. CASE LoadFactory \/ PowerLoss
      BY <2>1, <3>3 DEF LoadFactory, PowerLoss, Save
    <3>4. CASE UNCHANGED ram
      BY <2>1, <3>4
    <3> QED BY <3>1, <3>2, <3>3, <3>4 DEF Next, Firmware, Provision, EraseSector, ProgramPackage,
            PowerOn, vars
  <2>3. flash' # None => Readable(flash'.image, otp)
    <3>1. CASE ProgramPackage
      <4>1. flash' \in {None, [key |-> otp, image |-> ram]}
        BY <3>1 DEF ProgramPackage
      <4> QED BY <2>1, <4>1
    <3>2. CASE flash' \in {flash, None}
      BY <2>1, <3>2
    <3> QED BY <3>1, <3>2 DEF Next, Firmware, Caller, vars, Provision, LoadStored, LoadFactory,
            EraseSector, PowerOn, PowerLoss, Put, Delete, UpdateCounter, Reset, SetPassword,
            Export, Import, Reinit, Save
  <2>4. backup' # None => Readable(backup', otp)
    BY <2>1 DEF Next, Firmware, Caller, vars, Provision, LoadStored, LoadFactory, EraseSector,
       ProgramPackage, PowerOn, PowerLoss, Put, Delete, UpdateCounter, Reset, SetPassword,
       Export, Import, Reinit, Save
  <2>5. otp' = otp \/ (Spills /\ otp' \subseteq otp)
    BY <1>1, <1>4
  <2> QED BY <2>2, <2>3, <2>4, <2>5, StillReadable DEF SlotsReadable
<1>5. CASE Written
  BY <1>1, <1>3, <1>4, <1>5 DEF StorageInv
<1>6. CASE ~Written
  BY <1>1, <1>2, <1>3, <1>6, FactoryReadable DEF StorageInv, SlotsReadable
<1> QED BY <1>5, <1>6

LEMMA StorageInvariant == Spec => []StorageInv
<1> QED BY InitInv, StepInv, PTL DEF Spec

\* Whenever the store waits for a call, a restart would bring back exactly the
\* contents it has in RAM; where the package does not fit its sector, those or
\* none.
THEOREM Durability == Spec => []IdleIsDurable
<1>1. StorageInv => IdleIsDurable
  BY DEF StorageInv
<1> QED BY <1>1, StorageInvariant, PTL

\* In every layout each used slot opens under the master key, came from another
\* device, or was sealed before the key lost bits.
THEOREM Readability == Spec => []SlotsReadable
<1>1. StorageInv => SlotsReadable
  BY DEF StorageInv
<1> QED BY <1>1, StorageInvariant, PTL

-----------------------------------------------------------------------------
(***************************************************************************)
(* Names.                                                                  *)
(***************************************************************************)

LEMMA FactoryUnique == UniqueIn(Factory)
BY DEF UniqueIn, SameName, Factory

\* The slot choice of put(): the old credential of that name or a free slot.
LEMMA PutUnique ==
  ASSUME TypeOK, UniqueIn(ram), NEW n \in Names, NEW p \in Payloads, NEW i \in Slots,
         FirstHolder(i, n) \/ (\A j \in Slots : ~Holds(j, n))
  PROVE  UniqueIn([ram EXCEPT !.slots[i] = Seal(Trunc[n], p, 0)])
<1> DEFINE new == [ram EXCEPT !.slots[i] = Seal(Trunc[n], p, 0)]
<1>1. /\ new.slots[i] = Seal(Trunc[n], p, 0)
      /\ \A j \in Slots \ {i} : new.slots[j] = ram.slots[j]
  BY DEF TypeOK, Image
<1>2. Seal(Trunc[n], p, 0).key = otp /\ Seal(Trunc[n], p, 0).cred.name = Trunc[n]
  BY DEF Seal
<1>3. ASSUME NEW j \in Slots \ {i}, ram.slots[j] # None, ram.slots[j].key = otp,
             ram.slots[j].cred.name = Trunc[n]
      PROVE  CutOff(Trunc[n])
  <2>1. CASE Trunc[n] # n
    BY <2>1 DEF CutOff
  <2>2. CASE Trunc[n] = n
    <3>1. Holds(j, n)
      BY <1>3, <2>2 DEF Holds, Opens
    <3>2. Holds(i, n)
      BY <3>1 DEF FirstHolder
    <3>3. SameName(ram, j, i)
      BY <3>1, <3>2 DEF Holds, Opens, SameName
    <3>4. QED
      BY <1>3, <3>3 DEF UniqueIn
  <2>3. QED
    BY <2>1, <2>2
<1>4. SUFFICES ASSUME NEW a \in Slots, NEW b \in Slots, SameName(new, a, b), a # b
               PROVE  CutOff(new.slots[a].cred.name)
  BY DEF UniqueIn
<1>5. CASE a = i
  BY <1>1, <1>2, <1>3, <1>4, <1>5 DEF SameName
<1>6. CASE b = i
  BY <1>1, <1>2, <1>3, <1>4, <1>6 DEF SameName
<1>7. CASE a # i /\ b # i
  BY <1>1, <1>4, <1>7 DEF SameName, UniqueIn
<1>8. QED
  BY <1>5, <1>6, <1>7

\* Putting another counter into a slot keeps its key and its name.
LEMMA CounterUnique ==
  ASSUME TypeOK, UniqueIn(ram), NEW n \in Names, NEW p, NEW c, NEW i \in Slots, Holds(i, n)
  PROVE  UniqueIn([ram EXCEPT !.slots[i] = Seal(n, p, c)])
<1> DEFINE new == [ram EXCEPT !.slots[i] = Seal(n, p, c)]
<1>1. /\ new.slots[i] = Seal(n, p, c)
      /\ \A j \in Slots \ {i} : new.slots[j] = ram.slots[j]
  BY DEF TypeOK, Image
<1>2. Seal(n, p, c).key = otp /\ Seal(n, p, c).cred.name = n
  BY DEF Seal
<1>3. ram.slots[i] # None /\ ram.slots[i].key = otp /\ ram.slots[i].cred.name = n
  BY DEF Holds, Opens
<1>4. SUFFICES ASSUME NEW a \in Slots, NEW b \in Slots, SameName(new, a, b)
               PROVE  a = b \/ CutOff(new.slots[a].cred.name)
  BY DEF UniqueIn
<1>5. SameName(ram, a, b) /\ ram.slots[a].cred.name = new.slots[a].cred.name
  BY <1>1, <1>2, <1>3, <1>4 DEF SameName
<1>6. QED
  BY <1>5 DEF UniqueIn

LEMMA ClearUnique ==
  ASSUME NEW image \in Image, UniqueIn(image), NEW i \in Slots
  PROVE  UniqueIn([image EXCEPT !.slots[i] = None])
BY DEF UniqueIn, SameName, Image

LEMMA CallerSavesUnique ==
  ASSUME UniqueInv, Caller, \A image \in ForeignBackups : UniqueIn(image)
  PROVE  \/ \E image : UniqueIn(image) /\ Save(image)
         \/ Export
         \/ Reinit
<1> USE DEF UniqueInv
<1>1. ASSUME NEW n \in Names, NEW p \in Payloads, Put(n, p)
      PROVE  \E image : UniqueIn(image) /\ Save(image)
  BY <1>1, PutUnique DEF Put
<1>2. ASSUME NEW n \in Names, Delete(n)
      PROVE  \E image : UniqueIn(image) /\ Save(image)
  BY <1>2, ClearUnique DEF Delete, TypeOK
<1>3. ASSUME NEW n \in Names, NEW c \in 0..MaxCounter, UpdateCounter(n, c)
      PROVE  \E image : UniqueIn(image) /\ Save(image)
  <2>1. PICK i \in Slots : /\ Holds(i, n)
                           /\ Save([ram EXCEPT !.slots[i] = Seal(n, ram.slots[i].cred.payload, c)])
    BY <1>3 DEF UpdateCounter, FirstHolder
  <2>2. UniqueIn([ram EXCEPT !.slots[i] = Seal(n, ram.slots[i].cred.payload, c)])
    BY <2>1, CounterUnique
  <2>3. QED
    BY <2>1, <2>2
<1>4. ASSUME NEW code \in AccessCodes, SetPassword(code)
      PROVE  \E image : UniqueIn(image) /\ Save(image)
  <2>1. UniqueIn([ram EXCEPT !.code = code])
    BY DEF UniqueIn, SameName, TypeOK, Image
  <2>2. QED
    BY <1>4, <2>1 DEF SetPassword
<1>5. ASSUME NEW image \in ForeignBackups \cup ({backup} \ {None}), Import(image)
      PROVE  \E im : UniqueIn(im) /\ Save(im)
  BY <1>5 DEF Import
<1>6. ASSUME Reset
      PROVE  \E image : UniqueIn(image) /\ Save(image)
  BY <1>6, FactoryUnique DEF Reset
<1>7. QED
  BY <1>1, <1>2, <1>3, <1>4, <1>5, <1>6 DEF Caller

LEMMA UniqueStep ==
  ASSUME UniqueInv, [Next]_vars, \A image \in ForeignBackups : UniqueIn(image)
  PROVE  UniqueInv'
<1>1. TypeOK'
  BY NextType DEF UniqueInv
<1>2. ASSUME NEW image, UniqueIn(image), Save(image)
      PROVE  UniqueInv'
  BY <1>1, <1>2 DEF Save, UniqueInv, UniqueIn, SameName
<1>3. CASE Caller
  BY <1>1, <1>2, <1>3, CallerSavesUnique DEF Export, Reinit, UniqueInv, UniqueIn, SameName
<1>4. CASE LoadFactory
  BY <1>2, <1>4, FactoryUnique DEF LoadFactory
<1>5. CASE LoadStored
  BY <1>1, <1>5 DEF LoadStored, PackageOpens, UniqueInv, UniqueIn, SameName
<1>6. CASE ProgramPackage
  BY <1>1, <1>6 DEF ProgramPackage, UniqueInv, UniqueIn, SameName
<1>7. CASE PowerLoss
  BY <1>1, <1>7, FactoryUnique DEF PowerLoss, UniqueInv, UniqueIn, SameName
<1>8. CASE Provision \/ EraseSector \/ PowerOn \/ UNCHANGED vars
  BY <1>1, <1>8 DEF Provision, EraseSector, PowerOn, vars, UniqueInv, UniqueIn, SameName
<1>9. QED
  BY <1>3, <1>4, <1>5, <1>6, <1>7, <1>8 DEF Next, Firmware

\* put() never makes a second credential of a name, whatever was deleted,
\* restored or lost before; names that a longer name is cut off to are the
\* exception.  Other devices are taken to run the same firmware.
THEOREM UniqueNames ==
  ASSUME \A image \in ForeignBackups : UniqueIn(image)
  PROVE  Spec => []NamesUnique
<1>1. Init => UniqueInv
  BY InitType, FactoryUnique DEF Init, UniqueInv
<1>2. UniqueInv /\ [Next]_vars => UniqueInv'
  BY UniqueStep
<1>3. UniqueInv => NamesUnique
  BY DEF UniqueInv, UniqueIn, SameName, NamesUnique, Holds, Opens, CutOff
<1>4. QED
  BY <1>1, <1>2, <1>3, PTL DEF Spec

\* A credential that put() accepted is found again under its whole name with
\* its new secret, whichever slot it took and under whichever key: names must
\* be short enough that none is cut off.
THEOREM PutFindable ==
  ASSUME \A n \in Names : Trunc[n] = n
  PROVE  Spec => PutIsFindable
<1>1. ASSUME TypeOK, NEW n \in Names, NEW p \in Payloads, Put(n, p)
      PROVE  \E i \in Slots : Holds(i, n)' /\ ram'.slots[i].cred.payload = p
  <2>1. PICK i \in Slots : Save([ram EXCEPT !.slots[i] = Seal(Trunc[n], p, 0)])
    BY <1>1 DEF Put
  <2>2. ram'.slots[i] = Seal(n, p, 0) /\ otp' = otp
    BY <1>1, <2>1 DEF Save, TypeOK, Image
  <2>3. Seal(n, p, 0) # None
    BY <1>1, SealType, StorageAssumption DEF TypeOK
  <2>4. Holds(i, n)' /\ ram'.slots[i].cred.payload = p
    BY <2>2, <2>3 DEF Holds, Opens, Seal
  <2> QED BY <2>4
<1>2. TypeOK => [\A n \in Names, p \in Payloads :
                   Put(n, p) => \E i \in Slots : Holds(i, n)' /\ ram'.slots[i].cred.payload = p]_vars
  BY <1>1
<1> QED BY <1>2, TypeCorrect, PTL DEF Spec, PutIsFindable

-----------------------------------------------------------------------------
(***************************************************************************)
(* The applet.                                                             *)
(***************************************************************************)

LEMMA OneFirstHolder ==
  ASSUME NEW i \in Slots, NEW j \in Slots, NEW n, FirstHolder(i, n), FirstHolder(j, n)
  PROVE  i = j
<1>1. i \in Int /\ j \in Int
  BY StorageAssumption DEF Slots
<1>2. ~ (i < j) /\ ~ (j < i)
  BY DEF FirstHolder
<1> QED BY <1>1, <1>2

\* What CALCULATE does before the save: the counter of the credential it found
\* has moved on in RAM, and the code of the old counter waits.
LEMMA HotpStep ==
  ASSUME TypeOK, CalculateHotp
  PROVE  \E i \in Slots, touch \in BOOLEAN :
           LET cred == ram.slots[i].cred
           IN  /\ FirstHolder(i, TestName) /\ Holds(i, TestName)
               /\ cred \in Credential /\ cred.name = TestName
               /\ cred.counter \in Nat /\ cred.counter + 1 \in 0..MaxCounter
               /\ UpdateCounter(TestName, cred.counter + 1)
               /\ Save([ram EXCEPT !.slots[i] = Seal(TestName, cred.payload, cred.counter + 1)])
               /\ pending' = [cred |-> cred, touch |-> touch]
               /\ UNCHANGED <<selected, reply, spent>>
<1>1. PICK i \in Slots, touch \in BOOLEAN :
        /\ FirstHolder(i, TestName)
        /\ ram.slots[i].cred.counter < MaxCounter
        /\ UpdateCounter(TestName, ram.slots[i].cred.counter + 1)
        /\ pending' = [cred |-> ram.slots[i].cred, touch |-> touch]
        /\ UNCHANGED <<selected, reply, spent>>
  BY DEF CalculateHotp, Usable
<1> DEFINE cred == ram.slots[i].cred
<1>2. Holds(i, TestName) /\ Opens(i) /\ cred.name = TestName
  BY <1>1 DEF FirstHolder, Holds
<1>3. cred \in Credential /\ cred.counter \in Nat
  BY <1>2, OpenSlot DEF Credential
<1>4. cred.counter + 1 \in 0..MaxCounter
  BY <1>1, <1>3, StorageAssumption
<1>5. PICK j \in Slots : /\ FirstHolder(j, TestName)
                         /\ Save([ram EXCEPT !.slots[j] =
                                   Seal(TestName, @.cred.payload, cred.counter + 1)])
  BY <1>1 DEF UpdateCounter
<1>6. i = j
  BY <1>1, <1>5, OneFirstHolder
<1>7. Save([ram EXCEPT !.slots[i] = Seal(TestName, cred.payload, cred.counter + 1)])
  BY <1>5, <1>6
<1> QED BY <1>1, <1>2, <1>3, <1>4, <1>7

\* Whatever the applet does is a step of the store or leaves it alone.
LEMMA AppletStepsStore ==
  ASSUME TypeOK, [AppletNext]_allVars
  PROVE  [Next]_vars
<1>1. CASE CalculateHotp
  BY <1>1, HotpStep, AppletAssumption DEF Next, Caller
<1>2. CASE StoreCalls
  BY <1>2 DEF StoreCalls, Next, Caller
<1>3. CASE Device
  BY <1>3 DEF Device, Next
<1>4. CASE UNCHANGED vars
  BY <1>4
<1> QED BY <1>1, <1>2, <1>3, <1>4 DEF AppletNext, SelectApplet, SelectUnknown, Rejected,
        NotSupported, CalculateAll, List, CalculateFails, CalculateTotp, CalculateAnswer, allVars

LEMMA AnswerType ==
  ASSUME NEW i \in Instructions \cup {"SELECT"}, NEW w \in StatusWords,
         NEW cs \in SUBSET Credential, NEW t \in BOOLEAN, TouchedAnswer(i, w, cs, t)
  PROVE  reply' \in Reply
BY DEF TouchedAnswer, Reply

LEMMA AppletInitType == AppletInit => AppletTypeOK
BY InitType DEF AppletInit, AppletTypeOK, NoReply, Reply, StatusWords

LEMMA AppletNextType == AppletTypeOK /\ [AppletNext]_allVars => AppletTypeOK'
<1> SUFFICES ASSUME AppletTypeOK, [AppletNext]_allVars PROVE AppletTypeOK'
  OBVIOUS
<1>1. TypeOK /\ TypeOK'
  BY AppletStepsStore, NextType DEF AppletTypeOK
<1>2. ASSUME UNCHANGED <<pending, spent>>, selected' \in Applets \cup {None}, reply' \in Reply
      PROVE  AppletTypeOK'
  BY <1>1, <1>2 DEF AppletTypeOK
<1>3. ASSUME NEW applet \in Applets, SelectApplet(applet) PROVE AppletTypeOK'
  BY <1>2, <1>3, AnswerType DEF SelectApplet, Answer, StatusWords
<1>4. CASE SelectUnknown
  <2>1. reply' \in Reply
    BY <1>4, AnswerType DEF SelectUnknown, Answer, StatusWords
  <2> QED BY <1>2, <1>4, <2>1 DEF SelectUnknown, AppletTypeOK
<1>5. ASSUME NEW ins \in Instructions, Rejected(ins) \/ NotSupported(ins) PROVE AppletTypeOK'
  BY <1>2, <1>5, AnswerType DEF Rejected, NotSupported, Answer, StatusWords, AppletTypeOK
<1>6. CASE CalculateAll
  <2>1. Computable \in SUBSET Credential
    BY <1>1, OpenSlot DEF Computable
  <2> QED BY <1>2, <1>6, <2>1, AnswerType
          DEF CalculateAll, Answer, StatusWords, AppletTypeOK, Applets, Instructions
<1>7. CASE List
  BY <1>2, <1>7, AnswerType DEF List, Answer, StatusWords, AppletTypeOK, Instructions
<1>8. CASE CalculateFails
  BY <1>2, <1>8, AnswerType DEF CalculateFails, Answer, StatusWords, AppletTypeOK, Instructions
<1>9. CASE CalculateTotp
  <2>1. PICK i \in Slots, touch \in BOOLEAN :
          Usable(i, touch) /\ TouchedAnswer("CALCULATE", "9000", {ram.slots[i].cred}, touch)
    BY <1>9 DEF CalculateTotp
  <2>2. ram.slots[i].cred \in Credential
    BY <1>1, <2>1, OpenSlot DEF Usable, FirstHolder, Holds
  <2> QED BY <1>2, <1>9, <2>1, <2>2, AnswerType
          DEF CalculateTotp, StatusWords, AppletTypeOK, Instructions
<1>10. CASE CalculateHotp
  <2>1. PICK i \in Slots, touch \in BOOLEAN :
          /\ ram.slots[i].cred \in Credential
          /\ pending' = [cred |-> ram.slots[i].cred, touch |-> touch]
          /\ UNCHANGED <<selected, reply, spent>>
    BY <1>1, <1>10, HotpStep
  <2> QED BY <1>1, <2>1 DEF AppletTypeOK
<1>11. CASE CalculateAnswer
  <2>1. pending.cred \in Credential /\ pending.touch \in BOOLEAN
    BY <1>11 DEF CalculateAnswer, AppletTypeOK
  <2>2. reply' \in Reply
    BY <1>11, <2>1, AnswerType DEF CalculateAnswer, StatusWords, Instructions
  <2> QED BY <1>1, <1>11, <2>1, <2>2 DEF CalculateAnswer, AppletTypeOK
<1>12. CASE StoreCalls
  BY <1>1, <1>12 DEF StoreCalls, Others, AppletTypeOK
<1>13. CASE Device
  BY <1>1, <1>13 DEF Device, appletVars, AppletTypeOK
<1>14. CASE UNCHANGED allVars
  BY <1>1, <1>14 DEF allVars, appletVars, AppletTypeOK
<1> QED BY <1>3, <1>4, <1>5, <1>6, <1>7, <1>8, <1>9, <1>10, <1>11, <1>12, <1>13, <1>14
        DEF AppletNext

\* The applet's answers, its selection and the codes it remembers always have
\* their types.
THEOREM AppletTypeCorrect == AppletSpec => []AppletTypeOK
<1> QED BY AppletInitType, AppletNextType, PTL DEF AppletSpec

\* The credentials of an image that open under a key are past a code.
Past(image, key, code) ==
  \A i \in Slots :
    /\ image.slots[i] # None
    /\ image.slots[i].key = key
    /\ image.slots[i].cred.name = code.name
    => image.slots[i].cred.counter > code.counter

AllPast ==
  \A code \in spent :
    /\ Past(ram, otp, code)
    /\ flash # None => Past(flash.image, otp, code)
PendingPast == pending # None => /\ pc \in {"erase", "program", "idle"}
                                 /\ pending.cred.name = TestName
                                 /\ Past(ram, otp, pending.cred)

LEMMA CodesPast == CodesSpent <=> AllPast
BY DEF CodesSpent, AllPast, Past, Holds, Opens

\* A key that loses bits opens nothing that the device sealed before.
LEMMA PastShrinks ==
  ASSUME NEW image, SealedBefore(image), NEW key, key \subseteq otp, NEW code,
         Past(image, otp, code)
  PROVE  Past(image, key, code)
<1>1. CASE key = otp
  BY <1>1
<1>2. CASE key # otp
  BY <1>2 DEF SealedBefore, Past
<1> QED BY <1>1, <1>2

LEMMA FactoryPast == \A key, code : Past(Factory, key, code)
BY DEF Past, Factory

\* CALCULATE moves the counter of the only slot that holds its name.
LEMMA HotpPast ==
  ASSUME AppletInv, AllPast, CalculateHotp
  PROVE  AllPast' /\ PendingPast'
<1>t. TypeOK /\ ram \in Image /\ UniqueIn(ram) /\ \A code \in spent : code \in Credential
  BY DEF AppletInv, AppletTypeOK, UniqueInv, TypeOK
<1>1. PICK i \in Slots, touch \in BOOLEAN :
        /\ Holds(i, TestName)
        /\ ram.slots[i].cred \in Credential /\ ram.slots[i].cred.counter \in Nat
        /\ Save([ram EXCEPT !.slots[i] = Seal(TestName, ram.slots[i].cred.payload,
                                              ram.slots[i].cred.counter + 1)])
        /\ pending' = [cred |-> ram.slots[i].cred, touch |-> touch]
        /\ UNCHANGED <<selected, reply, spent>>
  BY <1>t, HotpStep
<1> DEFINE cred == ram.slots[i].cred
<1>2. /\ ram.slots[i] # None /\ ram.slots[i].key = otp /\ cred.name = TestName
  BY <1>1 DEF Holds, Opens
<1>3. /\ UNCHANGED <<otp, flash, spent>> /\ pc' = "erase"
      /\ ram'.slots[i] = Seal(TestName, cred.payload, cred.counter + 1)
      /\ \A j \in Slots \ {i} : ram'.slots[j] = ram.slots[j]
  BY <1>1, <1>t DEF Save, Image
<1>4. ram'.slots[i].cred.counter = cred.counter + 1 /\ ram'.slots[i].cred.name = TestName
  BY <1>3 DEF Seal
<1>5. ASSUME NEW code \in spent PROVE Past(ram', otp', code)
  <2>1. code.name = TestName /\ code.counter \in Nat
    BY <1>t DEF AppletInv, Credential
  <2>2. cred.counter > code.counter
    BY <1>2, <2>1 DEF AllPast, Past
  <2>3. cred.counter + 1 > code.counter
    BY <1>1, <2>1, <2>2
  <2>4. Past(ram, otp, code)
    BY DEF AllPast
  <2> QED BY <1>3, <1>4, <2>3, <2>4 DEF Past
<1>6. Past(ram', otp', cred)
  <2>1. ASSUME NEW j \in Slots \ {i}, ram.slots[j] # None, ram.slots[j].key = otp,
               ram.slots[j].cred.name = TestName
        PROVE  FALSE
    <3>1. SameName(ram, i, j)
      BY <1>2, <2>1 DEF SameName
    <3>2. CutOff(TestName)
      BY <3>1, <1>2, <1>t DEF UniqueIn
    <3> QED BY <3>2, AppletAssumption DEF CutOff
  <2>2. cred.counter + 1 > cred.counter
    BY <1>1
  <2> QED BY <1>2, <1>3, <1>4, <2>1, <2>2 DEF Past
<1>7. AllPast'
  BY <1>3, <1>5 DEF AllPast
<1>8. PendingPast'
  BY <1>1, <1>2, <1>3, <1>6 DEF PendingPast
<1> QED BY <1>7, <1>8

\* A new credential takes the codes of its name out of the history; every other
\* change of the store keeps the credentials it leaves or forgets the codes.
LEMMA CallsPast ==
  ASSUME AppletInv, AllPast, StoreCalls
  PROVE  AllPast' /\ PendingPast'
<1>t. ram \in Image /\ pending = None /\ pending' = None
  BY DEF AppletInv, AppletTypeOK, TypeOK, StoreCalls, Ready
<1>p. PendingPast'
  BY <1>t DEF PendingPast
<1>1. ASSUME NEW n \in Names, NEW p \in Payloads, Put(n, p), spent' = Others(spent, Trunc[n])
      PROVE  AllPast'
  <2>1. PICK i \in Slots : Save([ram EXCEPT !.slots[i] = Seal(Trunc[n], p, 0)])
    BY <1>1 DEF Put
  <2>2. /\ UNCHANGED <<otp, flash>>
        /\ ram'.slots[i].cred.name = Trunc[n]
        /\ \A j \in Slots \ {i} : ram'.slots[j] = ram.slots[j]
    BY <2>1, <1>t DEF Save, Image, Seal
  <2>3. \A code \in spent' : code \in spent /\ code.name # Trunc[n]
    BY <1>1 DEF Others
  <2> QED BY <2>2, <2>3 DEF AllPast, Past
<1>2. ASSUME NEW n \in Names, Delete(n), UNCHANGED spent
      PROVE  AllPast'
  <2>1. PICK i \in Slots : Save([ram EXCEPT !.slots[i] = None])
    BY <1>2 DEF Delete
  <2>2. /\ UNCHANGED <<otp, flash>>
        /\ ram'.slots[i] = None
        /\ \A j \in Slots \ {i} : ram'.slots[j] = ram.slots[j]
    BY <2>1, <1>t DEF Save, Image
  <2> QED BY <1>2, <2>2 DEF AllPast, Past
<1>3. ASSUME spent' = {} PROVE AllPast'
  BY <1>3 DEF AllPast
<1>4. ASSUME Export \/ Reinit, UNCHANGED spent PROVE AllPast'
  BY <1>4 DEF Export, Reinit, AllPast
<1> QED BY <1>p, <1>1, <1>2, <1>3, <1>4 DEF StoreCalls

\* Loading, saving and losing power only move images between RAM and flash.
LEMMA DevicePast ==
  ASSUME ~Spills \/ ForeignBackups = {}, AppletInv, AllPast, PendingPast, Device
  PROVE  AllPast' /\ PendingPast'
<1>1. CASE Provision /\ UNCHANGED appletVars
  <2>1. ram = Factory /\ flash = None /\ pending = None
    BY <1>1 DEF Provision, AppletInv, StorageInv, PendingPast
  <2> QED BY <1>1, <2>1, FactoryPast DEF Provision, appletVars, AllPast, PendingPast
<1>2. CASE LoadStored /\ UNCHANGED appletVars
  <2>1. pending = None /\ flash # None /\ ram' = flash.image
    BY <1>2 DEF LoadStored, PackageOpens, PendingPast
  <2> QED BY <1>2, <2>1 DEF LoadStored, appletVars, AllPast, PendingPast
<1>3. CASE LoadFactory /\ UNCHANGED appletVars
  <2>1. pending = None /\ ram' = Factory
    BY <1>3 DEF LoadFactory, Save, PendingPast
  <2> QED BY <1>3, <2>1, FactoryPast DEF LoadFactory, Save, appletVars, AllPast, PendingPast
<1>4. CASE EraseSector /\ UNCHANGED appletVars
  BY <1>4 DEF EraseSector, appletVars, AllPast, PendingPast
<1>5. CASE ProgramPackage /\ UNCHANGED appletVars
  <2>1. /\ flash' \in {None, [key |-> otp, image |-> ram]} /\ ram' = ram /\ pc' = "idle"
        /\ otp' = otp \/ (Spills /\ otp' \subseteq otp)
    BY <1>5 DEF ProgramPackage
  <2>2. ASSUME NEW code, Past(ram, otp, code) PROVE Past(ram', otp', code)
    <3>1. CASE otp' = otp
      BY <2>1, <2>2, <3>1
    <3>2. CASE Spills /\ otp' \subseteq otp
      <4>1. SealedBefore(ram)
        BY <3>2, ReadableSealed DEF AppletInv, StorageInv, SlotsReadable
      <4> QED BY <2>1, <2>2, <3>2, <4>1, PastShrinks
    <3> QED BY <2>1, <3>1, <3>2
  <2>3. flash' # None => flash'.image = ram'
    BY <2>1
  <2> QED BY <1>5, <2>1, <2>2, <2>3 DEF appletVars, AllPast, PendingPast
<1>6. CASE PowerOn /\ UNCHANGED appletVars
  BY <1>6 DEF PowerOn, appletVars, AllPast, PendingPast
<1>7. CASE PowerLoss /\ pending' = None /\ UNCHANGED spent
  <2>1. flash' \in {flash, None} /\ ram' = Factory
    BY <1>7 DEF PowerLoss
  <2>2. ASSUME flash # None, NEW code, Past(flash.image, otp, code)
        PROVE  Past(flash.image, otp', code)
    <3>1. TypeOK /\ otp' \subseteq otp /\ Written
      BY <1>7, <2>2, KeyShrinks DEF Next, AppletInv, StorageInv
    <3>2. CASE ~Spills
      BY <1>7, <2>2, <3>1, <3>2, KeyStep DEF Next
    <3>3. CASE ForeignBackups = {}
      <4>1. SealedBefore(flash.image)
        BY <2>2, <3>3, ReadableSealed DEF AppletInv, StorageInv
      <4> QED BY <2>2, <3>1, <4>1, PastShrinks
    <3> QED BY <3>2, <3>3
  <2> QED BY <1>7, <2>1, <2>2, FactoryPast DEF AllPast, PendingPast
<1> QED BY <1>1, <1>2, <1>3, <1>4, <1>5, <1>6, <1>7 DEF Device, Firmware

\* At the answer the store is idle, and what is on flash is what is in RAM.
LEMMA AnswerPast ==
  ASSUME AppletInv, AllPast, PendingPast, CalculateAnswer
  PROVE  AllPast' /\ PendingPast'
<1>1. /\ pc = "idle" /\ pending # None /\ pending' = None
      /\ spent' = spent \cup {pending.cred} /\ UNCHANGED vars
  BY DEF CalculateAnswer
<1>2. flash # None => flash.image = ram
  BY <1>1 DEF AppletInv, StorageInv, IdleIsDurable
<1>3. Past(ram, otp, pending.cred)
  BY <1>1 DEF PendingPast
<1> QED BY <1>1, <1>2, <1>3 DEF AllPast, PendingPast, vars

\* The code under way is ahead of those handed out: they are behind the counter
\* it was computed with, and nothing but its answer adds to them meanwhile.
Ahead == pending # None => \A code \in spent : code.counter < pending.cred.counter

LEMMA AheadStep == AppletInv /\ [AppletNext]_allVars => Ahead'
<1> SUFFICES ASSUME AppletInv, [AppletNext]_allVars PROVE Ahead'
  OBVIOUS
<1>1. TypeOK /\ Ahead /\ spent \in SUBSET Credential
  BY DEF AppletInv, AppletTypeOK, Ahead
<1>2. CASE CalculateHotp
  <2>1. PICK i \in Slots, touch \in BOOLEAN :
          /\ Holds(i, TestName)
          /\ ram.slots[i].cred.counter \in Nat
          /\ pending' = [cred |-> ram.slots[i].cred, touch |-> touch]
          /\ UNCHANGED <<selected, reply, spent>>
    BY <1>1, <1>2, HotpStep
  <2>2. ASSUME NEW code \in spent PROVE code.counter < ram.slots[i].cred.counter
    <3>1. code.name = TestName /\ code.counter \in Nat
      BY <1>1 DEF AppletInv, Credential
    <3>2. ram.slots[i].cred.counter > code.counter
      BY <2>1, <3>1 DEF AppletInv, CodesSpent
    <3> QED BY <2>1, <3>1, <3>2
  <2>3. pending'.cred = ram.slots[i].cred /\ spent' = spent
    BY <2>1
  <2> QED BY <2>2, <2>3 DEF Ahead
<1>3. CASE CalculateAnswer
  BY <1>3 DEF CalculateAnswer, Ahead
<1>4. CASE StoreCalls
  BY <1>4 DEF StoreCalls, Ready, Ahead
<1>5. CASE Device
  BY <1>1, <1>5 DEF Device, appletVars, Ahead
<1>6. CASE UNCHANGED <<pending, spent>>
  BY <1>1, <1>6 DEF Ahead
<1> QED BY <1>2, <1>3, <1>4, <1>5, <1>6 DEF AppletNext, SelectApplet, SelectUnknown, Rejected,
        NotSupported, CalculateAll, List, CalculateFails, CalculateTotp, allVars, appletVars

LEMMA AppletInitInv == AppletInit => AppletInv
<1> SUFFICES ASSUME AppletInit PROVE AppletInv
  OBVIOUS
<1>1. AppletTypeOK /\ StorageInv
  BY AppletInitType, InitInv DEF AppletInit
<1>2. UniqueInv
  BY InitType, FactoryUnique DEF AppletInit, Init, UniqueInv
<1> QED BY <1>1, <1>2 DEF AppletInv, AppletInit, CodesSpent

LEMMA AppletNextInv ==
  ASSUME ~Spills \/ ForeignBackups = {}, \A image \in ForeignBackups : UniqueIn(image),
         AppletInv, [AppletNext]_allVars
  PROVE  AppletInv'
<1>1. AppletTypeOK' /\ StorageInv' /\ UniqueInv'
  <2>1. [Next]_vars
    BY AppletStepsStore DEF AppletInv, AppletTypeOK
  <2> QED BY <2>1, AppletNextType, StepInv, UniqueStep DEF AppletInv
<1>2. AllPast /\ PendingPast
  <2>1. PendingPast
    BY DEF AppletInv, PendingPast, Past, Holds, Opens
  <2> QED BY <2>1, CodesPast DEF AppletInv
<1>3. ASSUME UNCHANGED <<vars, pending, spent>> PROVE AllPast' /\ PendingPast'
  BY <1>2, <1>3 DEF vars, AllPast, PendingPast
<1>4. AllPast' /\ PendingPast'
  BY <1>2, <1>3, HotpPast, CallsPast, DevicePast, AnswerPast DEF AppletNext, SelectApplet,
     SelectUnknown, Rejected, NotSupported, CalculateAll, List, CalculateFails, CalculateTotp,
     allVars, appletVars
<1>5. \A code \in spent' : code.name = TestName
  <2>1. CASE CalculateAnswer
    BY <1>2, <2>1 DEF CalculateAnswer, AppletInv, PendingPast
  <2>2. CASE CalculateHotp
    BY <2>2 DEF CalculateHotp, AppletInv
  <2>3. CASE StoreCalls
    BY <2>3 DEF StoreCalls, Others, AppletInv
  <2>4. CASE UNCHANGED spent
    BY <2>4 DEF AppletInv
  <2> QED BY <2>1, <2>2, <2>3, <2>4 DEF AppletNext, SelectApplet, SelectUnknown, Rejected,
          NotSupported, CalculateAll, List, CalculateFails, CalculateTotp, Device, allVars,
          appletVars
<1>6. CodesSpent'
  BY <1>4 DEF CodesSpent, AllPast, Past, Holds, Opens
<1>7. pending' # None => \A i \in Slots :
        Holds(i, TestName)' => ram'.slots[i].cred.counter > pending'.cred.counter
  BY <1>4 DEF PendingPast, Past, Holds, Opens
<1>8. Ahead'
  BY AheadStep
<1> QED BY <1>1, <1>4, <1>5, <1>6, <1>7, <1>8 DEF AppletInv, PendingPast, Ahead

\* An HOTP code that CALCULATE has handed out is behind the counter in RAM and
\* behind the one a restart would load, wherever the power was lost between the
\* computation, the two steps of the save and the answer, and whatever was
\* stored, deleted, exported and restored in between: in a layout that fits its
\* sector, and in any other if no image of another device is restored.
THEOREM CodesStaySpent ==
  ASSUME ~Spills \/ ForeignBackups = {}, \A image \in ForeignBackups : UniqueIn(image)
  PROVE  AppletSpec => []CodesSpent
<1>1. AppletInv /\ [AppletNext]_allVars => AppletInv'
  BY AppletNextInv
<1>2. AppletInv => CodesSpent
  BY DEF AppletInv
<1> QED BY AppletInitInv, <1>1, <1>2, PTL DEF AppletSpec

\* A credential that an answer is computed from is in RAM, past all codes that
\* were handed out, or was computed from before its counter moved.
LEMMA AnswerNew ==
  ASSUME AppletInv, CalculateAnswer \/ CalculateTotp \/ CalculateAll
  PROVE  reply'.codes \cap spent = {}
<1>1. TypeOK /\ spent \in SUBSET Credential
  BY DEF AppletInv, AppletTypeOK
<1>2. ASSUME NEW k \in Slots, Holds(k, ram.slots[k].cred.name) PROVE ram.slots[k].cred \notin spent
  <2>1. SUFFICES ASSUME ram.slots[k].cred \in spent PROVE FALSE
    OBVIOUS
  <2>2. ram.slots[k].cred.counter > ram.slots[k].cred.counter
    BY <1>2, <2>1 DEF AppletInv, CodesSpent
  <2>3. ram.slots[k].cred.counter \in Int
    BY <1>1, <2>1, StorageAssumption DEF Credential
  <2> QED BY <2>2, <2>3
<1>3. CASE CalculateAnswer
  <2>1. pending # None /\ reply'.codes = {pending.cred}
    BY <1>3 DEF CalculateAnswer, TouchedAnswer
  <2>2. pending.cred.counter \in Int
    BY <1>1, <2>1, StorageAssumption DEF AppletInv, AppletTypeOK, Credential
  <2>3. pending.cred \notin spent
    BY <2>1, <2>2 DEF AppletInv
  <2> QED BY <2>1, <2>3
<1>4. CASE CalculateTotp
  <2>1. PICK i \in Slots, touch \in BOOLEAN :
          Usable(i, touch) /\ TouchedAnswer("CALCULATE", "9000", {ram.slots[i].cred}, touch)
    BY <1>4 DEF CalculateTotp
  <2>2. Holds(i, ram.slots[i].cred.name) /\ reply'.codes = {ram.slots[i].cred}
    BY <2>1 DEF Usable, FirstHolder, Holds, TouchedAnswer
  <2> QED BY <1>2, <2>2
<1>5. CASE CalculateAll
  <2>1. reply'.codes = Computable
    BY <1>5 DEF CalculateAll, Answer, TouchedAnswer
  <2>2. \A code \in Computable : \E k \in Slots :
          code = ram.slots[k].cred /\ Holds(k, ram.slots[k].cred.name)
    BY DEF Computable, FirstHolder
  <2> QED BY <1>2, <2>1, <2>2
<1> QED BY <1>3, <1>4, <1>5

\* No HOTP code that CALCULATE has handed out leaves the device again, by
\* CALCULATE or by CALCULATE ALL, over restarts, damaged packages and deletions;
\* a restore, which may bring old counters, and a reset begin the history anew.
\* The layouts are those of CodesStaySpent.
THEOREM NoCodeGivenAgain ==
  ASSUME ~Spills \/ ForeignBackups = {}, \A image \in ForeignBackups : UniqueIn(image)
  PROVE  AppletSpec => SpentNotGiven
<1>1. AppletInv /\ [AppletNext]_allVars => AppletInv'
  BY AppletNextInv
<1>2. AppletInv /\ [AppletNext]_allVars
        => [reply'.codes \cap spent # {}
              => ~(CalculateAnswer \/ CalculateTotp \/ CalculateAll)]_allVars
  BY AnswerNew
<1> QED BY AppletInitInv, <1>1, <1>2, PTL DEF AppletSpec, SpentNotGiven

-----------------------------------------------------------------------------
(***************************************************************************)
(* The dictionary the store implements.                                    *)
(***************************************************************************)

\* What the refinement is about: names that are kept whole, and images of other
\* devices that hold no name twice; in a layout that runs on into the OTP sector
\* no such images, since a damaged key might be the other device's.
VaultConditions ==
  /\ \A n \in Names : Trunc[n] = n
  /\ \A image \in ForeignBackups : UniqueIn(image)
  /\ ~Spills \/ ForeignBackups = {}

\* A slot of an image that opens under a key and has this name.
Keeps(image, key, i, n) ==
  /\ image.slots[i] # None
  /\ image.slots[i].key = key
  /\ image.slots[i].cred.name = n

LEMMA OneKeeper ==
  ASSUME VaultConditions, NEW image, UniqueIn(image), NEW key, NEW n,
         NEW i \in Slots, NEW j \in Slots, Keeps(image, key, i, n), Keeps(image, key, j, n)
  PROVE  i = j
BY DEF VaultConditions, UniqueIn, SameName, CutOff, Keeps

LEMMA KeptEntry ==
  ASSUME VaultConditions, NEW image, UniqueIn(image), NEW key, NEW n,
         NEW i \in Slots, Keeps(image, key, i, n)
  PROVE  EntryOf(image, key, n) = [payload |-> image.slots[i].cred.payload,
                                   counter |-> image.slots[i].cred.counter]
<1> DEFINE holders == {k \in Slots : /\ image.slots[k] # None
                                     /\ image.slots[k].key = key
                                     /\ image.slots[k].cred.name = n}
           least == CHOOSE k \in holders : \A j \in holders : k <= j
<1>1. i \in Int
  BY StorageAssumption DEF Slots
<1>2. i \in holders
  BY DEF Keeps
<1>3. \A k \in holders : k = i
  BY OneKeeper DEF Keeps
<1>4. \A j \in holders : i <= j
  BY <1>1, <1>3
<1>5. least \in holders
  BY <1>2, <1>4
<1>6. least = i
  BY <1>3, <1>5
<1>7. EntryOf(image, key, n) = [payload |-> image.slots[least].cred.payload,
                                counter |-> image.slots[least].cred.counter]
  BY <1>2 DEF EntryOf
<1> QED BY <1>6, <1>7

LEMMA NoEntry ==
  ASSUME NEW image, NEW key, NEW n, \A i \in Slots : ~Keeps(image, key, i, n)
  PROVE  EntryOf(image, key, n) = None
BY DEF EntryOf, Keeps

LEMMA KeptEntryType ==
  ASSUME VaultConditions, NEW image \in Image, UniqueIn(image), NEW key, NEW n,
         NEW i \in Slots, Keeps(image, key, i, n)
  PROVE  EntryOf(image, key, n) \in Entry
<1>1. image.slots[i].cred \in Credential
  BY DEF Keeps, Image, Sealed
<1>2. EntryOf(image, key, n) = [payload |-> image.slots[i].cred.payload,
                                counter |-> image.slots[i].cred.counter]
  BY KeptEntry
<1> QED BY <1>1, <1>2 DEF Entry, Credential

LEMMA EntryFound ==
  ASSUME VaultConditions, NEW image \in Image, UniqueIn(image), NEW key, NEW n \in Names
  PROVE  EntryOf(image, key, n) # None <=> \E i \in Slots : Keeps(image, key, i, n)
BY KeptEntryType, NoEntry, VaultAssumption

LEMMA SlotsFinite == IsFiniteSet(Slots) /\ Cardinality(Slots) = MAX_CREDENTIALS /\ MAX_CREDENTIALS \in Nat
<1>1. MAX_CREDENTIALS \in Nat /\ MAX_CREDENTIALS >= 1
  BY StorageAssumption
<1>2. IsFiniteSet(1..MAX_CREDENTIALS) /\ Cardinality(1..MAX_CREDENTIALS) = MAX_CREDENTIALS
  BY <1>1, FS_Interval
<1> QED BY <1>1, <1>2 DEF Slots

LEMMA UnreadFinite ==
  ASSUME NEW image, NEW key
  PROVE  IsFiniteSet(Unread(image, key)) /\ Cardinality(Unread(image, key)) \in Nat
<1>1. Unread(image, key) \subseteq Slots
  BY DEF Unread
<1> QED BY <1>1, SlotsFinite, FS_Subset, FS_CardinalityType

LEMMA DictionaryType ==
  ASSUME VaultConditions, NEW image \in Image, UniqueIn(image), NEW key
  PROVE  Dictionary(image, key) # None
<1>1. \A n \in Names : EntryOf(image, key, n) \in Entry \cup {None}
  BY KeptEntryType, NoEntry
<1>2. Dictionary(image, key) \in [creds : [Names -> Entry \cup {None}], unread : Nat,
                                   code : AccessCodes \cup {None}]
  BY <1>1, UnreadFinite DEF Dictionary, Image
<1> QED BY <1>2, VaultAssumption

LEMMA FactoryDictionary == \A key : Dictionary(Factory, key) = Vault!Empty
<1>1. \A key, n : EntryOf(Factory, key, n) = None
  BY NoEntry DEF Factory, Keeps
<1>2. \A key : Unread(Factory, key) = {}
  BY DEF Unread, Factory
<1>3. \A key : Cardinality(Unread(Factory, key)) = 0
  BY <1>2, FS_EmptySet
<1> QED BY <1>1, <1>3 DEF Dictionary, Vault!Empty, Factory

\* Two images that differ in one slot, which at most one name uses, have the
\* same dictionary but for that name.
LEMMA OneEntryChanged ==
  ASSUME VaultConditions, NEW old \in Image, NEW new \in Image, UniqueIn(old), UniqueIn(new),
         NEW key, NEW n \in Names, NEW i \in Slots, new.code = old.code,
         i \notin Unread(old, key), i \notin Unread(new, key),
         \A j \in Slots \ {i} : new.slots[j] = old.slots[j],
         \A m \in Names \ {n} : ~Keeps(old, key, i, m) /\ ~Keeps(new, key, i, m)
  PROVE  Dictionary(new, key) = [Dictionary(old, key) EXCEPT !.creds[n] = EntryOf(new, key, n)]
<1>1. ASSUME NEW m \in Names \ {n} PROVE EntryOf(new, key, m) = EntryOf(old, key, m)
  <2>1. CASE \E j \in Slots : Keeps(old, key, j, m)
    <3>1. PICK j \in Slots : Keeps(old, key, j, m)
      BY <2>1
    <3>2. j # i
      BY <3>1
    <3>3. new.slots[j] = old.slots[j] /\ Keeps(new, key, j, m)
      BY <3>1, <3>2 DEF Keeps
    <3> QED BY <3>1, <3>3, KeptEntry
  <2>2. CASE \A j \in Slots : ~Keeps(old, key, j, m)
    <3>1. \A j \in Slots : ~Keeps(new, key, j, m)
      BY <2>2 DEF Keeps
    <3> QED BY <2>2, <3>1, NoEntry
  <2> QED BY <2>1, <2>2
<1> DEFINE before == [m \in Names |-> EntryOf(old, key, m)]
           after == [m \in Names |-> EntryOf(new, key, m)]
<1>2. after = [before EXCEPT ![n] = EntryOf(new, key, n)]
  BY <1>1
<1> DEFINE unread == Cardinality(Unread(old, key))
<1>3. Unread(new, key) = Unread(old, key)
  BY DEF Unread
<1>4. /\ Dictionary(old, key) = [creds |-> before, unread |-> unread, code |-> old.code]
      /\ Dictionary(new, key) = [creds |-> after, unread |-> unread, code |-> old.code]
  BY <1>3 DEF Dictionary
<1> HIDE DEF before, after, unread
<1> QED BY <1>2, <1>4

\* A save changes what callers see, to the dictionary of the new image.
LEMMA SaveChanges ==
  ASSUME pc = "idle", NEW image, Save(image)
  PROVE  Vault!Change(Dictionary(image, otp))
<1>1. Phases[pc] = "ready" /\ Phases[pc'] = "saving"
  BY DEF Phases, Save
<1>2. Visible' = Dictionary(image, otp) /\ Recoverable' = Recoverable /\ Copied' = Copied
  BY DEF Save, Visible, Recoverable, Copied, PackageOpens
<1>3. Phases' = Phases
  BY DEF Phases
<1> QED BY <1>1, <1>2, <1>3 DEF Vault!Change

\* The slots in use are as many as the names stored and the slots that do not
\* open: each slot that opens has a name of its own.
UsedSlots(image) == {i \in Slots : image.slots[i] # None}

LEMMA SlotsCounted ==
  ASSUME VaultConditions, NEW image \in Image, UniqueIn(image), NEW key
  PROVE  Vault!UsedBy(Dictionary(image, key)) = Cardinality(UsedSlots(image))
<1> DEFINE used == UsedSlots(image)
           unread == Unread(image, key)
           open == used \ unread
           names == Vault!StoredIn(Dictionary(image, key))
           nameOf == [i \in open |-> image.slots[i].cred.name]
<1>1. IsFiniteSet(used) /\ Cardinality(used) \in Nat
  <2>1. used \in SUBSET Slots
    BY DEF UsedSlots
  <2> HIDE DEF used
  <2> QED BY <2>1, SlotsFinite, FS_Subset, FS_CardinalityType
<1>2. Cardinality(unread) \in Nat
  BY UnreadFinite
<1>3. IsFiniteSet(open) /\ Cardinality(open) = Cardinality(used) - Cardinality(unread)
  <2>1. used \cap unread = unread
    BY DEF UsedSlots, Unread
  <2> HIDE DEF used, unread
  <2>2. IsFiniteSet(used \ unread) /\ Cardinality(used \ unread) = Cardinality(used) - Cardinality(used \cap unread)
    BY <1>1, FS_Difference
  <2> QED BY <2>1, <2>2
<1>4. ASSUME NEW i \in open
      PROVE  i \in Slots /\ Keeps(image, key, i, image.slots[i].cred.name)
  BY DEF UsedSlots, Unread, Keeps
<1>5. ASSUME NEW i \in Slots, NEW n, Keeps(image, key, i, n)
      PROVE  i \in open /\ n \in Names
  BY <1>5 DEF UsedSlots, Unread, Keeps, Image, Sealed, Credential
<1>6. ASSUME NEW n PROVE n \in names <=> n \in Names /\ \E i \in Slots : Keeps(image, key, i, n)
  BY EntryFound DEF Vault!StoredIn, Dictionary
<1>7. nameOf \in Bijection(open, names)
  <2>1. nameOf \in [open -> names]
    BY <1>4, <1>5, <1>6
  <2>2. \A i, j \in open : nameOf[i] = nameOf[j] => i = j
    BY <1>4, OneKeeper
  <2>3. \A n \in names : \E i \in open : nameOf[i] = n
    BY <1>5, <1>6 DEF Keeps
  <2> HIDE DEF nameOf, open, names
  <2> QED BY <2>1, <2>2, <2>3 DEF Bijection, Injection, IsInjective, Surjection
<1>8. Cardinality(names) = Cardinality(open)
  <2> HIDE DEF nameOf, open, names
  <2>1. ExistsBijection(open, names)
    BY <1>7 DEF ExistsBijection
  <2> QED BY <1>3, <2>1, FS_Bijection
<1>9. Vault!UsedBy(Dictionary(image, key)) = Cardinality(names) + Cardinality(unread)
  <2>1. Dictionary(image, key).unread = Cardinality(unread)
    BY DEF Dictionary
  <2>2. Vault!Cardinality(names) = Cardinality(names)
    BY DEF Vault!Cardinality, Cardinality
  <2> HIDE DEF unread
  <2> QED BY <2>1, <2>2 DEF Vault!UsedBy
<1>10. Cardinality(names) + Cardinality(unread) = Cardinality(used)
  <2> HIDE DEF used, unread, open, names
  <2> QED BY <1>1, <1>2, <1>3, <1>8
<1> QED BY <1>9, <1>10

\* Under a key that opens none of its slots an image is a damaged dictionary.
LEMMA KeyDamaged ==
  ASSUME VaultConditions, NEW image \in Image, UniqueIn(image), NEW key, NEW other,
         \A i \in Slots : image.slots[i] # None => image.slots[i].key # other
  PROVE  Dictionary(image, other) = Vault!Damaged(Dictionary(image, key))
<1>1. \A n : EntryOf(image, other, n) = None
  BY NoEntry DEF Keeps
<1>2. Unread(image, other) = UsedSlots(image)
  BY DEF Unread, UsedSlots
<1>3. Dictionary(image, other) = [creds |-> [n \in Names |-> None],
                                  unread |-> Vault!UsedBy(Dictionary(image, key)), code |-> image.code]
  BY <1>1, <1>2, SlotsCounted DEF Dictionary
<1>4. Dictionary(image, key).code = image.code
  BY DEF Dictionary
<1> QED BY <1>3, <1>4 DEF Vault!Damaged

VaultInv ==
  /\ StorageInv
  /\ UniqueInv
  /\ pc = "program" => flash = None

LEMMA VaultInvStep ==
  ASSUME VaultConditions, VaultInv, [Next]_vars
  PROVE  VaultInv'
<1>1. StorageInv' /\ UniqueInv'
  BY StepInv, UniqueStep DEF VaultInv, VaultConditions
<1>2. pc' = "program" => flash' = None
  BY DEF VaultInv, Next, Firmware, Caller, vars, Provision, LoadStored, LoadFactory, EraseSector,
     ProgramPackage, PowerOn, PowerLoss, Put, Delete, UpdateCounter, Reset, SetPassword,
     Export, Import, Reinit, Save
<1> QED BY <1>1, <1>2 DEF VaultInv

\* A free slot is one that the names stored and the slots that do not open leave.
LEMMA RoomLeft ==
  ASSUME VaultConditions, VaultInv, NEW i \in Slots, ram.slots[i] = None
  PROVE  Vault!UsedBy(Visible) < MAX_CREDENTIALS
<1> DEFINE used == UsedSlots(ram)
           rest == Slots \ {i}
<1>1. used \in SUBSET rest
  BY DEF UsedSlots
<1>2. IsFiniteSet(rest) /\ Cardinality(rest) = MAX_CREDENTIALS - 1
  BY SlotsFinite, FS_RemoveElement
<1>3. Cardinality(used) <= MAX_CREDENTIALS - 1 /\ Cardinality(used) \in Nat
  <2> HIDE DEF used, rest
  <2> QED BY <1>1, <1>2, FS_Subset, FS_CardinalityType
<1>4. Vault!UsedBy(Visible) = Cardinality(used)
  BY SlotsCounted DEF Visible, VaultInv, UniqueInv, TypeOK
<1> HIDE DEF used
<1> QED BY <1>3, <1>4, SlotsFinite

\* One slot changes hands: the dictionary changes at the name of the slot.
LEMMA SlotSaved ==
  ASSUME VaultConditions, VaultInv, VaultInv', NEW n \in Names, NEW i \in Slots, NEW s,
         pc = "idle", Save([ram EXCEPT !.slots[i] = s]),
         Holds(i, n) \/ (s # None /\ ram.slots[i] = None),
         s # None => s.key = otp /\ s.cred.name = n
  PROVE  Vault!Change([Visible EXCEPT !.creds[n] =
           IF s = None THEN None
           ELSE [payload |-> s.cred.payload, counter |-> s.cred.counter]])
<1> DEFINE new == [ram EXCEPT !.slots[i] = s]
           entry == IF s = None THEN None
                    ELSE [payload |-> s.cred.payload, counter |-> s.cred.counter]
<1>1. ram \in Image /\ UniqueIn(ram)
  BY DEF VaultInv, UniqueInv, TypeOK
<1>2. new \in Image /\ UniqueIn(new)
  <2>1. ram' = new
    BY DEF Save
  <2>2. ram' \in Image /\ UniqueIn(ram')
    BY DEF VaultInv, UniqueInv, UniqueIn, SameName, TypeOK
  <2> QED BY <2>1, <2>2
<1>3. new.slots[i] = s /\ new.code = ram.code /\ \A j \in Slots \ {i} : new.slots[j] = ram.slots[j]
  BY <1>1 DEF Image
<1>4. EntryOf(new, otp, n) = entry
  <2>1. CASE s = None
    <3>1. \A j \in Slots : Keeps(ram, otp, j, n) => j = i
      BY <1>1, <2>1, OneKeeper DEF Keeps, Holds, Opens
    <3>2. \A j \in Slots : ~Keeps(new, otp, j, n)
      BY <1>3, <2>1, <3>1 DEF Keeps
    <3> QED BY <2>1, <3>2, NoEntry
  <2>2. CASE s # None
    <3>1. Keeps(new, otp, i, n)
      BY <1>3, <2>2 DEF Keeps
    <3> HIDE DEF new
    <3> QED BY <1>2, <1>3, <2>2, <3>1, KeptEntry
  <2> QED BY <2>1, <2>2
<1>5. \A m \in Names \ {n} : ~Keeps(ram, otp, i, m) /\ ~Keeps(new, otp, i, m)
  BY <1>3 DEF Keeps, Holds, Opens
<1>6. Dictionary(new, otp) = [Visible EXCEPT !.creds[n] = EntryOf(new, otp, n)]
  <2>1. i \notin Unread(ram, otp) /\ i \notin Unread(new, otp)
    BY <1>3 DEF Unread, Holds, Opens
  <2> HIDE DEF new
  <2> QED BY <1>1, <1>2, <1>3, <1>5, <2>1, OneEntryChanged DEF Visible
<1>7. Vault!Change(Dictionary(new, otp))
  BY SaveChanges
<1> HIDE DEF new
<1> QED BY <1>4, <1>6, <1>7

LEMMA StoredNames ==
  ASSUME VaultConditions, VaultInv, NEW n \in Names, NEW i \in Slots, Holds(i, n)
  PROVE  /\ n \in Vault!Stored
         /\ Visible.creds[n] = [payload |-> ram.slots[i].cred.payload,
                                counter |-> ram.slots[i].cred.counter]
<1>1. ram \in Image /\ UniqueIn(ram) /\ Keeps(ram, otp, i, n)
  BY DEF VaultInv, UniqueInv, TypeOK, Keeps, Holds, Opens
<1>2. Visible.creds[n] = EntryOf(ram, otp, n)
  BY DEF Visible, Dictionary
<1> QED BY <1>1, <1>2, KeptEntry, EntryFound DEF Vault!Stored, Vault!StoredIn

LEMMA PutStep ==
  ASSUME VaultConditions, VaultInv, VaultInv', NEW n \in Names, NEW p \in Payloads, Put(n, p)
  PROVE  Vault!Put(n, p)
<1>1. PICK i \in Slots : /\ FirstHolder(i, n) \/ ((\A j \in Slots : ~Holds(j, n)) /\ FirstFree(i))
                         /\ Save([ram EXCEPT !.slots[i] = Seal(n, p, 0)])
                         /\ pc = "idle"
  BY DEF Put, VaultConditions
<1>2. Seal(n, p, 0) \in Sealed /\ Seal(n, p, 0) # None
  BY SealType, StorageAssumption DEF VaultInv, UniqueInv, TypeOK
<1>3. /\ Seal(n, p, 0).key = otp /\ Seal(n, p, 0).cred.name = n
      /\ Seal(n, p, 0).cred.payload = p /\ Seal(n, p, 0).cred.counter = 0
  BY DEF Seal
<1>4. Holds(i, n) \/ ram.slots[i] = None
  BY <1>1 DEF FirstHolder, FirstFree
<1>5. Vault!Change([Visible EXCEPT !.creds[n] = [payload |-> p, counter |-> 0]])
  BY <1>1, <1>2, <1>3, <1>4, SlotSaved
<1>6. n \in Vault!Stored \/ Vault!UsedBy(Visible) < MAX_CREDENTIALS
  BY <1>4, StoredNames, RoomLeft
<1> QED BY <1>5, <1>6 DEF Vault!Put

LEMMA DeleteStep ==
  ASSUME VaultConditions, VaultInv, VaultInv', NEW n \in Names, Delete(n)
  PROVE  Vault!Delete(n)
<1>1. PICK i \in Slots : Holds(i, n) /\ Save([ram EXCEPT !.slots[i] = None]) /\ pc = "idle"
  BY DEF Delete, FirstHolder
<1>2. Vault!Change([Visible EXCEPT !.creds[n] = None])
  BY <1>1, SlotSaved
<1> QED BY <1>1, <1>2, StoredNames DEF Vault!Delete

LEMMA CounterStep ==
  ASSUME VaultConditions, VaultInv, VaultInv', NEW n \in Names, NEW c \in 0..MaxCounter,
         UpdateCounter(n, c)
  PROVE  Vault!UpdateCounter(n, c)
<1>1. PICK i \in Slots :
        /\ Holds(i, n)
        /\ Save([ram EXCEPT !.slots[i] = Seal(n, ram.slots[i].cred.payload, c)])
        /\ pc = "idle"
  BY DEF UpdateCounter, FirstHolder
<1> DEFINE p == ram.slots[i].cred.payload
           old == Visible.creds[n]
<1>2. p \in Payloads
  BY <1>1, OpenSlot DEF Holds, Credential, VaultInv, UniqueInv
<1>3. Seal(n, p, c) \in Sealed /\ Seal(n, p, c) # None
  BY <1>2, SealType, StorageAssumption DEF VaultInv, UniqueInv, TypeOK
<1>4. /\ Seal(n, p, c).key = otp /\ Seal(n, p, c).cred.name = n
      /\ Seal(n, p, c).cred.payload = p /\ Seal(n, p, c).cred.counter = c
  BY DEF Seal
<1>5. Vault!Change([Visible EXCEPT !.creds[n] = [payload |-> p, counter |-> c]])
  BY <1>1, <1>3, <1>4, SlotSaved
<1>6. n \in Vault!Stored /\ old = [payload |-> p, counter |-> ram.slots[i].cred.counter]
  BY <1>1, StoredNames
<1>7. [old EXCEPT !.counter = c] = [payload |-> p, counter |-> c]
  BY <1>6
<1>8. [Visible EXCEPT !.creds[n].counter = c] =
        [Visible EXCEPT !.creds[n] = [payload |-> p, counter |-> c]]
  BY <1>7
<1> QED BY <1>5, <1>6, <1>8 DEF Vault!UpdateCounter

LEMMA PasswordStep ==
  ASSUME VaultInv, NEW code \in AccessCodes, SetPassword(code)
  PROVE  Vault!SetPassword(code)
<1>1. [ram EXCEPT !.code = code].code = code /\ [ram EXCEPT !.code = code].slots = ram.slots
  BY DEF VaultInv, UniqueInv, TypeOK, Image
<1>2. \A n : EntryOf([ram EXCEPT !.code = code], otp, n) = EntryOf(ram, otp, n)
  BY <1>1 DEF EntryOf
<1> DEFINE creds == [n \in Names |-> EntryOf(ram, otp, n)]
           unread == Cardinality(Unread(ram, otp))
<1>r. Unread([ram EXCEPT !.code = code], otp) = Unread(ram, otp)
  BY <1>1 DEF Unread
<1>3. Dictionary([ram EXCEPT !.code = code], otp) = [creds |-> creds, unread |-> unread, code |-> code]
  BY <1>1, <1>2, <1>r DEF Dictionary
<1>4. Visible = [creds |-> creds, unread |-> unread, code |-> ram.code]
  BY DEF Visible, Dictionary
<1>5. [Visible EXCEPT !.code = code] = [creds |-> creds, unread |-> unread, code |-> code]
  <2> HIDE DEF creds, unread
  <2> QED BY <1>4
<1> QED BY <1>3, <1>5, SaveChanges DEF SetPassword, Vault!SetPassword

\* Nothing on flash can be recovered exactly if there is no package that opens.
LEMMA RecoverableSomething ==
  ASSUME VaultConditions, VaultInv
  PROVE  /\ PackageOpens <=> Recoverable # None
         /\ backup # None => Dictionary(backup, otp) # None
<1>1. PackageOpens => flash.image \in Image /\ UniqueIn(flash.image)
  BY DEF VaultInv, UniqueInv, TypeOK, Package, PackageOpens
<1>2. backup # None => backup \in Image /\ UniqueIn(backup)
  BY DEF VaultInv, UniqueInv, TypeOK
<1> QED BY <1>1, <1>2, DictionaryType DEF Recoverable

LEMMA CallerStep ==
  ASSUME VaultConditions, VaultInv, VaultInv', Caller
  PROVE  Vault!Next
<1>1. ASSUME NEW n \in Names, NEW p \in Payloads, Put(n, p) PROVE Vault!Next
  BY <1>1, PutStep DEF Vault!Next
<1>2. ASSUME NEW n \in Names, Delete(n) PROVE Vault!Next
  BY <1>2, DeleteStep DEF Vault!Next
<1>3. ASSUME NEW n \in Names, NEW c \in 0..MaxCounter, UpdateCounter(n, c) PROVE Vault!Next
  BY <1>3, CounterStep DEF Vault!Next
<1>4. ASSUME NEW code \in AccessCodes, SetPassword(code) PROVE Vault!Next
  BY <1>4, PasswordStep DEF Vault!Next
<1>5. ASSUME NEW image \in ForeignBackups \cup ({backup} \ {None}), Import(image)
      PROVE  Vault!Next
  <2>1. pc = "idle" /\ Save(image)
    BY <1>5 DEF Import
  <2>2. Vault!Change(Dictionary(image, otp))
    BY <2>1, SaveChanges
  <2>3. CASE image \in ForeignBackups
    <3>1. otp \in SUBSET KeyBits
      BY DEF VaultInv, UniqueInv, TypeOK
    <3> QED BY <2>2, <2>3, <3>1 DEF Vault!RestoreForeign, Vault!Next
  <2>4. CASE image = backup /\ backup # None
    <3>1. Copied = Dictionary(backup, otp) /\ Copied # None
      BY <2>4, RecoverableSomething DEF Copied
    <3> QED BY <2>2, <2>4, <3>1 DEF Vault!Restore, Vault!Next
  <2> QED BY <1>5, <2>3, <2>4
<1>6. ASSUME Reset PROVE Vault!Next
  BY <1>6, SaveChanges, FactoryDictionary DEF Reset, Vault!Reset, Vault!Next
<1>7. ASSUME Export PROVE Vault!Next
  <2>1. ram \in Image /\ ram # None
    BY StorageAssumption DEF VaultInv, UniqueInv, TypeOK
  <2>2. /\ Copied' = Visible /\ Visible' = Visible /\ Recoverable' = Recoverable
        /\ Phases[pc] = "ready" /\ Phases[pc]' = Phases[pc]
    BY <1>7, <2>1 DEF Export, Copied, Visible, Recoverable, PackageOpens, Phases
  <2> QED BY <2>2 DEF Vault!Backup, Vault!Next
<1>8. ASSUME Reinit PROVE Vault!Next
  <2>1. /\ Copied' = Copied /\ Visible' = Visible /\ Recoverable' = Recoverable
        /\ Phases[pc] = "ready" /\ Phases[pc]' = "starting"
    BY <1>8 DEF Reinit, Copied, Visible, Recoverable, PackageOpens, Phases
  <2> QED BY <2>1 DEF Vault!Start, Vault!Next
<1> QED BY <1>1, <1>2, <1>3, <1>4, <1>5, <1>6, <1>7, <1>8 DEF Caller

\* A key that loses bits in a layout that runs on opens nothing that was sealed.
LEMMA ImageDamaged ==
  ASSUME VaultConditions, NEW image \in Image, UniqueIn(image), SealedBefore(image),
         otp' \subseteq otp, otp' # otp
  PROVE  Dictionary(image, otp') = Vault!Damaged(Dictionary(image, otp))
<1>1. \A i \in Slots : image.slots[i] # None => image.slots[i].key # otp'
  BY DEF SealedBefore
<1> QED BY <1>1, KeyDamaged

LEMMA CopyDamaged ==
  ASSUME VaultConditions, VaultInv, Spills, otp' \subseteq otp, otp' # otp, backup' = backup
  PROVE  Copied' = Vault!DamagedCopy
<1>1. Copied' = IF backup = None THEN None ELSE Dictionary(backup, otp')
  BY DEF Copied
<1>2. CASE backup = None
  BY <1>1, <1>2 DEF Copied, Vault!DamagedCopy
<1>3. CASE backup # None
  <2>1. backup \in Image /\ UniqueIn(backup) /\ SealedBefore(backup)
    BY <1>3, ReadableSealed DEF VaultConditions, VaultInv, StorageInv, UniqueInv, TypeOK
  <2>2. Copied = Dictionary(backup, otp) /\ Copied # None
    BY <1>3, RecoverableSomething DEF Copied
  <2> QED BY <1>1, <1>3, <2>1, <2>2, ImageDamaged DEF Vault!DamagedCopy
<1> QED BY <1>2, <1>3

LEMMA VisibleDamaged ==
  ASSUME VaultConditions, VaultInv, Spills, otp' \subseteq otp, otp' # otp, ram' = ram
  PROVE  Visible' = Vault!Damaged(Visible)
<1>1. ram \in Image /\ UniqueIn(ram) /\ SealedBefore(ram)
  BY ReadableSealed DEF VaultConditions, VaultInv, StorageInv, SlotsReadable, UniqueInv, TypeOK
<1> QED BY <1>1, ImageDamaged DEF Visible

\* The end of a save, in a layout that fits and in one that does not.
LEMMA SaveEnds ==
  ASSUME VaultConditions, VaultInv, ProgramPackage
  PROVE  Vault!EndSave
<1>1. /\ Phases[pc] = "gap" /\ Phases'[pc'] = "ready"
      /\ ram' = ram /\ backup' = backup
  BY DEF ProgramPackage, Phases
<1> DEFINE package == [key |-> otp, image |-> ram]
<1>2. package # None /\ package.key = otp /\ package.image = ram
  BY StorageAssumption DEF VaultInv, UniqueInv, TypeOK, Package
<1>3. CASE otp' = otp
  <2>1. Visible' = Visible /\ Copied' = Copied
    BY <1>1, <1>3 DEF Visible, Copied
  <2>2. flash' = package \/ (Spills /\ flash' = None)
    BY DEF ProgramPackage
  <2>3. flash' = package => Recoverable' = Visible
    BY <1>1, <1>2, <1>3 DEF Recoverable, PackageOpens, Visible
  <2>4. flash' = None => Recoverable' = None
    BY DEF Recoverable, PackageOpens
  <2> HIDE DEF package
  <2> QED BY <1>1, <2>1, <2>2, <2>3, <2>4 DEF Vault!EndSave
<1>4. CASE otp' # otp
  <2>1. Spills /\ otp' \subseteq otp /\ flash' \in {None, package}
    BY <1>4 DEF ProgramPackage
  <2>2. Recoverable' = None
    <3> HIDE DEF package
    <3> QED BY <1>2, <1>4, <2>1 DEF Recoverable, PackageOpens
  <2> QED BY <1>1, <1>4, <2>1, <2>2, VisibleDamaged, CopyDamaged DEF Vault!EndSave
<1> QED BY <1>3, <1>4

\* A power loss, whatever it tears.
LEMMA PowerLossStep ==
  ASSUME VaultConditions, VaultInv, PowerLoss
  PROVE  Vault!PowerLoss
<1>1. /\ ram' = Factory /\ backup' = backup /\ pc # "off" /\ pc' = "off"
      /\ flash' \in IF pc = "erase" THEN {flash, None} ELSE {flash}
  BY DEF PowerLoss
<1>2. Visible' = Vault!Empty
  BY <1>1, FactoryDictionary DEF Visible
<1>3. /\ Phases[pc] # "off" /\ Phases'[pc'] = "off"
      /\ Phases[pc] = "saving" <=> pc = "erase"
      /\ Phases[pc] = "gap" <=> pc = "program"
  BY <1>1 DEF Phases, VaultInv, UniqueInv, TypeOK
<1>4. CASE otp' = otp
  <2>1. Copied' = Copied /\ Recoverable' \in IF pc = "erase" THEN {Recoverable, None} ELSE {Recoverable}
    BY <1>1, <1>4 DEF Copied, Recoverable, PackageOpens
  <2> QED BY <1>2, <1>3, <2>1 DEF Vault!PowerLoss
<1>5. CASE pc = "boot" /\ ~Written
  <2>1. Copied' = Copied /\ Recoverable' = Recoverable
    BY <1>1, <1>5 DEF VaultInv, StorageInv, Copied, Recoverable, PackageOpens
  <2> QED BY <1>2, <1>3, <1>5, <2>1 DEF Vault!PowerLoss
<1>6. CASE pc = "program" /\ Spills /\ otp' # otp
  <2>1. otp' \subseteq otp
    BY <1>6 DEF PowerLoss
  <2>2. Recoverable = None /\ Recoverable' = None
    BY <1>1, <1>6 DEF VaultInv, Recoverable, PackageOpens
  <2>3. Copied' = Vault!DamagedCopy
    BY <1>1, <1>6, <2>1, CopyDamaged
  <2> QED BY <1>2, <1>3, <1>6, <2>2, <2>3 DEF Vault!PowerLoss
<1> QED BY <1>4, <1>5, <1>6 DEF PowerLoss

LEMMA VaultStep ==
  ASSUME VaultConditions, VaultInv, [Next]_vars
  PROVE  [Vault!Next]_(Vault!vars)
<1>i. VaultInv'
  BY VaultInvStep
<1>1. CASE Caller
  BY <1>1, <1>i, CallerStep
<1>2. CASE Provision
  <2>1. /\ ram = Factory /\ flash = None /\ backup = None
        /\ ram' = Factory /\ flash' = None /\ backup' = None /\ pc' = pc
    BY <1>2 DEF Provision, VaultInv, StorageInv
  <2>2. /\ Visible' = Visible /\ Recoverable' = Recoverable /\ Copied' = Copied
        /\ Phases[pc]' = Phases[pc]
    BY <2>1, FactoryDictionary DEF Visible, Recoverable, PackageOpens, Copied, Phases
  <2> QED BY <2>2 DEF Vault!vars
<1>3. CASE LoadStored
  <2>1. /\ Recoverable # None /\ Visible' = Recoverable /\ Recoverable' = Recoverable
        /\ Copied' = Copied /\ Phases[pc] = "starting" /\ Phases[pc]' = "ready"
    BY <1>3, RecoverableSomething DEF LoadStored, Visible, Recoverable, PackageOpens, Copied, Phases
  <2> QED BY <2>1 DEF Vault!Recover, Vault!Next
<1>4. CASE LoadFactory
  <2>1. /\ Recoverable = None /\ Visible' = Vault!Empty /\ Recoverable' = Recoverable
        /\ Copied' = Copied /\ Phases[pc] = "starting" /\ Phases[pc]' = "saving"
    BY <1>4, FactoryDictionary
       DEF LoadFactory, Save, Visible, Recoverable, PackageOpens, Copied, Phases
  <2> QED BY <2>1 DEF Vault!Recover, Vault!Next
<1>5. CASE EraseSector
  <2>1. /\ Recoverable' = None /\ Visible' = Visible
        /\ Copied' = Copied /\ Phases[pc] = "saving" /\ Phases[pc]' = "gap"
    BY <1>5 DEF EraseSector, Visible, Recoverable, PackageOpens, Copied, Phases
  <2> QED BY <2>1 DEF Vault!BeginSave, Vault!Next
<1>6. CASE ProgramPackage
  BY <1>6, SaveEnds DEF Vault!Next
<1>7. CASE PowerOn
  <2>1. /\ Copied' = Copied /\ Visible' = Visible /\ Recoverable' = Recoverable
        /\ Phases[pc] = "off" /\ Phases[pc]' = "starting"
    BY <1>7 DEF PowerOn, Copied, Visible, Recoverable, PackageOpens, Phases
  <2> QED BY <2>1 DEF Vault!Start, Vault!Next
<1>8. CASE PowerLoss
  BY <1>8, PowerLossStep DEF Vault!Next
<1>9. CASE UNCHANGED vars
  BY <1>9 DEF vars, Vault!vars, Visible, Recoverable, PackageOpens, Copied, Phases
<1> QED BY <1>1, <1>2, <1>3, <1>4, <1>5, <1>6, <1>7, <1>8, <1>9 DEF Next, Firmware

\* Slots, encryption under the device key, provisioning, the two steps of a
\* save, restarts and power losses together are the dictionary that loses its
\* content only to a power loss between those two steps: for every number of
\* slots, every set of names that are kept whole, and whatever images of other
\* devices are restored, whose credentials take room and cannot be read.  With
\* the 16 slots of the firmware, whose saves run on into the OTP sector, a save
\* may also lose the content, but never a part of it.
THEOREM StoreImplementsVault ==
  ASSUME VaultConditions
  PROVE  Spec => ImplementsVault
<1>1. Init => VaultInv
  BY InitInv, InitType, FactoryUnique DEF Init, VaultInv, UniqueInv
<1>2. VaultInv /\ [Next]_vars => VaultInv'
  BY VaultInvStep
<1>3. Init => Vault!Init
  BY FactoryDictionary
     DEF Init, Vault!Init, Visible, Recoverable, PackageOpens, Copied, Phases
<1>4. VaultInv /\ [Next]_vars => [Vault!Next]_(Vault!vars)
  BY VaultStep
<1> QED BY <1>1, <1>2, <1>3, <1>4, PTL DEF Spec, ImplementsVault, Vault!Spec

=============================================================================
