-------------------------- MODULE AppletStoresProofs --------------------------
(***************************************************************************)
(* Theorems about the storages of the other applets and of the HSM         *)
(* (AppletStores), for every number of key slots, credentials and key      *)
(* pairs, with and without hsm_init in the boot.                           *)
(***************************************************************************)
EXTENDS AppletStores, Integers, TLAPS

IsThird(package) ==
  package # None =>
    \/ package.by = "openpgp" /\ package \in PgpPackage
    \/ package.by = "hsm" /\ package \in HsmPackage
IsFourth(package) == package \in Fido2Package \cup {None}
Sectors(f) == f = [third |-> f.third, fourth |-> f.fourth]

\* A write changes the sector of the storage and leaves the other one alone.
LEMMA WriteThird ==
  ASSUME Sectors(flash), NEW store \in {"openpgp", "hsm"}, NEW package,
         flash' = [flash EXCEPT ![Sector[store]] = package]
  PROVE  Sectors(flash') /\ flash'.third = package /\ flash'.fourth = flash.fourth
<1>1. flash' = [flash EXCEPT !["third"] = package]
  <2>1. Sector[store] = "third"
    BY DEF Sector
  <2> QED BY <2>1
<1>2. flash = [third |-> flash.third, fourth |-> flash.fourth]
  BY DEF Sectors
<1>3. flash' = [third |-> package, fourth |-> flash.fourth]
  BY <1>1, <1>2
<1>4. flash'.third = package
  BY <1>3
<1>5. flash'.fourth = flash.fourth
  BY <1>3
<1> QED BY <1>3, <1>4, <1>5 DEF Sectors

LEMMA WriteFourth ==
  ASSUME Sectors(flash), NEW package, flash' = [flash EXCEPT ![Sector["fido2"]] = package]
  PROVE  Sectors(flash') /\ flash'.third = flash.third /\ flash'.fourth = package
<1>1. flash' = [flash EXCEPT !["fourth"] = package]
  BY DEF Sector
<1>2. flash = [third |-> flash.third, fourth |-> flash.fourth]
  BY DEF Sectors
<1>3. flash' = [third |-> flash.third, fourth |-> package]
  BY <1>1, <1>2
<1>4. flash'.third = flash.third
  BY <1>3
<1>5. flash'.fourth = package
  BY <1>3
<1> QED BY <1>3, <1>4, <1>5 DEF Sectors

\* What is written is a package.
LEMMA PackageTypes ==
  ASSUME StoresTypeOK
  PROVE  /\ IsThird(Package("openpgp", pgp)) /\ IsThird(Package("hsm", hsm))
         /\ IsFourth(Package("fido2", fido))
         /\ IsThird(Torn("openpgp")) /\ IsThird(Torn("hsm")) /\ IsFourth(Torn("fido2"))
         /\ IsThird(None) /\ IsFourth(None)
BY DEF StoresTypeOK, IsThird, IsFourth, Package, Torn, PgpPackage, HsmPackage, Fido2Package

LEMMA PackagesAreSomething ==
  ASSUME StoresTypeOK
  PROVE  /\ Package("openpgp", pgp) # None
         /\ Package("hsm", hsm) # None
         /\ Package("fido2", fido) # None
<1>1. /\ Package("openpgp", pgp) \in PgpPackage /\ Package("hsm", hsm) \in HsmPackage
      /\ Package("fido2", fido) \in Fido2Package
  BY DEF StoresTypeOK, Package, PgpPackage, HsmPackage, Fido2Package
<1> QED BY <1>1, NoneAssumption

\* The type invariant of the flash, sector by sector.
FlashOK == Sectors(flash) /\ IsThird(flash.third) /\ IsFourth(flash.fourth)

LEMMA FlashTypeOK == StoresTypeOK => FlashOK
BY DEF StoresTypeOK, FlashOK, Sectors, IsThird, IsFourth

\* Writing a package of a storage keeps the flash well typed.
LEMMA WriteType ==
  ASSUME StoresTypeOK, NEW store \in Stores, NEW package,
         package \in {None, Torn(store), Package(store, Cached[store])},
         flash' = [flash EXCEPT ![Sector[store]] = package]
  PROVE  FlashOK'
<1>1. FlashOK
  BY FlashTypeOK
<1>2. Cached["openpgp"] = pgp /\ Cached["hsm"] = hsm /\ Cached["fido2"] = fido
  BY DEF Cached
<1>3. CASE store \in {"openpgp", "hsm"}
  <2>1. IsThird(package)
    BY <1>2, <1>3, PackageTypes
  <2>2. Sectors(flash') /\ flash'.third = package /\ flash'.fourth = flash.fourth
    BY <1>1, <1>3, WriteThird DEF FlashOK
  <2> QED BY <1>1, <2>1, <2>2 DEF FlashOK
<1>4. CASE store = "fido2"
  <2>1. IsFourth(package)
    BY <1>2, <1>4, PackageTypes
  <2>2. Sectors(flash') /\ flash'.third = flash.third /\ flash'.fourth = package
    BY <1>1, <1>4, WriteFourth DEF FlashOK
  <2> QED BY <1>1, <2>1, <2>2 DEF FlashOK
<1> QED BY <1>3, <1>4 DEF Stores

\* What the initialisations load.
LEMMA NothingLoads ==
  ASSUME StoresTypeOK
  PROVE  /\ Found("openpgp") => ~Authentic(flash.third)
         /\ Found("fido2") => ~Authentic(flash.fourth)
         /\ Found("hsm") /\ Authentic(flash.third) => flash.third.content \in KeySlots
<1>1. FlashOK
  BY FlashTypeOK
<1>2. Found("hsm") /\ Authentic(flash.third) => flash.third.content \in KeySlots
  BY <1>1 DEF FlashOK, Found, Sector, Authentic, IsThird, HsmPackage
<1> QED BY <1>1, <1>2 DEF Found, Sector, Authentic, Swapped

LEMMA NoKeysType == NoKeys \in KeySlots
BY DEF NoKeys, KeySlots

LEMMA BeginType ==
  ASSUME NEW store \in Stores, Begin(store)
  PROVE  job' \in Job /\ job'.store = store /\ job'.step = "erase"
BY DEF Begin, Job

LEMMA GenerateType ==
  ASSUME StoresTypeOK, NEW slot \in HsmSlots, Generate(slot)
  PROVE  /\ issued + 1 \in Keys /\ issued' \in 0..MaxKeys
         /\ hsm' \in KeySlots /\ job' \in Job
<1>1. issued + 1 \in Keys /\ issued' = issued + 1
  BY StoresAssumption DEF StoresTypeOK, Generate, Keys
<1>2. hsm' = [hsm EXCEPT ![slot] = issued + 1] /\ Begin("hsm")
  BY DEF Generate
<1>3. hsm' \in KeySlots
  BY <1>1, <1>2 DEF StoresTypeOK, KeySlots
<1>4. issued' \in 0..MaxKeys
  BY <1>1, StoresAssumption DEF Keys
<1> QED BY <1>1, <1>2, <1>3, <1>4, BeginType DEF Stores

LEMMA TodoStep ==
  ASSUME StoresTypeOK, NEW store, Starts(store)
  PROVE  todo' \in Seq(Stores)
BY DEF StoresTypeOK, Starts

LEMMA InitType == Init => StoresTypeOK
<1> SUFFICES ASSUME Init PROVE StoresTypeOK
  OBVIOUS
<1>1. hsm \in KeySlots /\ 0 \in 0..MaxKeys /\ 0 <= FIDO2_MAX_CREDENTIALS
  BY NoKeysType, StoresAssumption DEF Init
<1>2. fido \in Seq(Keys) /\ Len(fido) = 0 /\ todo \in Seq(Stores)
  BY DEF Init
<1>3. flash = [third |-> None, fourth |-> None]
  BY DEF Init
<1>4. flash.third = None /\ flash.fourth = None
  BY <1>3
<1>5. flash = [third |-> flash.third, fourth |-> flash.fourth]
  BY <1>3, <1>4
<1> QED BY <1>1, <1>2, <1>4, <1>5 DEF Init, StoresTypeOK

LEMMA NextType == StoresTypeOK /\ [Next]_vars => StoresTypeOK'
<1> SUFFICES ASSUME StoresTypeOK, [Next]_vars PROVE StoresTypeOK'
  OBVIOUS
<1>f. UNCHANGED flash => FlashOK'
  BY FlashTypeOK DEF FlashOK
<1>e. <<>> \in Seq(Stores) /\ <<>> \in Seq(Keys) /\ Len(<<>>) <= FIDO2_MAX_CREDENTIALS
  BY StoresAssumption
<1>1. CASE PowerOn \/ Reinit
  <2>1. todo' \in Seq(Stores)
    <3>1. <<"openpgp", "fido2">> \in Seq(Stores) /\ <<"openpgp", "fido2", "hsm">> \in Seq(Stores)
      BY DEF Stores
    <3> QED BY <1>1, <3>1 DEF PowerOn, Reinit
  <2> QED BY <1>1, <1>f, <2>1 DEF PowerOn, Reinit, StoresTypeOK, FlashOK, Sectors, IsThird, IsFourth
<1>2. CASE PowerLoss
  <2>1. FlashOK'
    BY <1>2, <1>f, WriteType DEF PowerLoss, StoresTypeOK, Job
  <2> QED BY <1>2, <1>e, <2>1, NoKeysType
          DEF PowerLoss, Dark, StoresTypeOK, FlashOK, Sectors, IsThird, IsFourth
<1>3. CASE EraseSector
  <2>1. FlashOK'
    BY <1>3, WriteType DEF EraseSector, StoresTypeOK, Job
  <2>2. job' \in Job
    BY <1>3 DEF EraseSector, StoresTypeOK, Job
  <2> QED BY <1>3, <2>1, <2>2 DEF EraseSector, StoresTypeOK, FlashOK, Sectors, IsThird, IsFourth
<1>4. CASE ProgramSector
  <2>1. FlashOK'
    BY <1>4, WriteType DEF ProgramSector, StoresTypeOK, Job
  <2> QED BY <1>4, <2>1 DEF ProgramSector, StoresTypeOK, FlashOK, Sectors, IsThird, IsFourth
<1>5. CASE OpenPgpInit
  <2>1. /\ pgp' \in {pgp, "defaults"} /\ job' \in Job \cup {None}
        /\ UNCHANGED <<powered, flash, fido, hsm, rng, call, issued>>
    BY <1>5, NothingLoads, BeginType DEF OpenPgpInit, Stores, Starts
  <2> QED BY <1>5, <1>f, <2>1, TodoStep
          DEF OpenPgpInit, StoresTypeOK, FlashOK, Sectors, IsThird, IsFourth
<1>6. CASE Fido2Init
  <2>1. fido' = <<>> /\ job' \in Job \cup {None}
    BY <1>6, NothingLoads, BeginType DEF Fido2Init, Stores, Starts
  <2> QED BY <1>6, <1>e, <1>f, <2>1, TodoStep
          DEF Fido2Init, StoresTypeOK, FlashOK, Sectors, IsThird, IsFourth
<1>7. CASE HsmInit
  <2>1. hsm' \in KeySlots /\ job' \in Job \cup {None}
    BY <1>7, NothingLoads, NoKeysType, BeginType DEF HsmInit, Stores, Starts
  <2> QED BY <1>7, <1>f, <2>1, TodoStep
          DEF HsmInit, StoresTypeOK, FlashOK, Sectors, IsThird, IsFourth
<1>8. ASSUME NEW slot \in HsmSlots, GenerateKey(slot) PROVE StoresTypeOK'
  BY <1>8, <1>f, GenerateType
     DEF GenerateKey, StoresTypeOK, FlashOK, Sectors, IsThird, IsFourth
<1>9. ASSUME NEW slot \in HsmSlots, DeleteKey(slot) PROVE StoresTypeOK'
  <2>1. hsm' \in KeySlots /\ job' \in Job
    BY <1>9, BeginType DEF DeleteKey, StoresTypeOK, KeySlots, Stores
  <2> QED BY <1>9, <1>f, <2>1 DEF DeleteKey, StoresTypeOK, FlashOK, Sectors, IsThird, IsFourth
<1>10. CASE MakeCredential
  <2>1. 0 \in HsmSlots
    BY StoresAssumption DEF HsmSlots
  <2>2. call' \in Call /\ issued' \in 0..MaxKeys /\ hsm' \in KeySlots /\ job' \in Job
    BY <1>10, <2>1, GenerateType DEF MakeCredential, Call
  <2> QED BY <1>10, <1>f, <2>2
          DEF MakeCredential, StoresTypeOK, FlashOK, Sectors, IsThird, IsFourth
<1>11. CASE StoreCredential
  <2>1. call \in Call /\ call' \in Call
    BY <1>11 DEF StoreCredential, StoresTypeOK, Call
  <2>2. fido' \in Seq(Keys) /\ Len(fido') <= FIDO2_MAX_CREDENTIALS
    <3>1. fido \in Seq(Keys) /\ Len(fido) <= FIDO2_MAX_CREDENTIALS /\ call.id \in Keys
      BY <2>1 DEF StoresTypeOK, Call
    <3>2. Append(fido, call.id) \in Seq(Keys) /\ Len(Append(fido, call.id)) = Len(fido) + 1
      BY <3>1
    <3>3. Len(fido) < FIDO2_MAX_CREDENTIALS => Len(fido) + 1 <= FIDO2_MAX_CREDENTIALS
      BY <3>1, StoresAssumption
    <3> QED BY <1>11, <3>1, <3>2, <3>3 DEF StoreCredential
  <2>3. job' \in Job \cup {None}
    BY <1>11, BeginType DEF StoreCredential, Stores, Free
  <2> QED BY <1>11, <1>f, <2>1, <2>2, <2>3
          DEF StoreCredential, StoresTypeOK, FlashOK, Sectors, IsThird, IsFourth
<1>12. CASE AnswerCredential
  BY <1>12, <1>f DEF AnswerCredential, StoresTypeOK, FlashOK, Sectors, IsThird, IsFourth
<1>13. CASE UNCHANGED vars
  BY <1>13, <1>f DEF vars, device, StoresTypeOK, FlashOK, Sectors, IsThird, IsFourth
<1> QED BY <1>1, <1>2, <1>3, <1>4, <1>5, <1>6, <1>7, <1>8, <1>9, <1>10, <1>11, <1>12, <1>13
        DEF Next, Firmware

\* Every sector holds nothing or a package of a storage that writes it, and the
\* table of credentials never outgrows its capacity.
THEOREM StoresTypeCorrect == Spec => []StoresTypeOK
<1> QED BY InitType, NextType, PTL DEF Spec

-----------------------------------------------------------------------------
(***************************************************************************)
(* The sectors after the boot.                                             *)
(***************************************************************************)

\* The two halves of the invariant, one for each sector.
ThirdSettled ==
  powered /\ PgpDone /\ ~Saving("openpgp") /\ ~Saving("hsm") =>
    /\ flash.third # None
    /\ flash.third.by = "hsm" => flash.third.content = hsm
FourthSettled ==
  powered /\ Fido2Done /\ ~Saving("fido2") =>
    /\ flash.fourth # None
    /\ flash.fourth.content = fido \/ fido = <<>>
TodoOK == PgpDone \/ todo \in {<<"openpgp", "fido2">>, <<"openpgp", "fido2", "hsm">>}

LEMMA InvParts == StoresInv <=> StoresTypeOK /\ TodoOK /\ ThirdSettled /\ FourthSettled
BY DEF StoresInv, TodoOK, ThirdSettled, FourthSettled

\* The initialisations run in their order.
LEMMA TodoOrder ==
  ASSUME TodoOK, NEW store, Starts(store)
  PROVE  /\ job = None /\ powered /\ TodoOK' /\ PgpDone'
         /\ store = "openpgp" => ~Fido2Done'
         /\ store = "fido2" => PgpDone /\ ~Fido2Done /\ Fido2Done'
         /\ store = "hsm" => PgpDone /\ Fido2Done /\ Fido2Done'
<1>1. /\ Head(<<"openpgp", "fido2">>) = "openpgp" /\ Tail(<<"openpgp", "fido2">>) = <<"fido2">>
      /\ Head(<<"openpgp", "fido2", "hsm">>) = "openpgp"
      /\ Tail(<<"openpgp", "fido2", "hsm">>) = <<"fido2", "hsm">>
      /\ Head(<<"fido2", "hsm">>) = "fido2" /\ Tail(<<"fido2", "hsm">>) = <<"hsm">>
      /\ Head(<<"fido2">>) = "fido2" /\ Tail(<<"fido2">>) = <<>>
      /\ Head(<<"hsm">>) = "hsm" /\ Tail(<<"hsm">>) = <<>>
  OBVIOUS
<1>2. <<"openpgp", "fido2">> \notin {<<>>, <<"hsm">>}
  OBVIOUS
<1>3. <<"openpgp", "fido2", "hsm">> \notin {<<>>, <<"hsm">>}
  OBVIOUS
<1>4. <<"fido2">> \notin {<<>>, <<"hsm">>} /\ <<"fido2", "hsm">> \notin {<<>>, <<"hsm">>}
  OBVIOUS
<1>5. job = None /\ powered /\ todo # <<>> /\ store = Head(todo) /\ todo' = Tail(todo)
  BY DEF Starts
<1>6. CASE todo \in {<<"openpgp", "fido2">>, <<"openpgp", "fido2", "hsm">>}
  <2>1. store = "openpgp" /\ todo' \in {<<"fido2">>, <<"fido2", "hsm">>}
    BY <1>1, <1>5, <1>6
  <2> QED BY <1>4, <1>5, <2>1 DEF TodoOK, PgpDone, Fido2Done
<1>7. CASE todo \in {<<"fido2">>, <<"fido2", "hsm">>}
  <2>1. store = "fido2" /\ todo' \in {<<>>, <<"hsm">>}
    BY <1>1, <1>5, <1>7
  <2> QED BY <1>4, <1>5, <1>7, <2>1 DEF TodoOK, PgpDone, Fido2Done
<1>8. CASE todo = <<"hsm">>
  <2>1. store = "hsm" /\ todo' = <<>>
    BY <1>1, <1>5, <1>8
  <2> QED BY <1>5, <1>8, <2>1 DEF TodoOK, PgpDone, Fido2Done
<1> QED BY <1>5, <1>6, <1>7, <1>8 DEF TodoOK, PgpDone

\* A save that begins takes its sector out of the invariant.
LEMMA BeginSaves ==
  ASSUME NEW store \in Stores, Begin(store)
  PROVE  Saving(store)' /\ \A other \in Stores \ {store} : ~Saving(other)'
<1>1. job' \in Job /\ job'.store = store
  BY BeginType
<1> QED BY <1>1, NoneAssumption DEF Saving

LEMMA InitInv == Init => StoresInv
BY InitType DEF Init, StoresInv, PgpDone

LEMMA ProgramInv ==
  ASSUME StoresInv, ProgramSector
  PROVE  ThirdSettled' /\ FourthSettled'
<1>1. /\ job \in Job /\ job' = None /\ UNCHANGED <<powered, todo, fido, hsm>>
      /\ flash' = [flash EXCEPT ![Sector[job.store]] = Package(job.store, Cached[job.store])]
  BY DEF ProgramSector, StoresInv, StoresTypeOK
<1>2. Sectors(flash) /\ job.store \in Stores
  BY <1>1, FlashTypeOK DEF FlashOK, StoresInv, Job
<1>3. ThirdSettled /\ FourthSettled
  BY InvParts
<1>4. Cached["openpgp"] = pgp /\ Cached["hsm"] = hsm /\ Cached["fido2"] = fido
  BY DEF Cached
<1>5. \A s, c : Package(s, c).by = s /\ Package(s, c).content = c
  BY DEF Package
<1>6. CASE job.store = "openpgp"
  <2>1. flash'.third = Package("openpgp", pgp) /\ flash'.fourth = flash.fourth
    BY <1>1, <1>2, <1>4, <1>6, WriteThird
  <2>2. flash'.third # None /\ flash'.third.by # "hsm"
    BY <1>5, <2>1, PackagesAreSomething DEF StoresInv
  <2>3. ~Saving("fido2")
    BY <1>6 DEF Saving
  <2> QED BY <1>1, <1>3, <2>1, <2>2, <2>3 DEF ThirdSettled, FourthSettled, Fido2Done
<1>7. CASE job.store = "hsm"
  <2>1. flash'.third = Package("hsm", hsm) /\ flash'.fourth = flash.fourth
    BY <1>1, <1>2, <1>4, <1>7, WriteThird
  <2>2. flash'.third # None /\ flash'.third.content = hsm
    BY <1>5, <2>1, PackagesAreSomething DEF StoresInv
  <2>3. ~Saving("fido2")
    BY <1>7 DEF Saving
  <2> QED BY <1>1, <1>3, <2>1, <2>2, <2>3 DEF ThirdSettled, FourthSettled, Fido2Done
<1>8. CASE job.store = "fido2"
  <2>1. flash'.third = flash.third /\ flash'.fourth = Package("fido2", fido)
    BY <1>1, <1>2, <1>4, <1>8, WriteFourth
  <2>2. flash'.fourth # None /\ flash'.fourth.content = fido
    BY <1>5, <2>1, PackagesAreSomething DEF StoresInv
  <2>3. ~Saving("openpgp") /\ ~Saving("hsm")
    BY <1>8 DEF Saving
  <2> QED BY <1>1, <1>3, <2>1, <2>2, <2>3 DEF ThirdSettled, FourthSettled, PgpDone
<1> QED BY <1>2, <1>6, <1>7, <1>8 DEF Stores

LEMMA EraseInv ==
  ASSUME StoresInv, EraseSector
  PROVE  ThirdSettled' /\ FourthSettled'
<1>1. /\ job \in Job /\ job' = [job EXCEPT !.step = "program"]
      /\ UNCHANGED <<powered, todo, fido, hsm>>
      /\ flash' = [flash EXCEPT ![Sector[job.store]] = None]
  BY DEF EraseSector, StoresInv, StoresTypeOK
<1>2. job' \in Job /\ job'.store = job.store /\ job' # None /\ job # None
  BY <1>1, NoneAssumption DEF Job
<1>3. \A store : Saving(store)' <=> Saving(store)
  BY <1>2 DEF Saving
<1>4. Sectors(flash) /\ job.store \in Stores /\ ThirdSettled /\ FourthSettled
  BY <1>1, FlashTypeOK, InvParts DEF FlashOK, StoresInv, Job
<1>5. CASE job.store \in {"openpgp", "hsm"}
  <2>1. flash'.fourth = flash.fourth /\ (Saving("openpgp") \/ Saving("hsm"))
    BY <1>1, <1>2, <1>4, <1>5, WriteThird DEF Saving
  <2> QED BY <1>1, <1>3, <1>4, <2>1 DEF ThirdSettled, FourthSettled, Fido2Done
<1>6. CASE job.store = "fido2"
  <2>1. flash'.third = flash.third /\ Saving("fido2")
    BY <1>1, <1>2, <1>4, <1>6, WriteFourth DEF Saving
  <2> QED BY <1>1, <1>3, <1>4, <2>1 DEF ThirdSettled, FourthSettled, PgpDone
<1> QED BY <1>4, <1>5, <1>6 DEF Stores

LEMMA NextInv == StoresInv /\ [Next]_vars => StoresInv'
<1> SUFFICES ASSUME StoresInv, [Next]_vars PROVE StoresInv'
  OBVIOUS
<1>t. StoresTypeOK /\ TodoOK /\ ThirdSettled /\ FourthSettled /\ StoresTypeOK'
  BY InvParts, NextType
<1>g. TodoOK' /\ ThirdSettled' /\ FourthSettled' => StoresInv'
  BY <1>t DEF StoresInv, TodoOK, ThirdSettled, FourthSettled
<1>1. CASE PowerOn
  <2>1. todo' \in {<<"openpgp", "fido2">>, <<"openpgp", "fido2", "hsm">>}
    BY <1>1 DEF PowerOn
  <2> QED BY <1>g, <2>1 DEF TodoOK, ThirdSettled, FourthSettled, PgpDone, Fido2Done
<1>2. CASE Reinit
  BY <1>2, <1>g DEF Reinit, TodoOK, ThirdSettled, FourthSettled, PgpDone, Fido2Done
<1>3. CASE PowerLoss
  BY <1>3, <1>g DEF PowerLoss, Dark, TodoOK, ThirdSettled, FourthSettled, PgpDone
<1>4. CASE EraseSector
  <2>1. TodoOK'
    BY <1>t, <1>4 DEF EraseSector, TodoOK, PgpDone
  <2> QED BY <1>4, <1>g, <2>1, EraseInv
<1>5. CASE ProgramSector
  <2>1. TodoOK'
    BY <1>t, <1>5 DEF ProgramSector, TodoOK, PgpDone
  <2> QED BY <1>5, <1>g, <2>1, ProgramInv
<1>6. CASE OpenPgpInit
  <2>1. TodoOK' /\ PgpDone' /\ ~Fido2Done' /\ job = None
    BY <1>t, <1>6, TodoOrder DEF OpenPgpInit
  <2>2. CASE Found("openpgp") /\ UNCHANGED job
    <3>1. flash.third # None /\ flash.third.by = "openpgp"
      BY <2>2 DEF Found, Sector
    <3> QED BY <1>6, <1>g, <2>1, <3>1 DEF OpenPgpInit, ThirdSettled, FourthSettled
  <2>3. CASE Begin("openpgp")
    BY <1>g, <2>1, <2>3, BeginSaves DEF ThirdSettled, FourthSettled, Stores
  <2> QED BY <1>6, <2>2, <2>3 DEF OpenPgpInit
<1>7. CASE Fido2Init
  <2>1. TodoOK' /\ PgpDone /\ job = None /\ powered
    BY <1>t, <1>7, TodoOrder DEF Fido2Init
  <2>2. fido' = <<>> /\ UNCHANGED <<powered, flash, hsm>>
    BY <1>t, <1>7, NothingLoads DEF Fido2Init
  <2>3. flash'.third # None /\ (flash'.third.by = "hsm" => flash'.third.content = hsm')
    BY <1>t, <2>1, <2>2 DEF ThirdSettled, Saving
  <2>4. Found("fido2") \/ Begin("fido2")
    BY <1>7 DEF Fido2Init
  <2>5. Found("fido2") => flash.fourth # None
    BY DEF Found, Sector
  <2>6. Begin("fido2") => Saving("fido2")'
    BY BeginSaves DEF Stores
  <2> QED BY <1>g, <2>1, <2>2, <2>3, <2>4, <2>5, <2>6 DEF ThirdSettled, FourthSettled
<1>8. CASE HsmInit
  <2>1. TodoOK' /\ PgpDone /\ Fido2Done /\ job = None /\ powered
    BY <1>t, <1>8, TodoOrder DEF HsmInit
  <2>2. UNCHANGED <<powered, flash, fido>>
    BY <1>8 DEF HsmInit
  <2>3. FourthSettled'
    BY <1>t, <2>1, <2>2 DEF FourthSettled, Saving
  <2>4. flash.third # None
    BY <1>t, <2>1 DEF ThirdSettled, Saving
  <2>5. CASE hsm' = flash.third.content
    BY <1>g, <2>1, <2>2, <2>3, <2>4, <2>5 DEF ThirdSettled
  <2>6. CASE Begin("hsm")
    BY <1>g, <2>1, <2>3, <2>6, BeginSaves DEF ThirdSettled, Stores
  <2> QED BY <1>8, <2>5, <2>6 DEF HsmInit
<1>9. ASSUME job = None, Begin("hsm"), UNCHANGED <<powered, todo, flash, fido>> PROVE StoresInv'
  <2>1. TodoOK' /\ Saving("hsm")'
    BY <1>t, <1>9, BeginSaves DEF TodoOK, PgpDone, Stores
  <2>2. FourthSettled'
    BY <1>t, <1>9 DEF FourthSettled, Fido2Done, Saving
  <2> QED BY <1>g, <2>1, <2>2 DEF ThirdSettled
<1>10. CASE (\E slot \in HsmSlots : GenerateKey(slot) \/ DeleteKey(slot)) \/ MakeCredential
  BY <1>9, <1>10 DEF GenerateKey, DeleteKey, MakeCredential, Generate, Idle, Free
<1>11. CASE StoreCredential
  <2>1. TodoOK' /\ job = None /\ UNCHANGED <<powered, todo, flash, hsm>>
    BY <1>t, <1>11 DEF StoreCredential, Free, TodoOK, PgpDone
  <2>2. ThirdSettled'
    <3>1. PgpDone' => PgpDone
      BY <2>1 DEF PgpDone
    <3> QED BY <1>t, <2>1, <3>1 DEF ThirdSettled, Saving
  <2>3. FourthSettled'
    <3>1. CASE Begin("fido2")
      BY <3>1, BeginSaves DEF FourthSettled, Stores
    <3>2. CASE UNCHANGED <<fido, job>>
      BY <1>t, <2>1, <3>2 DEF FourthSettled, Saving, Fido2Done
    <3> QED BY <1>11, <3>1, <3>2 DEF StoreCredential
  <2> QED BY <1>g, <2>1, <2>2, <2>3
<1>12. CASE AnswerCredential \/ UNCHANGED vars
  BY <1>t, <1>g, <1>12 DEF AnswerCredential, vars, device, TodoOK, ThirdSettled, FourthSettled,
     PgpDone, Fido2Done, Saving
<1> QED BY <1>1, <1>2, <1>3, <1>4, <1>5, <1>6, <1>7, <1>8, <1>10, <1>11, <1>12 DEF Next, Firmware

LEMMA StoresInvariant == Spec => []StoresInv
<1> QED BY InitInv, NextInv, PTL DEF Spec

\* Whatever saves the power cut short, a device that takes calls has both
\* sectors written, and no torn package of the HSM in the one it shares.
THEOREM BothSectorsWritten == Spec => []SectorsWritten
<1>1. StoresInv => SectorsWritten
  <2> SUFFICES ASSUME StoresInv, Idle PROVE SectorsWritten
    BY DEF SectorsWritten
  <2>1. powered /\ PgpDone /\ Fido2Done /\ \A store : ~Saving(store)
    BY DEF Idle, Free, PgpDone, Fido2Done, Saving
  <2>2. hsm # None
    BY NoneAssumption DEF StoresInv, StoresTypeOK
  <2>3. Torn("hsm").by = "hsm" /\ Torn("hsm").content = None
    BY DEF Torn, Package
  <2> QED BY <2>1, <2>2, <2>3 DEF StoresInv, SectorsWritten
<1> QED BY <1>1, StoresInvariant, PTL

\* The last writer of a sector has on flash what it has in RAM; for the shared
\* sector that holds for the HSM although OpenPGP may overwrite it at a boot.
THEOREM LastWriterAgrees == Spec => []WriterAgrees
<1>1. StoresInv => WriterAgrees
  BY DEF StoresInv, WriterAgrees, Idle, Free, PgpDone, Fido2Done, Saving
<1> QED BY <1>1, StoresInvariant, PTL

=============================================================================
