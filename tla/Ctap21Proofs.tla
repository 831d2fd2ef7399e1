---------------------------- MODULE Ctap21Proofs ----------------------------
(***************************************************************************)
(* Proofs about the CTAP 2.1 commands: types, who grants an enterprise     *)
(* attestation, and that the array of resident keys implements a bounded   *)
(* table.                                                                  *)
(***************************************************************************)
EXTENDS Ctap21, Integers, SequenceTheorems, WellFoundedInduction, TLAPS

\* What memcmp finds is a place in use with the id, and the first of them.
LEMMA FirstFound ==
  ASSUME NEW id, credential_count \in 0..MaxKeys, Matching(id) # {}
  PROVE  /\ FoundAt(id) \in InUse
         /\ resident_keys[FoundAt(id)].id = id
         /\ \A j \in InUse : j < FoundAt(id) => resident_keys[j].id # id
<1>1. Matching(id) \in SUBSET Nat
  BY Ctap21Assumption DEF Matching, InUse
<1>2. \E m \in Matching(id) : \A k \in Matching(id) : m <= k
  <2> DEFINE Below == OpToRel(<, Nat)
  <2>1. \A k, m \in Nat : k < m => <<k, m>> \in Below
    BY DEF OpToRel
  <2>2. IsWellFoundedOn(Below, Nat)
    BY NatLessThanWellFounded
  <2> HIDE DEF Below
  <2>3. PICK m \in Matching(id) : \A k \in Matching(id) : ~ (<<k, m>> \in Below)
    BY <1>1, <2>2, WFMin
  <2>4. \A k \in Matching(id) : k \in Nat /\ m \in Nat /\ ~ (k < m)
    BY <1>1, <2>1, <2>3
  <2>5. \A k \in Matching(id) : m <= k
    BY <2>4
  <2> QED BY <2>5
<1>3. FoundAt(id) \in Matching(id) /\ \A k \in Matching(id) : FoundAt(id) <= k
  BY <1>2 DEF FoundAt
<1> QED BY <1>1, <1>3, Ctap21Assumption DEF Matching, InUse

LEMMA EmptyTable == /\ Empty \in [Positions -> Keys \cup {None}]
                    /\ Defaults \in [enterprise_enabled : BOOLEAN, always_uv : BOOLEAN,
                                     min_pin_length : MIN_PIN..MAX_PIN]
                    /\ 0 \in 0..MaxKeys
                    /\ 0..(0 - 1) = {}
BY Ctap21Assumption DEF Empty, Defaults, MIN_PIN, MAX_PIN, DEFAULT_PIN

LEMMA CtapInit == Init => CtapInv
<1> SUFFICES ASSUME Init PROVE CtapInv
  OBVIOUS
<1>1. Ctap21TypeOK
  BY EmptyTable DEF Init, Ctap21TypeOK, Statuses
<1>2. \A i \in InUse : resident_keys[i] \in Keys
  BY EmptyTable DEF Init, InUse
<1>3. ~ permitted /\ answer # "ATTESTED" /\ ~ config.enterprise_enabled
  BY DEF Init, Defaults
<1> QED BY <1>1, <1>2, <1>3 DEF CtapInv, AttestedIfPermitted

\* An answer to a command that changes nothing keeps the invariant.
LEMMA AnsweredOnly ==
  ASSUME CtapInv, ReadOnly, answer' \in Statuses \ {"ATTESTED"}
  PROVE  CtapInv'
BY DEF CtapInv, ReadOnly, keys, Ctap21TypeOK, AttestedIfPermitted, InUse

LEMMA CtapNext == CtapInv /\ [Next]_ctapVars => CtapInv'
<1> SUFFICES ASSUME CtapInv, [Next]_ctapVars PROVE CtapInv'
  OBVIOUS
<1> USE Ctap21Assumption
<1>t. Ctap21TypeOK /\ credential_count \in 0..MaxKeys
  BY DEF CtapInv, Ctap21TypeOK
<1>1. CASE Reset
  BY <1>1, EmptyTable DEF Reset, CtapInv, Ctap21TypeOK, AttestedIfPermitted, Defaults, InUse,
                          Statuses
<1>2. CASE Command
  <2>1. CASE ReadOnly /\ answer' \in Statuses \ {"ATTESTED"}
    BY <2>1, AnsweredOnly
  <2>2. CASE EnableEnterprise
    BY <2>2, AnsweredOnly DEF EnableEnterprise, Answer, CtapInv, Ctap21TypeOK,
       AttestedIfPermitted, keys, InUse, Statuses
  <2>3. ASSUME NEW enable \in BOOLEAN, ToggleAlwaysUv(enable) PROVE CtapInv'
    BY <2>3 DEF ToggleAlwaysUv, Answer, CtapInv, Ctap21TypeOK, AttestedIfPermitted, keys,
                InUse, Statuses
  <2>4. ASSUME NEW length \in PinLengths, SetMinPinLength(length) PROVE CtapInv'
    BY <2>4, AnsweredOnly DEF SetMinPinLength, Answer, CtapInv, Ctap21TypeOK,
       AttestedIfPermitted, keys, InUse, Statuses
  <2> QED
    BY <1>2, <2>1, <2>2, <2>3, <2>4 DEF Command, GetCredentials, GetNextAssertion,
       SelectionSelect, SelectionGetOrBioInfo, UnknownCommand, UnknownConfig, Answer, Statuses
<1>3. CASE Function
  <2>1. ASSUME NEW key \in Keys, StoreResidentKey(key) PROVE CtapInv'
    <3>1. CASE credential_count >= MaxKeys
      BY <2>1, <3>1, <1>t, AnsweredOnly DEF StoreResidentKey, Answer, Statuses
    <3>2. CASE credential_count < MaxKeys
      <4>1. /\ resident_keys' = [resident_keys EXCEPT ![credential_count] = key]
            /\ credential_count' = credential_count + 1
            /\ answer' = "success" /\ UNCHANGED <<options, config, permitted, named>>
        BY <2>1, <3>2, <1>t DEF StoreResidentKey, Answer
      <4>2. /\ credential_count \in Positions /\ credential_count' \in 0..MaxKeys
            /\ \A i \in InUse' : i \in Positions /\ (i \in InUse \/ i = credential_count)
        BY <4>1, <3>2, <1>t DEF Positions, InUse
      <4>3. /\ resident_keys' \in [Positions -> Keys \cup {None}]
            /\ \A i \in InUse' : resident_keys'[i] \in Keys
        BY <4>1, <4>2 DEF CtapInv, Ctap21TypeOK
      <4> QED BY <4>1, <4>2, <4>3 DEF CtapInv, Ctap21TypeOK, AttestedIfPermitted, Statuses
    <3> QED BY <3>1, <3>2, <1>t
  <2>2. ASSUME NEW id \in Ids, DeleteCredential(id) PROVE CtapInv'
    <3>1. CASE Matching(id) = {}
      BY <2>2, <3>1, AnsweredOnly DEF DeleteCredential, Answer, Statuses
    <3>2. CASE Matching(id) # {}
      <4>1. /\ resident_keys' =
                 [i \in Positions |->
                    IF i = credential_count - 1 THEN None
                    ELSE resident_keys[IF FoundAt(id) <= i /\ i < credential_count THEN i + 1
                                                                                   ELSE i]]
            /\ credential_count' = credential_count - 1 /\ named' = id
            /\ answer' = "success" /\ UNCHANGED <<options, config, permitted>>
        BY <2>2, <3>2 DEF DeleteCredential, Answer
      <4>2. FoundAt(id) \in InUse
        BY <1>t, <3>2, FirstFound
      <4>3. credential_count \in 1..MaxKeys /\ credential_count' \in 0..MaxKeys
        BY <1>t, <4>1, <4>2 DEF InUse
      <4>4. ASSUME NEW i \in Positions
            PROVE  resident_keys'[i] \in Keys \cup {None}
        <5>1. CASE i = credential_count - 1
          BY <4>1, <5>1
        <5>2. CASE i # credential_count - 1 /\ FoundAt(id) <= i /\ i < credential_count
          <6>1. i + 1 \in Positions
            BY <4>3, <5>2 DEF Positions
          <6> QED BY <4>1, <5>2, <6>1, <1>t DEF Ctap21TypeOK
        <5>3. CASE i # credential_count - 1 /\ ~(FoundAt(id) <= i /\ i < credential_count)
          BY <4>1, <5>3, <1>t DEF Ctap21TypeOK
        <5> QED BY <5>1, <5>2, <5>3
      <4>5. ASSUME NEW i \in InUse'
            PROVE  resident_keys'[i] \in Keys
        <5>1. i \in Positions /\ i # credential_count - 1 /\ i \in InUse /\ i + 1 \in InUse
          BY <4>1, <4>3 DEF InUse, Positions
        <5> QED BY <4>1, <5>1 DEF CtapInv
      <4>6. resident_keys' \in [Positions -> Keys \cup {None}]
        BY <4>1, <4>4
      <4> QED BY <4>1, <4>3, <4>5, <4>6 DEF CtapInv, Ctap21TypeOK, AttestedIfPermitted, Statuses
    <3> QED BY <3>1, <3>2
  <2>3. ASSUME NEW id \in Ids, NEW user \in Users, UpdateUser(id, user) PROVE CtapInv'
    <3>1. CASE Matching(id) = {}
      BY <2>3, <3>1, AnsweredOnly DEF UpdateUser, Answer, Statuses
    <3>2. CASE Matching(id) # {}
      <4>1. /\ resident_keys' = [resident_keys EXCEPT ![FoundAt(id)].user = user]
            /\ named' = id /\ answer' = "success"
            /\ UNCHANGED <<options, config, credential_count, permitted>>
        BY <2>3, <3>2 DEF UpdateUser, Answer
      <4>2. FoundAt(id) \in InUse /\ FoundAt(id) \in Positions
        BY <1>t, <3>2, FirstFound DEF InUse, Positions
      <4>3. [resident_keys[FoundAt(id)] EXCEPT !.user = user] \in Keys
        BY <4>2 DEF CtapInv, Keys
      <4>4. /\ resident_keys' \in [Positions -> Keys \cup {None}]
            /\ \A i \in InUse : resident_keys'[i] \in Keys
        BY <4>1, <4>2, <4>3, <1>t DEF CtapInv, Ctap21TypeOK, InUse, Positions
      <4> QED BY <4>1, <4>4 DEF CtapInv, Ctap21TypeOK, AttestedIfPermitted, Statuses, InUse
    <3> QED BY <3>1, <3>2
  <2>4. ASSUME NEW opts \in [uv : BOOLEAN, enterprise : BOOLEAN], SetOptions(opts)
        PROVE  CtapInv'
    BY <2>4 DEF SetOptions, Answer, CtapInv, Ctap21TypeOK, AttestedIfPermitted, keys, InUse,
                Statuses
  <2>5. CASE EnterpriseAttest
    BY <2>5 DEF EnterpriseAttest, Attests, Answer, ReadOnly, CtapInv, Ctap21TypeOK,
                AttestedIfPermitted, keys, InUse, Statuses
  <2>6. ASSUME NEW length \in PinLengths, NEW pin \in CommonPins \cup {None},
               ValidatePinPolicy(pin, length)
        PROVE  CtapInv'
    BY <2>6, AnsweredOnly DEF ValidatePinPolicy, Answer, Statuses
  <2> QED BY <1>3, <2>1, <2>2, <2>3, <2>4, <2>5, <2>6 DEF Function
<1>4. CASE UNCHANGED ctapVars
  BY <1>4 DEF ctapVars, keys, CtapInv, Ctap21TypeOK, AttestedIfPermitted, InUse
<1> QED BY <1>1, <1>2, <1>3, <1>4 DEF Next

\* The configuration, the table and its count always have their types: no
\* sequence of commands and calls takes the PIN length out of 4 to 64, the
\* count out of the array or a position past its end.
THEOREM Ctap21TypeCorrect == Spec => []Ctap21TypeOK
<1>1. CtapInv => Ctap21TypeOK
  BY DEF CtapInv
<1> QED BY CtapInit, CtapNext, <1>1, PTL DEF Spec

\* An enterprise attestation goes out only after the configuration command has
\* enabled it, and the options do not take that away.
THEOREM AttestedOnlyIfPermitted == Spec => []AttestedIfPermitted
<1>1. CtapInv => AttestedIfPermitted
  BY DEF CtapInv
<1> QED BY CtapInit, CtapNext, <1>1, PTL DEF Spec

----------------------------------------------------------------------------
(* The refinement. *)

\* The table has an entry for each place in use.
TableOfKeys == /\ credential_count \in Nat
               /\ KeyTable \in Seq(Keys)
               /\ Len(KeyTable) = credential_count
               /\ DOMAIN KeyTable = 1..credential_count
               /\ \A i \in 1..credential_count : KeyTable[i] = resident_keys[i - 1]

LEMMA KeyTableType == CtapInv => TableOfKeys
<1> SUFFICES ASSUME CtapInv PROVE TableOfKeys
  OBVIOUS
<1>1. credential_count \in Nat /\ \A i \in 0..(credential_count - 1) : resident_keys[i] \in Keys
  BY Ctap21Assumption DEF CtapInv, Ctap21TypeOK, InUse
<1>2. \A i \in 1..credential_count : i - 1 \in 0..(credential_count - 1)
  BY <1>1
<1>3. KeyTable \in [1..credential_count -> Keys]
  BY <1>1, <1>2 DEF KeyTable
<1>4. KeyTable \in Seq(Keys)
  BY <1>1, <1>3, SeqDef
<1>5. /\ DOMAIN KeyTable = 1..credential_count
      /\ \A i \in 1..credential_count : KeyTable[i] = resident_keys[i - 1]
  BY DEF KeyTable
<1>6. Len(KeyTable) \in Nat /\ DOMAIN KeyTable = 1..Len(KeyTable)
  BY <1>4, LenProperties
<1>7. Len(KeyTable) = credential_count
  BY <1>1, <1>5, <1>6
<1> QED BY <1>1, <1>4, <1>5, <1>7 DEF TableOfKeys

\* The entry the table names first is the key memcmp finds.
LEMMA FirstIsFound ==
  ASSUME CtapInv, NEW id, Matching(id) # {}
  PROVE  Kept!Has(id) /\ Kept!First(id) = FoundAt(id) + 1
<1> DEFINE p == FoundAt(id)
<1>1. credential_count \in 0..MaxKeys
  BY DEF CtapInv, Ctap21TypeOK
<1>2. /\ p \in 0..(credential_count - 1) /\ resident_keys[p].id = id
      /\ \A j \in 0..(credential_count - 1) : j < p => resident_keys[j].id # id
  BY <1>1, FirstFound DEF InUse
<1> HIDE DEF p
<1>3. /\ DOMAIN KeyTable = 1..credential_count
      /\ \A i \in 1..credential_count : KeyTable[i] = resident_keys[i - 1]
      /\ credential_count \in Nat
  BY KeyTableType DEF TableOfKeys
<1>4. p + 1 \in 1..credential_count /\ (p + 1) - 1 = p
  BY <1>2, <1>3
<1>5. KeyTable[p + 1].id = id
  BY <1>2, <1>3, <1>4
<1>6. ASSUME NEW j \in 1..((p + 1) - 1)
      PROVE  KeyTable[j].id # id
  <2>1. j \in 1..credential_count /\ j - 1 \in 0..(credential_count - 1) /\ j - 1 < p
    BY <1>2, <1>3
  <2> QED BY <2>1, <1>2, <1>3
<1>7. ASSUME NEW i \in DOMAIN KeyTable, KeyTable[i].id = id,
             \A j \in 1..(i - 1) : KeyTable[j].id # id
      PROVE  i = p + 1
  <2>1. i \in 1..credential_count
    BY <1>3
  <2>2. ~ (i < p + 1)
    <3>1. SUFFICES ASSUME i < p + 1 PROVE FALSE
      OBVIOUS
    <3>2. i \in 1..((p + 1) - 1)
      BY <2>1, <3>1, <1>2
    <3> QED BY <3>2, <1>6, <1>7
  <2>3. ~ (p + 1 < i)
    <3>1. SUFFICES ASSUME p + 1 < i PROVE FALSE
      OBVIOUS
    <3>2. p + 1 \in 1..(i - 1)
      BY <2>1, <3>1, <1>2
    <3> QED BY <3>2, <1>5, <1>7
  <2> QED BY <2>1, <2>2, <2>3, <1>2
<1>8. Kept!Has(id)
  BY <1>3, <1>4, <1>5 DEF Kept!Has
<1>9. Kept!First(id) = p + 1
  BY <1>3, <1>4, <1>5, <1>6, <1>7 DEF Kept!First
<1> QED BY <1>8, <1>9 DEF p

LEMMA KeptInit == Init => Kept!Init
<1> SUFFICES ASSUME Init PROVE Kept!Init
  OBVIOUS
<1>1. KeyTable \in Seq(Keys) /\ Len(KeyTable) = 0
  BY CtapInit, KeyTableType DEF Init, TableOfKeys
<1>2. KeyTable = <<>>
  BY <1>1, EmptySeq
<1>3. \A key \in Keys : key.id \in Ids
  BY DEF Keys
<1> QED BY <1>2, <1>3, Ctap21Assumption DEF Kept!Init, Init

LEMMA KeptNext == CtapInv /\ [Next]_ctapVars => [Kept!Next]_<<KeyTable, named>>
<1> SUFFICES ASSUME CtapInv, [Next]_ctapVars PROVE [Kept!Next]_<<KeyTable, named>>
  OBVIOUS
<1>a. TableOfKeys /\ TableOfKeys'
  BY CtapNext, KeyTableType, PTL
<1>t. /\ credential_count \in 0..MaxKeys /\ MaxKeys \in Nat
      /\ \A i \in 0..(credential_count - 1) : resident_keys[i] \in Keys
  BY Ctap21Assumption DEF CtapInv, Ctap21TypeOK, InUse
<1>u. /\ KeyTable \in Seq(Keys) /\ Len(KeyTable) = credential_count
      /\ KeyTable' \in Seq(Keys) /\ Len(KeyTable') = credential_count'
      /\ \A i \in 1..credential_count : KeyTable[i] = resident_keys[i - 1]
      /\ \A i \in 1..credential_count' : KeyTable'[i] = resident_keys'[i - 1]
  BY <1>a DEF TableOfKeys
<1>s. ASSUME UNCHANGED keys PROVE [Kept!Next]_<<KeyTable, named>>
  BY <1>s DEF keys, KeyTable
<1>1. CASE Reset
  <2>1. Len(KeyTable') = 0
    BY <1>1, <1>u DEF Reset
  <2>2. KeyTable' = <<>>
    BY <2>1, <1>u, EmptySeq
  <2> QED BY <2>2, <1>1 DEF Reset, Kept!Next, Kept!Clear
<1>2. CASE Command
  BY <1>2, <1>s DEF Command, GetCredentials, GetNextAssertion, SelectionSelect,
     SelectionGetOrBioInfo, EnableEnterprise, ToggleAlwaysUv, SetMinPinLength, UnknownCommand,
     UnknownConfig, ReadOnly
<1>3. CASE Function
  <2>1. ASSUME NEW key \in Keys, StoreResidentKey(key) PROVE [Kept!Next]_<<KeyTable, named>>
    <3>1. CASE credential_count >= MaxKeys
      BY <2>1, <3>1, <1>t, <1>s DEF StoreResidentKey, ReadOnly
    <3>2. CASE credential_count < MaxKeys
      <4>1. /\ resident_keys' = [resident_keys EXCEPT ![credential_count] = key]
            /\ credential_count' = credential_count + 1 /\ UNCHANGED named
        BY <2>1, <3>2, <1>t DEF StoreResidentKey
      <4>2. /\ credential_count \in Nat /\ credential_count \in Positions
            /\ \A i \in 0..(credential_count - 1) : i \in Positions /\ i # credential_count
        BY <3>2, <1>t DEF Positions
      <4>3. /\ resident_keys'[credential_count] = key
            /\ \A i \in 0..(credential_count - 1) : resident_keys'[i] = resident_keys[i]
        BY <4>1, <4>2 DEF CtapInv, Ctap21TypeOK
      <4>4. KeyTable' = Append(KeyTable, key)
        <5>1. \A i \in 1..credential_count :
                /\ i \in 1..(credential_count + 1) /\ i - 1 \in 0..(credential_count - 1)
          BY <4>2
        <5>2. credential_count + 1 \in 1..(credential_count + 1) /\ (credential_count + 1) - 1 = credential_count
          BY <4>2
        <5>3. /\ Len(KeyTable') = Len(KeyTable) + 1
              /\ \A i \in 1..Len(KeyTable) : KeyTable'[i] = KeyTable[i]
              /\ KeyTable'[Len(KeyTable) + 1] = key
          BY <4>1, <4>3, <5>1, <5>2, <1>u
        <5>4. /\ Append(KeyTable, key) \in Seq(Keys) /\ Len(Append(KeyTable, key)) = Len(KeyTable) + 1
              /\ \A i \in 1..Len(KeyTable) : Append(KeyTable, key)[i] = KeyTable[i]
              /\ Append(KeyTable, key)[Len(KeyTable) + 1] = key
          BY <1>u, AppendProperties
        <5>5. \A i \in 1..Len(KeyTable') : i = Len(KeyTable) + 1 \/ i \in 1..Len(KeyTable)
          BY <5>3, <1>t, <1>u
        <5>6. \A i \in 1..Len(KeyTable') : KeyTable'[i] = Append(KeyTable, key)[i]
          BY <5>3, <5>4, <5>5
        <5> QED BY <5>3, <5>4, <5>6, <1>u, SeqEqual
      <4> QED BY <4>1, <4>4, <3>2, <1>u DEF Kept!Next, Kept!Store
    <3> QED BY <3>1, <3>2, <1>t
  <2>2. ASSUME NEW id \in Ids, DeleteCredential(id) PROVE [Kept!Next]_<<KeyTable, named>>
    <3>1. CASE Matching(id) = {}
      BY <2>2, <3>1, <1>s DEF DeleteCredential, ReadOnly
    <3>2. CASE Matching(id) # {}
      <4>1. /\ resident_keys' =
                 [i \in Positions |->
                    IF i = credential_count - 1 THEN None
                    ELSE resident_keys[IF FoundAt(id) <= i /\ i < credential_count THEN i + 1
                                                                                   ELSE i]]
            /\ credential_count' = credential_count - 1 /\ named' = id
        BY <2>2, <3>2 DEF DeleteCredential
      <4>2. FoundAt(id) \in 0..(credential_count - 1) /\ resident_keys[FoundAt(id)].id = id
        BY <1>t, <3>2, FirstFound DEF InUse
      <4>3. ASSUME NEW i \in 0..(credential_count - 2)
            PROVE  resident_keys'[i] = IF FoundAt(id) <= i THEN resident_keys[i + 1]
                                                           ELSE resident_keys[i]
        <5>1. i \in Positions /\ i # credential_count - 1 /\ i < credential_count
          BY <1>t DEF Positions
        <5> QED BY <4>1, <5>1
      <4>4. Kept!Has(id) /\ Kept!First(id) = FoundAt(id) + 1
        BY <3>2, FirstIsFound
      <4>5. KeyTable' = [i \in 1..(Len(KeyTable) - 1) |->
                           KeyTable[IF i < Kept!First(id) THEN i ELSE i + 1]]
        <5>1. KeyTable' = [i \in 1..(credential_count - 1) |-> resident_keys'[i - 1]]
          BY <4>1 DEF KeyTable
        <5>2. ASSUME NEW i \in 1..(credential_count - 1)
              PROVE  resident_keys'[i - 1] = KeyTable[IF i < FoundAt(id) + 1 THEN i ELSE i + 1]
          <6>1. /\ i - 1 \in 0..(credential_count - 2)
                /\ i \in 1..credential_count /\ i + 1 \in 1..credential_count
                /\ (i - 1) + 1 = i /\ (i + 1) - 1 = i
                /\ (i < FoundAt(id) + 1 <=> ~ (FoundAt(id) <= i - 1))
            BY <4>2, <1>t
          <6> QED BY <6>1, <4>3, <1>u
        <5> QED BY <5>1, <5>2, <4>4, <1>u
      <4>6. \E key \in Keys : key.id = id
        BY <4>2, <1>t
      <4> QED BY <4>1, <4>4, <4>5, <4>6 DEF Kept!Next, Kept!Delete
    <3> QED BY <3>1, <3>2
  <2>3. ASSUME NEW id \in Ids, NEW user \in Users, UpdateUser(id, user)
        PROVE  [Kept!Next]_<<KeyTable, named>>
    <3>1. CASE Matching(id) = {}
      BY <2>3, <3>1, <1>s DEF UpdateUser, ReadOnly
    <3>2. CASE Matching(id) # {}
      <4> DEFINE entry == [resident_keys[FoundAt(id)] EXCEPT !.user = user]
      <4>1. /\ resident_keys' = [resident_keys EXCEPT ![FoundAt(id)].user = user]
            /\ named' = id /\ UNCHANGED credential_count
        BY <2>3, <3>2 DEF UpdateUser
      <4>2. FoundAt(id) \in 0..(credential_count - 1) /\ resident_keys[FoundAt(id)].id = id
        BY <1>t, <3>2, FirstFound DEF InUse
      <4>3. entry \in Keys /\ entry.id = id
        BY <4>2, <1>t DEF Keys
      <4>4. ASSUME NEW i \in 0..(credential_count - 1)
            PROVE  resident_keys'[i] = IF i = FoundAt(id) THEN entry ELSE resident_keys[i]
        <5>1. i \in Positions
          BY <1>t DEF Positions
        <5> QED BY <4>1, <5>1 DEF CtapInv, Ctap21TypeOK
      <4>5. Kept!Has(id) /\ Kept!First(id) = FoundAt(id) + 1
        BY <3>2, FirstIsFound
      <4>6. KeyTable' = [KeyTable EXCEPT ![FoundAt(id) + 1] = entry]
        <5>1. /\ DOMAIN KeyTable = 1..credential_count
              /\ \A i \in 1..credential_count : KeyTable[i] = resident_keys[i - 1]
              /\ KeyTable' = [i \in 1..credential_count |-> resident_keys'[i - 1]]
          BY <4>1 DEF KeyTable
        <5>2. ASSUME NEW i \in 1..credential_count
              PROVE  resident_keys'[i - 1] = [KeyTable EXCEPT ![FoundAt(id) + 1] = entry][i]
          <6>1. i - 1 \in 0..(credential_count - 1) /\ (i - 1 = FoundAt(id) <=> i = FoundAt(id) + 1)
            BY <4>2, <1>t
          <6> QED BY <6>1, <5>1, <4>4
        <5> QED BY <5>1, <5>2
      <4> QED BY <4>1, <4>3, <4>5, <4>6 DEF Kept!Next, Kept!Update
    <3> QED BY <3>1, <3>2
  <2> QED BY <1>3, <2>1, <2>2, <2>3, <1>s DEF Function, SetOptions, EnterpriseAttest,
          ValidatePinPolicy, ReadOnly
<1>4. CASE UNCHANGED ctapVars
  BY <1>4, <1>s DEF ctapVars
<1> QED BY <1>1, <1>2, <1>3, <1>4 DEF Next

\* The array of resident keys, its count and its shifts implement the bounded
\* table, step by step: storing appends, a full array refuses, deleting and
\* renaming touch the first key with the id and leave the others in order.
THEOREM KeysImplementTable == Spec => KeysKept
<1> QED BY CtapInit, CtapNext, KeptInit, KeptNext, PTL DEF Spec, KeysKept, Kept!Spec
=============================================================================
