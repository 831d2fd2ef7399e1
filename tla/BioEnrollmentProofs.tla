------------------------ MODULE BioEnrollmentProofs ------------------------
(***************************************************************************)
(* Proofs about the fingerprint enrollment: types, that a template in the  *)
(* table has had its samples, and that the array of templates implements a *)
(* bounded table.                                                          *)
(***************************************************************************)
EXTENDS BioEnrollment, Integers, SequenceTheorems, WellFoundedInduction, TLAPS

\* What memcmp finds is a place in use with the id, and the first of them.
LEMMA FirstFound ==
  ASSUME NEW id, fingerprint_count \in 0..MAX_FINGERPRINTS, Matching(id) # {}
  PROVE  /\ FoundAt(id) \in 0..(fingerprint_count - 1)
         /\ fingerprint_templates[FoundAt(id)].id = id
         /\ \A j \in 0..(fingerprint_count - 1) :
              j < FoundAt(id) => fingerprint_templates[j].id # id
<1>1. Matching(id) \in SUBSET Nat
  BY BioAssumption DEF Matching
<1>2. \E m \in Matching(id) : \A k \in Matching(id) : m <= k
  <2> DEFINE Below == OpToRel(<, Nat)
  <2>1. \A k, m \in Nat : k < m => <<k, m>> \in Below
    BY DEF OpToRel
  <2>2. IsWellFoundedOn(Below, Nat)
    BY NatLessThanWellFounded
  <2> HIDE DEF Below
  <2>3. PICK m \in Matching(id) : \A k \in Matching(id) : ~ (<<k, m>> \in Below)
    BY <1>1, <2>2, WFMin
  <2>4. \A k \in Matching(id) : k \in Nat /\ m \in Nat /\ ~ (k < m)
    BY <1>1, <2>1, <2>3
  <2>5. \A k \in Matching(id) : m <= k
    BY <2>4
  <2> QED BY <2>5
<1>3. FoundAt(id) \in Matching(id) /\ \A k \in Matching(id) : FoundAt(id) <= k
  BY <1>2 DEF FoundAt
<1> QED BY <1>1, <1>3, BioAssumption DEF Matching

\* The counter of samples is a byte: it never shows more than was counted.
LEMMA CounterWraps ==
  ASSUME NEW n \in Bytes
  PROVE  (n + 1) % ByteMod \in Bytes /\ (n + 1) % ByteMod <= n + 1
<1>1. ByteMod \in Nat /\ ByteMod > 0 /\ n \in Nat /\ n + 1 \in Nat
  BY BioAssumption DEF Bytes
<1>2. (n + 1) % ByteMod \in 0..(ByteMod - 1)
  BY <1>1
<1>3. (n + 1) % ByteMod <= n + 1
  BY <1>1
<1> QED BY <1>2, <1>3 DEF Bytes

LEMMA EmptyTable == Empty \in [Positions -> Templates \cup {None}] /\ 0..(0 - 1) = {}
BY DEF Empty

LEMMA BioInitInv == BioInit => BioInv
<1> SUFFICES ASSUME BioInit PROVE BioInv
  OBVIOUS
<1>1. 0 \in Bytes /\ 0 \in 0..MAX_FINGERPRINTS /\ 0 \in 0..Required
  BY BioAssumption DEF Bytes
<1>2. BioTypeOK
  BY <1>1, EmptyTable DEF BioInit, BioTypeOK, Statuses
<1>3. ~ bio_state.active
  BY DEF BioInit
<1>4. 0..(fingerprint_count - 1) = {}
  BY EmptyTable DEF BioInit
<1> QED BY <1>2, <1>3, <1>4 DEF BioInv, EnrolledBySamples

\* What neither the enrollment, the table nor the samples change keeps the
\* invariant.
LEMMA AnswerOnly ==
  ASSUME BioInv, UNCHANGED <<bio_state, fingerprint_templates, fingerprint_count, offered, named>>,
         bio_answer' \in Statuses
  PROVE  BioInv'
BY DEF BioInv, BioTypeOK, EnrolledBySamples, Matching

\* The enrollment ends.
LEMMA EnrollmentOver ==
  ASSUME BioInv, bio_state' = [bio_state EXCEPT !.active = FALSE],
         UNCHANGED <<fingerprint_templates, fingerprint_count, bio_answer, offered, named>>
  PROVE  BioInv'
<1>1. BioTypeOK' /\ ~ bio_state'.active /\ bio_state'.samples_required = bio_state.samples_required
  BY DEF BioInv, BioTypeOK
<1> QED BY <1>1 DEF BioInv, EnrolledBySamples

\* Only an enrollment that was not active is started, for an id that is not in
\* the table: no sample counts for it yet.
LEMMA StartKeeps ==
  ASSUME BioInv, NEW template \in Templates, Start(template)
  PROVE  BioInv'
<1> DEFINE id == template.id
<1>1. id \in TemplateIds
  BY DEF Templates
<1>2. /\ ~ bio_state.active /\ Matching(id) = {}
      /\ bio_state' = [bio_state EXCEPT !.active = TRUE, !.template = template, !.samples = 0]
      /\ offered' = [offered EXCEPT ![id] = 0]
      /\ bio_answer' = "IN_PROGRESS"
      /\ UNCHANGED <<fingerprint_templates, fingerprint_count, named>>
  BY DEF Start
<1> HIDE DEF id
<1>3. 0 \in Bytes /\ 0 \in 0..Required
  BY BioAssumption DEF Bytes
<1>4. BioTypeOK'
  BY <1>1, <1>2, <1>3 DEF BioInv, BioTypeOK, Statuses
<1>5. /\ bio_state'.template = template /\ bio_state'.samples = 0
      /\ bio_state'.samples_required = bio_state.samples_required
      /\ offered'[id] = 0 /\ \A d \in TemplateIds : d # id => offered'[d] = offered[d]
  BY <1>1, <1>2 DEF BioInv, BioTypeOK
<1>6. \A i \in 0..(fingerprint_count - 1) : /\ fingerprint_templates[i] \in Templates
                                            /\ fingerprint_templates[i].id \in TemplateIds
                                            /\ fingerprint_templates[i].id # id
  BY <1>2 DEF BioInv, Matching, Templates
<1>7. EnrolledBySamples'
  BY <1>2, <1>5, <1>6 DEF BioInv, EnrolledBySamples
<1>8. Matching(id)' = {}
  BY <1>2 DEF Matching
<1> QED BY <1>2, <1>4, <1>5, <1>6, <1>7, <1>8 DEF BioInv, id

\* A good sample is counted and offered; with the last of them the template is
\* stored if there is room for it.
LEMMA SampleKeeps ==
  ASSUME BioInv, GoodSample
  PROVE  BioInv'
<1> DEFINE id == bio_state.template.id
           collected == (bio_state.samples + 1) % ByteMod
           counted == [bio_state EXCEPT !.samples = collected]
<1>1. /\ bio_state.active /\ bio_state.template \in Templates /\ Matching(id) = {}
      /\ id \in TemplateIds
      /\ bio_state.samples <= offered[id] \/ offered[id] = Required
  BY DEF GoodSample, BioInv, Templates
<1>2. /\ bio_state \in [active : BOOLEAN, template : Templates \cup {None}, samples : Bytes,
                       samples_required : {0, Required}]
      /\ bio_state.samples \in Bytes /\ bio_state.samples \in Nat
      /\ bio_state.samples_required \in {0, Required}
      /\ Required \in Nat /\ Required > 0 /\ offered[id] \in 0..Required
  BY <1>1, BioAssumption DEF BioInv, BioTypeOK, Bytes
<1>3. collected \in Bytes /\ collected <= bio_state.samples + 1 /\ collected \in Nat
  BY <1>2, CounterWraps DEF Bytes
<1>4. /\ offered' = [offered EXCEPT ![id] = IF @ < Required THEN @ + 1 ELSE @]
      /\ UNCHANGED named
  BY DEF GoodSample
<1>5. /\ offered' \in [TemplateIds -> 0..Required]
      /\ offered'[id] > 0 /\ (offered'[id] = Required \/ offered'[id] = offered[id] + 1)
      /\ \A d \in TemplateIds : d # id => offered'[d] = offered[d]
  <2>1. offered \in [TemplateIds -> 0..Required]
    BY DEF BioInv, BioTypeOK
  <2>2. offered'[id] = IF offered[id] < Required THEN offered[id] + 1 ELSE offered[id]
    BY <1>1, <1>4, <2>1
  <2>3. offered'[id] \in 0..Required /\ offered'[id] > 0
        /\ (offered'[id] = Required \/ offered'[id] = offered[id] + 1)
    BY <1>2, <2>2
  <2>4. \A d \in TemplateIds : d # id => offered'[d] = offered[d]
    BY <1>4, <2>1
  <2> QED BY <1>4, <2>1, <2>3, <2>4
<1>6. collected <= offered'[id] \/ offered'[id] = Required
  BY <1>1, <1>2, <1>3, <1>5
<1>7. \A i \in 0..(fingerprint_count - 1) :
         /\ fingerprint_templates[i] \in Templates
         /\ fingerprint_templates[i].id \in TemplateIds /\ fingerprint_templates[i].id # id
         /\ offered'[fingerprint_templates[i].id] > 0
         /\ offered'[fingerprint_templates[i].id] >= bio_state.samples_required
  <2>1. \A i \in 0..(fingerprint_count - 1) :
          /\ fingerprint_templates[i] \in Templates
          /\ fingerprint_templates[i].id \in TemplateIds /\ fingerprint_templates[i].id # id
    BY <1>1 DEF BioInv, Matching, Templates
  <2>2. \A i \in 0..(fingerprint_count - 1) :
          /\ offered[fingerprint_templates[i].id] > 0
          /\ offered[fingerprint_templates[i].id] >= bio_state.samples_required
    BY DEF BioInv, EnrolledBySamples
  <2> QED BY <1>5, <2>1, <2>2
<1>8. /\ counted \in [active : BOOLEAN, template : Templates \cup {None}, samples : Bytes,
                      samples_required : {0, Required}]
      /\ counted.active /\ counted.template = bio_state.template /\ counted.samples = collected
      /\ counted.samples_required = bio_state.samples_required
  BY <1>1, <1>2, <1>3
<1>t. /\ fingerprint_templates \in [Positions -> Templates \cup {None}]
      /\ fingerprint_count \in 0..MAX_FINGERPRINTS /\ MAX_FINGERPRINTS \in Nat
      /\ named' \in TemplateIds \cup {None}
  BY <1>4, BioAssumption DEF BioInv, BioTypeOK
<1>9. CASE /\ bio_state' = counted /\ bio_answer' \in {"IN_PROGRESS", "FULL"}
           /\ UNCHANGED <<fingerprint_templates, fingerprint_count>>
  <2>1. BioTypeOK'
    BY <1>5, <1>8, <1>9, <1>t DEF BioTypeOK, Statuses
  <2>2. Matching(id)' = {}
    BY <1>1, <1>9 DEF Matching
  <2>3. /\ bio_state'.template = bio_state.template /\ bio_state'.samples = collected
        /\ bio_state'.samples_required = bio_state.samples_required
    BY <1>8, <1>9
  <2>4. EnrolledBySamples'
    BY <1>7, <1>9, <2>3 DEF EnrolledBySamples
  <2> HIDE DEF collected, counted
  <2> QED BY <1>1, <1>6, <1>7, <1>9, <2>1, <2>2, <2>3, <2>4 DEF BioInv, Matching
<1>10. CASE /\ Enough(collected) /\ StoreTemplate(bio_state.template)
            /\ bio_state' = [counted EXCEPT !.active = FALSE]
            /\ bio_answer' = "SUCCESS"
  <2>1. /\ fingerprint_count < MAX_FINGERPRINTS
        /\ fingerprint_templates' =
             [fingerprint_templates EXCEPT ![fingerprint_count] = bio_state.template]
        /\ fingerprint_count' = fingerprint_count + 1
        /\ collected >= bio_state.samples_required
    BY <1>10 DEF StoreTemplate, Enough
  <2> HIDE DEF collected
  <2>2. /\ bio_state' \in [active : BOOLEAN, template : Templates \cup {None}, samples : Bytes,
                           samples_required : {0, Required}]
        /\ ~ bio_state'.active /\ bio_state'.samples_required = bio_state.samples_required
    BY <1>8, <1>10
  <2>3. /\ fingerprint_count \in Positions /\ fingerprint_count' \in 0..MAX_FINGERPRINTS
        /\ \A i \in 0..(fingerprint_count' - 1) :
             i \in Positions /\ (i \in 0..(fingerprint_count - 1) \/ i = fingerprint_count)
        /\ \A i \in 0..(fingerprint_count - 1) : i # fingerprint_count
    BY <1>t, <2>1 DEF Positions
  <2>4. fingerprint_templates' \in [Positions -> Templates \cup {None}]
    BY <1>1, <1>t, <2>1, <2>3
  <2>5. BioTypeOK'
    BY <1>5, <1>10, <1>t, <2>2, <2>3, <2>4 DEF BioTypeOK, Statuses
  <2>6. offered'[id] >= bio_state.samples_required
    BY <1>2, <1>3, <1>5, <1>6, <2>1
  <2>7. ASSUME NEW i \in 0..(fingerprint_count' - 1)
        PROVE  /\ fingerprint_templates'[i] \in Templates
               /\ offered'[fingerprint_templates'[i].id] > 0
               /\ offered'[fingerprint_templates'[i].id] >= bio_state.samples_required
    <3>1. CASE i = fingerprint_count
      <4>1. fingerprint_templates'[i] = bio_state.template
        BY <1>t, <2>1, <2>3, <3>1
      <4> QED BY <1>1, <1>5, <2>6, <4>1
    <3>2. CASE i \in 0..(fingerprint_count - 1)
      <4>1. fingerprint_templates'[i] = fingerprint_templates[i]
        BY <1>t, <2>1, <2>3, <3>2
      <4> QED BY <1>7, <3>2, <4>1
    <3> QED BY <2>3, <3>1, <3>2
  <2>8. EnrolledBySamples'
    BY <2>2, <2>7 DEF EnrolledBySamples
  <2> QED BY <2>2, <2>5, <2>7, <2>8 DEF BioInv
<1> QED BY <1>9, <1>10 DEF GoodSample, NoRoom

\* A new name keeps the id, and so the samples that count.
LEMMA SetNameKeeps ==
  ASSUME BioInv, NEW template \in Templates, SetName(template)
  PROVE  BioInv'
<1> DEFINE id == template.id
           p == FoundAt(id)
<1>1. /\ fingerprint_count \in 0..MAX_FINGERPRINTS /\ MAX_FINGERPRINTS \in Nat
      /\ fingerprint_templates \in [Positions -> Templates \cup {None}]
      /\ \A i \in 0..(fingerprint_count - 1) : i \in Positions /\ fingerprint_templates[i] \in Templates
  BY BioAssumption DEF BioInv, BioTypeOK, Positions
<1>2. /\ Matching(id) # {} /\ id \in TemplateIds
      /\ fingerprint_templates' = [fingerprint_templates EXCEPT ![p] = template]
      /\ bio_answer' = "SUCCESS" /\ named' = id
      /\ UNCHANGED <<bio_state, fingerprint_count, offered>>
  BY DEF SetName, Templates
<1>3. p \in 0..(fingerprint_count - 1) /\ fingerprint_templates[p].id = id
  BY <1>1, <1>2, FirstFound
<1> HIDE DEF p
<1>4. \A i \in 0..(fingerprint_count - 1) :
         /\ fingerprint_templates'[i] \in Templates
         /\ fingerprint_templates'[i].id = fingerprint_templates[i].id
  BY <1>1, <1>2, <1>3
<1>5. fingerprint_templates' \in [Positions -> Templates \cup {None}]
  BY <1>1, <1>2, <1>3
<1>6. BioTypeOK'
  BY <1>2, <1>5 DEF BioInv, BioTypeOK, Statuses
<1>7. EnrolledBySamples'
  BY <1>2, <1>4 DEF BioInv, EnrolledBySamples
<1>8. ASSUME NEW d, Matching(d) = {} PROVE Matching(d)' = {}
  BY <1>2, <1>4, <1>8 DEF Matching
<1> HIDE DEF id
<1> QED BY <1>2, <1>4, <1>6, <1>7, <1>8 DEF BioInv

\* Whatever is still in the table after a removal was in it before.
LEMMA RemoveKeeps ==
  ASSUME BioInv, NEW id \in TemplateIds, RemoveTemplate(id)
  PROVE  BioInv'
<1> DEFINE p == FoundAt(id)
<1>1. /\ fingerprint_count \in 0..MAX_FINGERPRINTS /\ MAX_FINGERPRINTS \in Nat
      /\ fingerprint_templates \in [Positions -> Templates \cup {None}]
      /\ \A i \in 0..(fingerprint_count - 1) : fingerprint_templates[i] \in Templates
  BY BioAssumption DEF BioInv, BioTypeOK
<1>2. /\ Matching(id) # {}
      /\ fingerprint_templates' =
           [i \in Positions |->
              IF i = fingerprint_count - 1 THEN None
              ELSE fingerprint_templates[IF p <= i /\ i < fingerprint_count THEN i + 1 ELSE i]]
      /\ fingerprint_count' = fingerprint_count - 1
      /\ bio_answer' = "SUCCESS" /\ named' = id
      /\ UNCHANGED <<bio_state, offered>>
  BY DEF RemoveTemplate
<1>3. p \in 0..(fingerprint_count - 1)
  BY <1>1, <1>2, FirstFound
<1> HIDE DEF p
<1>4. fingerprint_count \in 1..MAX_FINGERPRINTS /\ fingerprint_count' \in 0..MAX_FINGERPRINTS
  BY <1>1, <1>2, <1>3
<1>5. ASSUME NEW i \in 0..(fingerprint_count' - 1)
      PROVE  \E j \in 0..(fingerprint_count - 1) :
               fingerprint_templates'[i] = fingerprint_templates[j]
  <2>1. /\ i \in Positions /\ i # fingerprint_count - 1
        /\ i \in 0..(fingerprint_count - 1) /\ i + 1 \in 0..(fingerprint_count - 1)
    BY <1>1, <1>2, <1>4 DEF Positions
  <2>2. fingerprint_templates'[i] = fingerprint_templates[i + 1]
        \/ fingerprint_templates'[i] = fingerprint_templates[i]
    BY <1>2, <2>1
  <2> QED BY <2>1, <2>2
<1>6. ASSUME NEW i \in Positions
      PROVE  fingerprint_templates'[i] \in Templates \cup {None}
  <2>1. CASE i = fingerprint_count - 1
    BY <1>2, <2>1
  <2>2. CASE i # fingerprint_count - 1 /\ p <= i /\ i < fingerprint_count
    <3>1. i + 1 \in Positions
      BY <1>1, <1>4, <2>2 DEF Positions
    <3> QED BY <1>1, <1>2, <2>2, <3>1
  <2>3. CASE i # fingerprint_count - 1 /\ ~(p <= i /\ i < fingerprint_count)
    BY <1>1, <1>2, <2>3
  <2> QED BY <2>1, <2>2, <2>3
<1>7. fingerprint_templates' \in [Positions -> Templates \cup {None}]
  BY <1>2, <1>6
<1>8. BioTypeOK'
  BY <1>2, <1>4, <1>7 DEF BioInv, BioTypeOK, Statuses
<1>9. EnrolledBySamples'
  BY <1>2, <1>5 DEF BioInv, EnrolledBySamples
<1>10. \A i \in 0..(fingerprint_count' - 1) : fingerprint_templates'[i] \in Templates
  BY <1>1, <1>5
<1>11. ASSUME NEW d, Matching(d) = {} PROVE Matching(d)' = {}
  BY <1>5, <1>11 DEF Matching
<1> QED BY <1>2, <1>8, <1>9, <1>10, <1>11 DEF BioInv

LEMMA BioNextInv == BioInv /\ [BioNext]_bioVars => BioInv'
<1> SUFFICES ASSUME BioInv, [BioNext]_bioVars PROVE BioInv'
  OBVIOUS
<1>1. CASE BioReset
  <2>1. 0 \in Bytes /\ 0 \in 0..MAX_FINGERPRINTS
    BY BioAssumption DEF Bytes
  <2>2. BioTypeOK'
    BY <1>1, <2>1, EmptyTable DEF BioReset, BioInv, BioTypeOK
  <2>3. 0..(fingerprint_count' - 1) = {} /\ ~ bio_state'.active
    BY <1>1, EmptyTable DEF BioReset
  <2> QED BY <2>2, <2>3 DEF BioInv, EnrolledBySamples
<1>2. ASSUME NEW template \in Templates, Start(template) \/ SetName(template) PROVE BioInv'
  BY <1>2, StartKeeps, SetNameKeeps
<1>3. ASSUME NEW id \in TemplateIds, RemoveTemplate(id) \/ NotFound(id) PROVE BioInv'
  BY <1>3, RemoveKeeps, AnswerOnly DEF NotFound, Statuses
<1>4. CASE StartRefused \/ BadSample \/ Enumerate \/ UnknownSubcommand
  BY <1>4, AnswerOnly DEF StartRefused, BadSample, Enumerate, UnknownSubcommand, Statuses
<1>5. CASE GoodSample
  BY <1>5, SampleKeeps
<1>6. CASE Cancel \/ Complete
  BY <1>6, EnrollmentOver DEF Cancel, Complete
<1>7. CASE UNCHANGED bioVars
  BY <1>7 DEF bioVars, BioInv, BioTypeOK, EnrolledBySamples, Matching
<1> QED BY <1>1, <1>2, <1>3, <1>4, <1>5, <1>6, <1>7 DEF BioNext

\* The enrollment, the table and its count always have their types, whatever
\* resets, refusals and wraps of the sample counter come in between.
THEOREM BioTypeCorrect == BioSpec => []BioTypeOK
<1>1. BioInv => BioTypeOK
  BY DEF BioInv
<1> QED BY BioInitInv, BioNextInv, <1>1, PTL DEF BioSpec

\* A template in the table has had as many good samples as its enrollment
\* asked for, one at least.
THEOREM TemplatesSampled == BioSpec => []EnrolledBySamples
<1>1. BioInv => EnrolledBySamples
  BY DEF BioInv
<1> QED BY BioInitInv, BioNextInv, <1>1, PTL DEF BioSpec

----------------------------------------------------------------------------
(* The refinement. *)

\* The table has an entry for each place in use.
TableOfTemplates == /\ fingerprint_count \in Nat
               /\ TemplateTable \in Seq(Templates)
               /\ Len(TemplateTable) = fingerprint_count
               /\ DOMAIN TemplateTable = 1..fingerprint_count
               /\ \A i \in 1..fingerprint_count : TemplateTable[i] = fingerprint_templates[i - 1]

LEMMA TemplateTableType == BioInv => TableOfTemplates
<1> SUFFICES ASSUME BioInv PROVE TableOfTemplates
  OBVIOUS
<1>1. fingerprint_count \in Nat /\ \A i \in 0..(fingerprint_count - 1) : fingerprint_templates[i] \in Templates
  BY BioAssumption DEF BioInv, BioTypeOK
<1>2. \A i \in 1..fingerprint_count : i - 1 \in 0..(fingerprint_count - 1)
  BY <1>1
<1>3. TemplateTable \in [1..fingerprint_count -> Templates]
  BY <1>1, <1>2 DEF TemplateTable
<1>4. TemplateTable \in Seq(Templates)
  BY <1>1, <1>3, SeqDef
<1>5. /\ DOMAIN TemplateTable = 1..fingerprint_count
      /\ \A i \in 1..fingerprint_count : TemplateTable[i] = fingerprint_templates[i - 1]
  BY DEF TemplateTable
<1>6. Len(TemplateTable) \in Nat /\ DOMAIN TemplateTable = 1..Len(TemplateTable)
  BY <1>4, LenProperties
<1>7. Len(TemplateTable) = fingerprint_count
  BY <1>1, <1>5, <1>6
<1> QED BY <1>1, <1>4, <1>5, <1>7 DEF TableOfTemplates

\* The entry the table names first is the template memcmp finds.
LEMMA FirstIsFound ==
  ASSUME BioInv, NEW id, Matching(id) # {}
  PROVE  Kept!Has(id) /\ Kept!First(id) = FoundAt(id) + 1
<1> DEFINE p == FoundAt(id)
<1>1. fingerprint_count \in 0..MAX_FINGERPRINTS
  BY DEF BioInv, BioTypeOK
<1>2. /\ p \in 0..(fingerprint_count - 1) /\ fingerprint_templates[p].id = id
      /\ \A j \in 0..(fingerprint_count - 1) : j < p => fingerprint_templates[j].id # id
  BY <1>1, FirstFound
<1> HIDE DEF p
<1>3. /\ DOMAIN TemplateTable = 1..fingerprint_count
      /\ \A i \in 1..fingerprint_count : TemplateTable[i] = fingerprint_templates[i - 1]
      /\ fingerprint_count \in Nat
  BY TemplateTableType DEF TableOfTemplates
<1>4. p + 1 \in 1..fingerprint_count /\ (p + 1) - 1 = p
  BY <1>2, <1>3
<1>5. TemplateTable[p + 1].id = id
  BY <1>2, <1>3, <1>4
<1>6. ASSUME NEW j \in 1..((p + 1) - 1)
      PROVE  TemplateTable[j].id # id
  <2>1. j \in 1..fingerprint_count /\ j - 1 \in 0..(fingerprint_count - 1) /\ j - 1 < p
    BY <1>2, <1>3
  <2> QED BY <2>1, <1>2, <1>3
<1>7. ASSUME NEW i \in DOMAIN TemplateTable, TemplateTable[i].id = id,
             \A j \in 1..(i - 1) : TemplateTable[j].id # id
      PROVE  i = p + 1
  <2>1. i \in 1..fingerprint_count
    BY <1>3
  <2>2. ~ (i < p + 1)
    <3>1. SUFFICES ASSUME i < p + 1 PROVE FALSE
      OBVIOUS
    <3>2. i \in 1..((p + 1) - 1)
      BY <2>1, <3>1, <1>2
    <3> QED BY <3>2, <1>6, <1>7
  <2>3. ~ (p + 1 < i)
    <3>1. SUFFICES ASSUME p + 1 < i PROVE FALSE
      OBVIOUS
    <3>2. p + 1 \in 1..(i - 1)
      BY <2>1, <3>1, <1>2
    <3> QED BY <3>2, <1>5, <1>7
  <2> QED BY <2>1, <2>2, <2>3, <1>2
<1>8. Kept!Has(id)
  BY <1>3, <1>4, <1>5 DEF Kept!Has
<1>9. Kept!First(id) = p + 1
  BY <1>3, <1>4, <1>5, <1>6, <1>7 DEF Kept!First
<1> QED BY <1>8, <1>9 DEF p

LEMMA KeptInit == BioInit => Kept!Init
<1> SUFFICES ASSUME BioInit PROVE Kept!Init
  OBVIOUS
<1>1. TemplateTable \in Seq(Templates) /\ Len(TemplateTable) = 0
  BY BioInitInv, TemplateTableType DEF BioInit, TableOfTemplates
<1>2. TemplateTable = <<>>
  BY <1>1, EmptySeq
<1>3. \A template \in Templates : template.id \in TemplateIds
  BY DEF Templates
<1> QED BY <1>2, <1>3, BioAssumption DEF Kept!Init, BioInit

LEMMA KeptNext == BioInv /\ [BioNext]_bioVars => [Kept!Next]_<<TemplateTable, named>>
<1> SUFFICES ASSUME BioInv, [BioNext]_bioVars PROVE [Kept!Next]_<<TemplateTable, named>>
  OBVIOUS
<1>a. TableOfTemplates /\ TableOfTemplates'
  BY BioNextInv, TemplateTableType, PTL
<1>t. /\ fingerprint_count \in 0..MAX_FINGERPRINTS /\ MAX_FINGERPRINTS \in Nat
      /\ \A i \in 0..(fingerprint_count - 1) : fingerprint_templates[i] \in Templates
      /\ fingerprint_templates \in [Positions -> Templates \cup {None}]
  BY BioAssumption DEF BioInv, BioTypeOK
<1>u. /\ TemplateTable \in Seq(Templates) /\ Len(TemplateTable) = fingerprint_count
      /\ TemplateTable' \in Seq(Templates) /\ Len(TemplateTable') = fingerprint_count'
      /\ \A i \in 1..fingerprint_count : TemplateTable[i] = fingerprint_templates[i - 1]
      /\ \A i \in 1..fingerprint_count' : TemplateTable'[i] = fingerprint_templates'[i - 1]
  BY <1>a DEF TableOfTemplates
<1>s. ASSUME UNCHANGED <<fingerprint_templates, fingerprint_count, named>>
      PROVE  [Kept!Next]_<<TemplateTable, named>>
  BY <1>s DEF TemplateTable
<1>1. CASE BioReset
  <2>1. Len(TemplateTable') = 0
    BY <1>1, <1>u DEF BioReset
  <2>2. TemplateTable' = <<>>
    BY <2>1, <1>u, EmptySeq
  <2> QED BY <2>2, <1>1 DEF BioReset, Kept!Next, Kept!Clear
<1>2. CASE GoodSample
  <2>1. CASE UNCHANGED <<fingerprint_templates, fingerprint_count>>
    BY <1>2, <2>1, <1>s DEF GoodSample
  <2>2. CASE StoreTemplate(bio_state.template)
    <3> DEFINE template == bio_state.template
    <3>1. /\ fingerprint_count < MAX_FINGERPRINTS
          /\ fingerprint_templates' = [fingerprint_templates EXCEPT ![fingerprint_count] = template]
          /\ fingerprint_count' = fingerprint_count + 1 /\ UNCHANGED named
      BY <1>2, <2>2 DEF StoreTemplate, GoodSample
    <3>2. template \in Templates
      BY <1>2 DEF GoodSample, BioInv
    <3> HIDE DEF template
    <3>3. /\ fingerprint_count \in Nat /\ fingerprint_count \in Positions
          /\ \A i \in 0..(fingerprint_count - 1) : i \in Positions /\ i # fingerprint_count
      BY <3>1, <1>t DEF Positions
    <3>4. /\ fingerprint_templates'[fingerprint_count] = template
          /\ \A i \in 0..(fingerprint_count - 1) :
               fingerprint_templates'[i] = fingerprint_templates[i]
      BY <3>1, <3>3, <1>t
    <3>5. TemplateTable' = Append(TemplateTable, template)
      <4>1. \A i \in 1..fingerprint_count :
              /\ i \in 1..(fingerprint_count + 1) /\ i - 1 \in 0..(fingerprint_count - 1)
        BY <3>3
      <4>2. /\ fingerprint_count + 1 \in 1..(fingerprint_count + 1)
            /\ (fingerprint_count + 1) - 1 = fingerprint_count
        BY <3>3
      <4>3. /\ Len(TemplateTable') = Len(TemplateTable) + 1
            /\ \A i \in 1..Len(TemplateTable) : TemplateTable'[i] = TemplateTable[i]
            /\ TemplateTable'[Len(TemplateTable) + 1] = template
        BY <3>1, <3>4, <4>1, <4>2, <1>u
      <4>4. /\ Append(TemplateTable, template) \in Seq(Templates)
            /\ Len(Append(TemplateTable, template)) = Len(TemplateTable) + 1
            /\ \A i \in 1..Len(TemplateTable) :
                 Append(TemplateTable, template)[i] = TemplateTable[i]
            /\ Append(TemplateTable, template)[Len(TemplateTable) + 1] = template
        BY <3>2, <1>u, AppendProperties
      <4>5. \A i \in 1..Len(TemplateTable') : i = Len(TemplateTable) + 1 \/ i \in 1..Len(TemplateTable)
        BY <4>3, <1>t, <1>u
      <4>6. \A i \in 1..Len(TemplateTable') : TemplateTable'[i] = Append(TemplateTable, template)[i]
        BY <4>3, <4>4, <4>5
      <4> QED BY <4>3, <4>4, <4>6, <1>u, SeqEqual
    <3> QED BY <3>1, <3>2, <3>5, <1>u DEF Kept!Next, Kept!Store
  <2> QED BY <1>2, <2>1, <2>2 DEF GoodSample, NoRoom
<1>3. ASSUME NEW id \in TemplateIds, RemoveTemplate(id)
      PROVE  [Kept!Next]_<<TemplateTable, named>>
  <2>1. /\ Matching(id) # {}
        /\ fingerprint_templates' =
             [i \in Positions |->
                IF i = fingerprint_count - 1 THEN None
                ELSE fingerprint_templates[IF FoundAt(id) <= i /\ i < fingerprint_count THEN i + 1
                                                                                        ELSE i]]
        /\ fingerprint_count' = fingerprint_count - 1 /\ named' = id
    BY <1>3 DEF RemoveTemplate
  <2>2. FoundAt(id) \in 0..(fingerprint_count - 1) /\ fingerprint_templates[FoundAt(id)].id = id
    BY <1>t, <2>1, FirstFound
  <2>3. ASSUME NEW i \in 0..(fingerprint_count - 2)
        PROVE  fingerprint_templates'[i] = IF FoundAt(id) <= i THEN fingerprint_templates[i + 1]
                                                               ELSE fingerprint_templates[i]
    <3>1. i \in Positions /\ i # fingerprint_count - 1 /\ i < fingerprint_count
      BY <1>t DEF Positions
    <3> QED BY <2>1, <3>1
  <2>4. Kept!Has(id) /\ Kept!First(id) = FoundAt(id) + 1
    BY <2>1, FirstIsFound
  <2>5. TemplateTable' = [i \in 1..(Len(TemplateTable) - 1) |->
                            TemplateTable[IF i < Kept!First(id) THEN i ELSE i + 1]]
    <3>1. TemplateTable' = [i \in 1..(fingerprint_count - 1) |-> fingerprint_templates'[i - 1]]
      BY <2>1 DEF TemplateTable
    <3>2. ASSUME NEW i \in 1..(fingerprint_count - 1)
          PROVE  fingerprint_templates'[i - 1] =
                   TemplateTable[IF i < FoundAt(id) + 1 THEN i ELSE i + 1]
      <4>1. /\ i - 1 \in 0..(fingerprint_count - 2)
            /\ i \in 1..fingerprint_count /\ i + 1 \in 1..fingerprint_count
            /\ (i - 1) + 1 = i /\ (i + 1) - 1 = i
            /\ (i < FoundAt(id) + 1 <=> ~ (FoundAt(id) <= i - 1))
        BY <2>2, <1>t
      <4> QED BY <4>1, <2>3, <1>u
    <3> QED BY <3>1, <3>2, <2>4, <1>u
  <2>6. \E template \in Templates : template.id = id
    BY <2>2, <1>t
  <2> QED BY <2>1, <2>4, <2>5, <2>6 DEF Kept!Next, Kept!Delete
<1>4. ASSUME NEW template \in Templates, SetName(template)
      PROVE  [Kept!Next]_<<TemplateTable, named>>
  <2> DEFINE id == template.id
  <2>1. /\ Matching(id) # {}
        /\ fingerprint_templates' = [fingerprint_templates EXCEPT ![FoundAt(id)] = template]
        /\ named' = id /\ UNCHANGED fingerprint_count
    BY <1>4 DEF SetName
  <2>2. FoundAt(id) \in 0..(fingerprint_count - 1)
    BY <1>t, <2>1, FirstFound
  <2>3. ASSUME NEW i \in 0..(fingerprint_count - 1)
        PROVE  fingerprint_templates'[i] = IF i = FoundAt(id) THEN template
                                                              ELSE fingerprint_templates[i]
    <3>1. i \in Positions
      BY <1>t DEF Positions
    <3> QED BY <2>1, <3>1, <1>t
  <2>4. Kept!Has(id) /\ Kept!First(id) = FoundAt(id) + 1
    BY <2>1, FirstIsFound
  <2>5. TemplateTable' = [TemplateTable EXCEPT ![FoundAt(id) + 1] = template]
    <3>1. /\ DOMAIN TemplateTable = 1..fingerprint_count
          /\ \A i \in 1..fingerprint_count : TemplateTable[i] = fingerprint_templates[i - 1]
          /\ TemplateTable' = [i \in 1..fingerprint_count |-> fingerprint_templates'[i - 1]]
      BY <2>1 DEF TemplateTable
    <3>2. ASSUME NEW i \in 1..fingerprint_count
          PROVE  fingerprint_templates'[i - 1] = [TemplateTable EXCEPT ![FoundAt(id) + 1] = template][i]
      <4>1. /\ i - 1 \in 0..(fingerprint_count - 1)
            /\ i - 1 = FoundAt(id) <=> i = FoundAt(id) + 1
        BY <2>2, <1>t
      <4> QED BY <4>1, <3>1, <2>3
    <3> QED BY <3>1, <3>2
  <2> QED BY <2>1, <2>4, <2>5 DEF Kept!Next, Kept!Update
<1>5. CASE \/ \E template \in Templates : Start(template)
           \/ \E id \in TemplateIds : NotFound(id)
           \/ StartRefused \/ BadSample \/ Cancel \/ Complete
           \/ Enumerate \/ UnknownSubcommand \/ UNCHANGED bioVars
  BY <1>5, <1>s DEF Start, NotFound, StartRefused, BadSample, Cancel, Complete, Enumerate,
     UnknownSubcommand, bioVars
<1> QED BY <1>1, <1>2, <1>3, <1>4, <1>5 DEF BioNext

\* The array of templates, its count and its shifts implement the bounded
\* table, step by step: only the last sample of an enrollment stores, a full
\* table refuses, removing and renaming leave the others in order.
THEOREM TemplatesImplementTable == BioSpec => TemplatesKept
<1> QED BY BioInitInv, BioNextInv, KeptInit, KeptNext, PTL DEF BioSpec, TemplatesKept, Kept!Spec
=============================================================================
