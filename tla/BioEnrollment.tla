--------------------------- MODULE BioEnrollment ---------------------------
(***************************************************************************)
(* Fingerprint enrollment (non_secure_world/src/usb/fido2_bioenrollment.c):*)
(* one enrollment at a time collects samples until it has as many as it    *)
(* needs and stores a template in a table of MAX_FINGERPRINTS.             *)
(***************************************************************************)
EXTENDS Naturals, Sequences, FiniteSets

CONSTANTS
    MAX_FINGERPRINTS,
    Required,           \* samples_required as the linker initialises it (3)
    ByteMod,            \* values of a byte counter (256)
    TemplateIds,        \* template ids that rand() draws
    Names,
    None

ASSUME BioAssumption ==
    /\ {MAX_FINGERPRINTS, Required, ByteMod} \subseteq Nat
    /\ 0 < Required /\ Required < ByteMod /\ MAX_FINGERPRINTS < ByteMod
    /\ None \notin TemplateIds

VARIABLES
    bio_state,              \* enroll_active, the template begun, samples, samples_required
    fingerprint_templates,  \* the array: a template or None, which is all zeros
    fingerprint_count,
    bio_answer,             \* status of the last answer of the module
    offered,                \* history: good samples since the enrollment of an id began
    named                   \* history: the id of the last change or removal

bioVars == <<bio_state, fingerprint_templates, fingerprint_count, bio_answer, offered, named>>

Bytes == 0..(ByteMod - 1)
Positions == 0..(MAX_FINGERPRINTS - 1)
Templates == [id : TemplateIds, name : Names]
Statuses == {"SUCCESS", "IN_PROGRESS", "NOT_SUPPORTED", "NOT_FOUND", "FULL", "false"}
Empty == [i \in Positions |-> None]

\* The position memcmp finds first.
Matching(id) == {i \in 0..(fingerprint_count - 1) : fingerprint_templates[i].id = id}
FoundAt(id) == CHOOSE i \in Matching(id) : \A j \in Matching(id) : i <= j

Enough(collected) == collected >= bio_state.samples_required

----------------------------------------------------------------------------
BioInit ==
    /\ bio_state = [active |-> FALSE, template |-> None, samples |-> 0,
                    samples_required |-> Required]
    /\ fingerprint_templates = Empty
    /\ fingerprint_count = 0
    /\ bio_answer = "false"
    /\ offered = [id \in TemplateIds |-> 0]
    /\ named = None

\* fido2_bioenrollment_init sets everything to zero, the samples required too.
BioReset ==
    /\ bio_state' = [active |-> FALSE, template |-> None, samples |-> 0, samples_required |-> 0]
    /\ fingerprint_templates' = Empty
    /\ fingerprint_count' = 0
    /\ UNCHANGED <<bio_answer, offered, named>>

\* Mutation: the samples of the enrollment before count.
StartKeepsSamples(template) ==
    /\ ~bio_state.active
    /\ Matching(template.id) = {}
    /\ bio_state' = [bio_state EXCEPT !.active = TRUE, !.template = template]
    /\ offered' = [offered EXCEPT ![template.id] = 0]
    /\ bio_answer' = "IN_PROGRESS"
    /\ UNCHANGED <<fingerprint_templates, fingerprint_count, named>>

\* A new id: 32 random bytes are no id in the table.
Start(template) ==
    /\ ~bio_state.active
    /\ Matching(template.id) = {}
    /\ bio_state' = [bio_state EXCEPT !.active = TRUE, !.template = template, !.samples = 0]
    /\ offered' = [offered EXCEPT ![template.id] = 0]
    /\ bio_answer' = "IN_PROGRESS"
    /\ UNCHANGED <<fingerprint_templates, fingerprint_count, named>>

StartRefused ==
    /\ bio_state.active
    /\ bio_answer' = "NOT_SUPPORTED"
    /\ UNCHANGED <<bio_state, fingerprint_templates, fingerprint_count, offered, named>>

\* Below the quality threshold, which BioReset zeroes too: then every sample is good.
BadSample ==
    /\ bio_state.active /\ bio_state.samples_required > 0
    /\ bio_answer' = "IN_PROGRESS"
    /\ UNCHANGED <<bio_state, fingerprint_templates, fingerprint_count, offered, named>>

\* Mutation: one template too many.
StoreTemplateAtFull(template) ==
    /\ fingerprint_count <= MAX_FINGERPRINTS
    /\ fingerprint_templates' = [fingerprint_templates EXCEPT ![fingerprint_count] = template]
    /\ fingerprint_count' = fingerprint_count + 1

\* store_fingerprint_template.
StoreTemplate(template) ==
    /\ fingerprint_count < MAX_FINGERPRINTS
    /\ fingerprint_templates' = [fingerprint_templates EXCEPT ![fingerprint_count] = template]
    /\ fingerprint_count' = fingerprint_count + 1

\* Mutation: what store_fingerprint_template returns is not looked at.
NoRoomIgnored ==
    /\ fingerprint_count = MAX_FINGERPRINTS
    /\ bio_answer' = "IN_PROGRESS"
    /\ UNCHANGED <<fingerprint_templates, fingerprint_count>>

NoRoom ==
    /\ fingerprint_count = MAX_FINGERPRINTS
    /\ bio_answer' = "FULL"
    /\ UNCHANGED <<fingerprint_templates, fingerprint_count>>

GoodSample ==
    LET collected == (bio_state.samples + 1) % ByteMod
        counted == [bio_state EXCEPT !.samples = collected]
    IN  /\ bio_state.active
        /\ UNCHANGED named
        /\ offered' = [offered EXCEPT ![bio_state.template.id] = IF @ < Required THEN @ + 1 ELSE @]
        /\ \/ /\ ~Enough(collected)
              /\ bio_state' = counted
              /\ bio_answer' = "IN_PROGRESS"
              /\ UNCHANGED <<fingerprint_templates, fingerprint_count>>
           \/ /\ Enough(collected)
              /\ StoreTemplate(bio_state.template)
              /\ bio_state' = [counted EXCEPT !.active = FALSE]
              /\ bio_answer' = "SUCCESS"
           \/ /\ Enough(collected)
              /\ NoRoom
              /\ bio_state' = counted      \* and the enrollment stays active

Cancel ==
    /\ bio_state.active
    /\ bio_state' = [bio_state EXCEPT !.active = FALSE]
    /\ UNCHANGED <<fingerprint_templates, fingerprint_count, bio_answer, offered, named>>

\* fingerprint_enroll_complete looks at the samples only.
Complete ==
    /\ Enough(bio_state.samples)
    /\ bio_state' = [bio_state EXCEPT !.active = FALSE]
    /\ UNCHANGED <<fingerprint_templates, fingerprint_count, bio_answer, offered, named>>

SetName(template) ==
    /\ Matching(template.id) # {}
    /\ fingerprint_templates' = [fingerprint_templates EXCEPT ![FoundAt(template.id)] = template]
    /\ bio_answer' = "SUCCESS"
    /\ named' = template.id
    /\ UNCHANGED <<bio_state, fingerprint_count, offered>>

\* Mutation: the templates behind the removed one stay where they are.
RemoveTemplateLast(id) ==
    /\ Matching(id) # {}
    /\ fingerprint_templates' = [fingerprint_templates EXCEPT ![fingerprint_count - 1] = None]
    /\ fingerprint_count' = fingerprint_count - 1
    /\ bio_answer' = "SUCCESS"
    /\ named' = id
    /\ UNCHANGED <<bio_state, offered>>

\* The templates behind the removed one move down, the last place is zeroed.
RemoveTemplate(id) ==
    /\ Matching(id) # {}
    /\ fingerprint_templates' =
         [i \in Positions |->
            IF i = fingerprint_count - 1 THEN None
            ELSE fingerprint_templates[IF FoundAt(id) <= i /\ i < fingerprint_count THEN i + 1
                                                                                    ELSE i]]
    /\ fingerprint_count' = fingerprint_count - 1
    /\ bio_answer' = "SUCCESS"
    /\ named' = id
    /\ UNCHANGED <<bio_state, offered>>

NotFound(id) ==
    /\ Matching(id) = {}
    /\ bio_answer' = "NOT_FOUND"
    /\ UNCHANGED <<bio_state, fingerprint_templates, fingerprint_count, offered, named>>

\* BIO_ENROLL_ENUMERATE: each template takes 98 bytes of response[256]; what
\* the third and later ones overwrite is not modelled.
Enumerate ==
    /\ 3 + 98 * fingerprint_count <= 256
    /\ bio_answer' = "SUCCESS"
    /\ UNCHANGED <<bio_state, fingerprint_templates, fingerprint_count, offered, named>>

\* BIO_ENROLL_GET_INFO and what the switch does not know.
UnknownSubcommand ==
    /\ bio_answer' = "NOT_SUPPORTED"
    /\ UNCHANGED <<bio_state, fingerprint_templates, fingerprint_count, offered, named>>

BioNext == \/ BioReset
           \/ \E template \in Templates : Start(template) \/ SetName(template)
           \/ \E id \in TemplateIds : RemoveTemplate(id) \/ NotFound(id)
           \/ StartRefused \/ BadSample \/ GoodSample
           \/ Cancel \/ Complete
           \/ Enumerate \/ UnknownSubcommand

\* While an enrollment runs, a finger that is good enough is offered again.
Fairness == WF_bioVars(GoodSample)
BioSpec == BioInit /\ [][BioNext]_bioVars /\ Fairness

----------------------------------------------------------------------------
BioTypeOK ==
    /\ bio_state \in [active : BOOLEAN, template : Templates \cup {None}, samples : Bytes,
                      samples_required : {0, Required}]
    /\ fingerprint_templates \in [Positions -> Templates \cup {None}]
    /\ fingerprint_count \in 0..MAX_FINGERPRINTS
    /\ bio_answer \in Statuses
    /\ offered \in [TemplateIds -> 0..Required]
    /\ named \in TemplateIds \cup {None}

\* What protects a template as the code stands: as many good samples as its
\* enrollment asked for, and one at least.  Neither a cancelled or completed
\* enrollment, nor a counter that wrapped while the table was full, leaves its
\* samples to another one.  Before fido2_bioenrollment_init runs they are all
\* Required samples; after it samples_required is 0 and a single one enrolls,
\* where its initialiser and the documentation say three.
EnrolledBySamples ==
    \A i \in 0..(fingerprint_count - 1) :
        LET n == offered[fingerprint_templates[i].id]
        IN  n > 0 /\ n >= bio_state.samples_required

\* The inductive invariant behind it: the id being enrolled is not in the
\* table, and no more samples are counted for it than were offered.
BioInv ==
    /\ BioTypeOK
    /\ \A i \in 0..(fingerprint_count - 1) : fingerprint_templates[i] \in Templates
    /\ EnrolledBySamples
    /\ bio_state.active =>
         LET id == bio_state.template.id
         IN  /\ bio_state.template \in Templates
             /\ Matching(id) = {}
             /\ bio_state.samples <= offered[id] \/ offered[id] = Required

\* What the array stands for, and what is behind its count.
TemplateTable == [i \in 1..fingerprint_count |-> fingerprint_templates[i - 1]]
Kept == INSTANCE BoundedTable WITH Entries <- Templates, Capacity <- MAX_FINGERPRINTS,
                                   table <- TemplateTable
\* The templates implement a bounded table: a full table refuses, removing one
\* template leaves the others and their order.
TemplatesKept == Kept!Spec

\* An enrollment does not go on for ever while good samples come: it ends, or
\* the host is told that there is no room.
EnrollmentEnds == bio_state.active ~> (~bio_state.active \/ bio_answer = "FULL")
============================================================================
