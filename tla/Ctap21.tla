------------------------------- MODULE Ctap21 -------------------------------
(***************************************************************************)
(* The CTAP 2.1 commands (non_secure_world/src/usb/fido2_ctap21.c): the    *)
(* table of resident keys, the options, the configuration commands and the *)
(* PIN policy.  Responses go out in one report: fido2_send_response drops  *)
(* what does not fit (and has copied it past its buffer by then, which is  *)
(* not modelled).                                                          *)
(***************************************************************************)
EXTENDS Naturals, Sequences, FiniteSets

CONSTANTS
    MaxKeys,            \* places in resident_keys (10)
    Ids, Users, Rps,    \* credential ids, user names, relying parties
    PinLengths,         \* bound: PIN lengths that are set or validated
    CommonPins,         \* the four digits that are refused: 0000 and 1234
    None

MIN_PIN == 4
MAX_PIN == 64
DEFAULT_PIN == 6

ASSUME Ctap21Assumption == /\ MaxKeys \in Nat
                           /\ PinLengths \subseteq Nat
                           /\ None \notin Ids

VARIABLES
    options,        \* the options the code reads or changes: uv and enterprise
    config,         \* enterprise_enabled, always_uv and min_pin_length
    resident_keys,  \* the array: a key or None, which is all zeros
    credential_count,
    answer,         \* status of the last answer, "lost" if it did not fit
    permitted,      \* history: the config command has enabled attestation
    named           \* history: id of the last change or removal

keys == <<resident_keys, credential_count, named>>
ctapVars == <<options, config, keys, answer, permitted>>

Keys == [id : Ids, rp : Rps, user : Users]
Positions == 0..(MaxKeys - 1)
InUse == 0..(credential_count - 1)
Statuses == {"success", "lost", "failure", "NO_CREDENTIALS", "NO_OPERATIONS", "NOT_ALLOWED",
             "INVALID_CREDENTIAL", "INVALID_PARAMETER", "PIN_POLICY_VIOLATION",
             "INVALID_COMMAND", "ATTESTED"}
Empty == [i \in Positions |-> None]

Matching(id) == {i \in InUse : resident_keys[i].id = id}
FoundAt(id) == CHOOSE i \in Matching(id) : \A j \in Matching(id) : i <= j

\* memcmp over the length of the query: a query is the relying parties that
\* begin with it; the empty one finds all.
Found(query) == {i \in InUse : resident_keys[i].rp \in query}

Defaults == [enterprise_enabled |-> FALSE, always_uv |-> FALSE, min_pin_length |-> DEFAULT_PIN]

Init == /\ options = [uv |-> FALSE, enterprise |-> FALSE]
        /\ config = Defaults
        /\ resident_keys = Empty /\ credential_count = 0
        /\ answer = "failure" /\ permitted = FALSE /\ named = None

\* fido2_ctap21_init; memset and then the defaults.
Reset == /\ options' = [uv |-> FALSE, enterprise |-> FALSE]
         /\ config' = Defaults
         /\ resident_keys' = Empty /\ credential_count' = 0
         /\ permitted' = FALSE
         /\ answer' = "failure"
         /\ UNCHANGED named

Answer(status) == answer' = status
ReadOnly == UNCHANGED <<options, config, keys, permitted>>

----------------------------------------------------------------------------
(* Commands of the host. *)

\* A key has 329 bytes and a report 64: what is found is never delivered.
GetCredentials(query) ==
    /\ Answer(IF Found(query) = {} THEN "NO_CREDENTIALS" ELSE "lost")
    /\ ReadOnly

\* The index counts all keys, not those of the relying party; the 66 bytes of
\* the answer do not fit either.
GetNextAssertion(index) ==
    /\ Answer(IF index \in InUse THEN "lost" ELSE "NO_OPERATIONS")
    /\ ReadOnly

\* The timeout byte is the index.
SelectionSelect(index) ==
    /\ Answer(IF index \in InUse THEN "success" ELSE "INVALID_CREDENTIAL")
    /\ ReadOnly

\* SELECTION_CMD_GET sleeps and succeeds; BIO_INFO answers from constants and
\* the fingerprint count.
SelectionGetOrBioInfo == Answer("success") /\ ReadOnly

UnknownCommand == Answer("INVALID_COMMAND") /\ ReadOnly
UnknownConfig == Answer("INVALID_PARAMETER") /\ ReadOnly

EnableEnterprise ==
    \/ /\ ~options.enterprise
       /\ options' = [options EXCEPT !.enterprise = TRUE]
       /\ config' = [config EXCEPT !.enterprise_enabled = TRUE]
       /\ permitted' = TRUE
       /\ Answer("success")
       /\ UNCHANGED keys
    \/ /\ options.enterprise
       /\ Answer("NOT_ALLOWED")
       /\ ReadOnly

ToggleAlwaysUv(enable) ==
    /\ config' = [config EXCEPT !.always_uv = enable]
    /\ options' = [options EXCEPT !.uv = enable]
    /\ Answer("success")
    /\ UNCHANGED <<keys, permitted>>

\* Mutation: a PIN longer than 64 bytes is let through.
SetMinPinLengthUnchecked(length) ==
    /\ config' = [config EXCEPT !.min_pin_length = length]
    /\ Answer("success")
    /\ UNCHANGED <<options, keys, permitted>>

SetMinPinLength(length) ==
    \/ /\ length \in MIN_PIN..MAX_PIN
       /\ config' = [config EXCEPT !.min_pin_length = length]
       /\ Answer("success")
       /\ UNCHANGED <<options, keys, permitted>>
    \/ /\ length \notin MIN_PIN..MAX_PIN
       /\ Answer("PIN_POLICY_VIOLATION")
       /\ ReadOnly

Command == \/ \E query \in SUBSET Rps : GetCredentials(query)
           \/ \E index \in 0..MaxKeys : GetNextAssertion(index) \/ SelectionSelect(index)
           \/ SelectionGetOrBioInfo
           \/ EnableEnterprise
           \/ \E enable \in BOOLEAN : ToggleAlwaysUv(enable)
           \/ \E length \in PinLengths : SetMinPinLength(length)
           \/ UnknownCommand \/ UnknownConfig

----------------------------------------------------------------------------
(* Functions of the module that no command reaches. *)

\* Nothing compares the new id with those in the table.
StoreResidentKey(key) ==
    \/ /\ credential_count < MaxKeys
       /\ resident_keys' = [resident_keys EXCEPT ![credential_count] = key]
       /\ credential_count' = credential_count + 1
       /\ Answer("success")
       /\ UNCHANGED <<options, config, permitted, named>>
    \/ /\ credential_count >= MaxKeys
       /\ Answer("failure")
       /\ ReadOnly

\* Mutation: the last key takes the place of the deleted one.
DeleteCredentialSwap(id) ==
    /\ Matching(id) # {}
    /\ resident_keys' = [resident_keys EXCEPT
                           ![FoundAt(id)] = resident_keys[credential_count - 1],
                           ![credential_count - 1] = None]
    /\ credential_count' = credential_count - 1
    /\ named' = id
    /\ Answer("success")
    /\ UNCHANGED <<options, config, permitted>>

\* The keys behind the deleted one move down, the last place is zeroed.
DeleteCredential(id) ==
    \/ /\ Matching(id) # {}
       /\ resident_keys' =
            [i \in Positions |->
               IF i = credential_count - 1 THEN None
               ELSE resident_keys[IF FoundAt(id) <= i /\ i < credential_count THEN i + 1 ELSE i]]
       /\ credential_count' = credential_count - 1
       /\ named' = id
       /\ Answer("success")
       /\ UNCHANGED <<options, config, permitted>>
    \/ /\ Matching(id) = {}
       /\ Answer("failure")
       /\ ReadOnly

UpdateUser(id, user) ==
    \/ /\ Matching(id) # {}
       /\ resident_keys' = [resident_keys EXCEPT ![FoundAt(id)].user = user]
       /\ named' = id
       /\ Answer("success")
       /\ UNCHANGED <<options, config, credential_count, permitted>>
    \/ /\ Matching(id) = {}
       /\ Answer("failure")
       /\ ReadOnly

SetOptions(opts) == /\ options' = opts
                    /\ Answer("success")
                    /\ UNCHANGED <<config, keys, permitted>>

\* Mutation: the option is taken for the setting.
AttestsByOption == options.enterprise
\* What grants an enterprise attestation.
Attests == config.enterprise_enabled
EnterpriseAttest == /\ Answer(IF Attests THEN "ATTESTED" ELSE "failure")
                    /\ ReadOnly

ValidatePinPolicy(pin, length) ==
    /\ Answer(IF \/ length < config.min_pin_length
                 \/ length = 4 /\ pin \in CommonPins
              THEN "failure" ELSE "success")
    /\ ReadOnly

Function == \/ \E key \in Keys : StoreResidentKey(key)
            \/ \E id \in Ids : DeleteCredential(id) \/ \E user \in Users : UpdateUser(id, user)
            \/ \E opts \in [uv : BOOLEAN, enterprise : BOOLEAN] : SetOptions(opts)
            \/ EnterpriseAttest
            \/ \E length \in PinLengths, pin \in CommonPins \cup {None} :
                  ValidatePinPolicy(pin, length)

Next == Reset \/ Command \/ Function
Spec == Init /\ [][Next]_ctapVars

----------------------------------------------------------------------------
Ctap21TypeOK ==
    /\ options \in [uv : BOOLEAN, enterprise : BOOLEAN]
    /\ config \in [enterprise_enabled : BOOLEAN, always_uv : BOOLEAN,
                   min_pin_length : MIN_PIN..MAX_PIN]
    /\ resident_keys \in [Positions -> Keys \cup {None}]
    /\ credential_count \in 0..MaxKeys
    /\ answer \in Statuses /\ permitted \in BOOLEAN /\ named \in Ids \cup {None}

\* What the array stands for.
KeyTable == [i \in 1..credential_count |-> resident_keys[i - 1]]
Kept == INSTANCE BoundedTable WITH Entries <- Keys, Capacity <- MaxKeys, table <- KeyTable
\* The resident keys implement a bounded table, with keys of the same id next
\* to each other: deleting or renaming one touches the oldest with that id and
\* keeps all others in their order.
KeysKept == Kept!Spec

\* An enterprise attestation goes out only if the configuration command has
\* enabled it since the last start: writing the options, which say
\* "enterprise" too, is not enough, and does not take it away.
AttestedIfPermitted == /\ answer = "ATTESTED" => permitted
                       /\ permitted => config.enterprise_enabled

\* The inductive invariant behind them: the places in use hold keys, and
\* nothing but the configuration command enables attestation.
CtapInv == /\ Ctap21TypeOK
           /\ \A i \in InUse : resident_keys[i] \in Keys
           /\ AttestedIfPermitted
           /\ config.enterprise_enabled => permitted

=============================================================================
