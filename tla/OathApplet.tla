------------------------------ MODULE OathApplet ------------------------------
(***************************************************************************)
(* The OATH applet (oath_protocol.c) behind the applet manager             *)
(* (applet_manager.c), on top of the credential store.  An APDU is handled *)
(* to its end before the next one; only CALCULATE of an HOTP credential    *)
(* writes flash, so only it has a step between command and answer.         *)
(***************************************************************************)
EXTENDS OathStorage

CONSTANTS
  TestName,      \* the name CALCULATE looks up, whatever the APDU says
  Hotp,          \* payloads of HOTP credentials; the others are TOTP
  Touch,         \* payloads with touch_required set
  Refused        \* payloads base32 or cotp cannot compute with

\* The name CALCULATE looks up has 28 characters: no longer one is cut off to it.
ASSUME AppletAssumption ==
  /\ TestName \in Names
  /\ \A n \in Names : Trunc[n] = TestName => n = TestName
  /\ Hotp \subseteq Payloads /\ Touch \subseteq Payloads /\ Refused \subseteq Payloads

VARIABLES
  selected,   \* selected_applet, None when NULL
  pending,    \* the credential of a CALCULATE whose counter is being saved
  reply,      \* the last answer
  spent       \* history: HOTP codes CALCULATE answered with

appletVars == <<selected, pending, reply, spent>>
allVars == <<vars, appletVars>>

Applets == {"OATH", "OpenPGP", "FIDO2", "Management"}
\* The instructions README_IMPLEMENTATION.md lists, and CALCULATE ALL.
Instructions == {"PUT", "DELETE", "LIST", "CALCULATE", "CALCULATE ALL", "SET CODE",
                 "VALIDATE", "RESET", "TIME SYNC"}
StatusWords == {"9000", "6700", "6985", "6A82", "6D00", "6F00"}
Reply == [ins : Instructions \cup {"SELECT"}, sw : StatusWords,
          codes : SUBSET Credential, touch : BOOLEAN]

TouchedAnswer(i, s, cs, t) == reply' = [ins |-> i, sw |-> s, codes |-> cs, touch |-> t]
Answer(i, s, cs) == TouchedAnswer(i, s, cs, FALSE)
NoReply == [ins |-> "SELECT", sw |-> "6A82", codes |-> {}, touch |-> FALSE]

Ready == pc = "idle" /\ pending = None

\* Codes of a name that is given a new credential are new codes.
Others(codes, n) == {code \in codes : code.name # n}

-----------------------------------------------------------------------------
AppletInit ==
  /\ Init
  /\ selected = None
  /\ pending = None
  /\ reply = NoReply
  /\ spent = {}

\* applet_manager_process_apdu: SELECT by AID, then the applet's own answer.
\* INS 0xA4 with P1 = 0x00 is CALCULATE ALL to the OATH applet, which is
\* reached only from here; with any other P1 than 0x04 it is unknown to it.
SelectApplet(applet) ==
  /\ Ready
  /\ selected' = applet
  /\ \/ Answer("SELECT", "9000", {})
     \/ applet = "OATH" /\ Answer("SELECT", "6D00", {})
  /\ UNCHANGED <<vars, pending, spent>>

SelectUnknown ==
  /\ Ready
  /\ Answer("SELECT", "6A82", {})
  /\ UNCHANGED <<vars, selected, pending, spent>>

\* An APDU under 5 bytes, or (INS 0xA4 aside) without a selected applet.
Rejected(ins) ==
  /\ Ready
  /\ \/ Answer(ins, "6700", {})
     \/ selected = None /\ ins # "CALCULATE ALL" /\ Answer(ins, "6985", {})
  /\ UNCHANGED <<vars, selected, pending, spent>>

\* oath_storage_list over all indices, then oath_storage_get of each name.
Computable ==
  {ram.slots[i].cred : i \in {k \in Slots : /\ Opens(k)
                                            /\ FirstHolder(k, ram.slots[k].cred.name)
                                            /\ ram.slots[k].cred.payload \notin Refused}}

CalculateAll ==
  /\ Ready
  /\ selected' = "OATH"
  /\ Answer("CALCULATE ALL", "9000", Computable)
  /\ UNCHANGED <<vars, pending, spent>>

List ==
  /\ Ready
  /\ selected = "OATH"
  /\ Answer("LIST", "9000", {})
  /\ UNCHANGED <<vars, selected, pending, spent>>

\* No other applet knows an OATH instruction either.
NotSupported(ins) ==
  /\ Ready
  /\ selected # None
  /\ ins # "CALCULATE ALL"
  /\ selected = "OATH" => ins \notin {"LIST", "CALCULATE"}
  /\ Answer(ins, "6D00", {})
  /\ UNCHANGED <<vars, selected, pending, spent>>

-----------------------------------------------------------------------------
(***************************************************************************)
(* CALCULATE, up to its answer or up to the save of the counter.           *)
(***************************************************************************)
CalculateFails ==
  /\ Ready
  /\ selected = "OATH"
  /\ \/ (\A i \in Slots : ~Holds(i, TestName)) /\ Answer("CALCULATE", "6A82", {})
     \/ \E i \in Slots :
          /\ FirstHolder(i, TestName)
          /\ \/ ram.slots[i].cred.payload \in Touch /\ Answer("CALCULATE", "6985", {})
             \/ \E touch \in BOOLEAN :
                  /\ ram.slots[i].cred.payload \in Touch => touch
                  /\ ram.slots[i].cred.payload \in Refused
                  /\ TouchedAnswer("CALCULATE", "6F00", {}, touch)
  /\ UNCHANGED <<vars, selected, pending, spent>>

\* A credential that may be used now: touched if it must be.
Usable(i, touch) ==
  /\ FirstHolder(i, TestName)
  /\ ram.slots[i].cred.payload \in Touch => touch
  /\ ram.slots[i].cred.payload \notin Refused

CalculateTotp ==
  /\ Ready
  /\ selected = "OATH"
  /\ \E i \in Slots, touch \in BOOLEAN :
       /\ Usable(i, touch)
       /\ ram.slots[i].cred.payload \notin Hotp
       /\ TouchedAnswer("CALCULATE", "9000", {ram.slots[i].cred}, touch)
  /\ UNCHANGED <<vars, selected, pending, spent>>

\* Mutation: the code is sent before the counter is saved.
CalculateHotpEarly ==
  /\ Ready
  /\ selected = "OATH"
  /\ \E i \in Slots, touch \in BOOLEAN :
       /\ Usable(i, touch)
       /\ ram.slots[i].cred.payload \in Hotp
       /\ ram.slots[i].cred.counter < MaxCounter
       /\ UpdateCounter(TestName, ram.slots[i].cred.counter + 1)
       /\ TouchedAnswer("CALCULATE", "9000", {ram.slots[i].cred}, touch)
       /\ spent' = spent \cup {ram.slots[i].cred}
  /\ UNCHANGED <<selected, pending>>

CalculateHotp ==
  /\ Ready
  /\ selected = "OATH"
  /\ \E i \in Slots, touch \in BOOLEAN :
       /\ Usable(i, touch)
       /\ ram.slots[i].cred.payload \in Hotp
       /\ ram.slots[i].cred.counter < MaxCounter
       /\ UpdateCounter(TestName, ram.slots[i].cred.counter + 1)
       /\ pending' = [cred |-> ram.slots[i].cred, touch |-> touch]
  /\ UNCHANGED <<selected, reply, spent>>

\* Mutation: the answer waits for the button to be up.
CalculateAnswerOnRelease ==
  /\ pc = "idle"
  /\ pending # None
  /\ ~pending.touch
  /\ TouchedAnswer("CALCULATE", "9000", {pending.cred}, pending.touch)
  /\ spent' = spent \cup {pending.cred}
  /\ pending' = None
  /\ UNCHANGED <<vars, selected>>

CalculateAnswer ==
  /\ pc = "idle"
  /\ pending # None
  /\ TouchedAnswer("CALCULATE", "9000", {pending.cred}, pending.touch)
  /\ spent' = spent \cup {pending.cred}
  /\ pending' = None
  /\ UNCHANGED <<vars, selected>>

-----------------------------------------------------------------------------
(***************************************************************************)
(* The store's own steps seen from here.  applet_manager_init forgets the  *)
(* selection; a new credential, a reset and a restored image make the      *)
(* codes handed out so far a matter of the past.                           *)
(***************************************************************************)
StoreCalls ==
  /\ Ready
  /\ \/ /\ \E n \in Names, p \in Payloads :
             /\ Put(n, p)
             /\ spent' = Others(spent, Trunc[n])
        /\ UNCHANGED selected
     \/ /\ \E n \in Names : Delete(n)
        /\ UNCHANGED <<selected, spent>>
     \/ /\ Reset \/ \E image \in ForeignBackups \cup ({backup} \ {None}) : Import(image)
        /\ spent' = {}
        /\ UNCHANGED selected
     \/ Export /\ UNCHANGED <<selected, spent>>
     \/ Reinit /\ selected' = None /\ UNCHANGED spent
  /\ UNCHANGED <<pending, reply>>

Device ==
  \/ (Firmware \/ PowerOn) /\ UNCHANGED appletVars
  \/ /\ PowerLoss
     /\ selected' = None /\ pending' = None
     /\ UNCHANGED <<reply, spent>>

AppletNext ==
  \/ \E applet \in Applets : SelectApplet(applet)
  \/ SelectUnknown
  \/ \E ins \in Instructions : Rejected(ins) \/ NotSupported(ins)
  \/ CalculateAll \/ List
  \/ CalculateFails \/ CalculateTotp \/ CalculateHotp \/ CalculateAnswer
  \/ StoreCalls
  \/ Device

AppletSpec == AppletInit /\ [][AppletNext]_allVars

\* Code that was entered runs on to its answer.
AppletFairSpec ==
  AppletSpec /\ WF_allVars(Firmware /\ UNCHANGED appletVars) /\ WF_allVars(CalculateAnswer)

-----------------------------------------------------------------------------
(***************************************************************************)
(* Properties.                                                             *)
(***************************************************************************)

\* Every variable has its type.
AppletTypeOK ==
  /\ TypeOK
  /\ selected \in Applets \cup {None}
  /\ pending \in [cred : Credential, touch : BOOLEAN] \cup {None}
  /\ reply \in Reply
  /\ spent \in SUBSET Credential

\* Once CALCULATE has handed out an HOTP code, the counter behind it is past
\* that code in RAM and in what a restart would load: a loss of power at any
\* point between the computation, the two steps of the save and the answer
\* cannot bring a code back.
CodesSpent ==
  \A code \in spent, i \in Slots :
    /\ Holds(i, code.name) => ram.slots[i].cred.counter > code.counter
    /\ flash # None /\ flash.image.slots[i] # None =>
         LET stored == flash.image.slots[i]
         IN stored.key = otp /\ stored.cred.name = code.name => stored.cred.counter > code.counter

\* No code that CALCULATE has handed out is handed out again, by CALCULATE or
\* by CALCULATE ALL, whose loop over the store knows nothing of what was handed
\* out: whichever restarts, saves and calls are in between, but for a restore
\* and a reset.  (A code of CALCULATE ALL, which leaves the counter alone, may
\* still be handed out later.)
SpentNotGiven ==
  [][reply'.codes \cap spent # {} => ~(CalculateAnswer \/ CalculateTotp \/ CalculateAll)]_allVars

\* The inductive invariant behind them: the codes handed out are of the one name
\* that CALCULATE knows, one slot holds it, and from the moment its counter
\* moves in RAM the code under way is behind it, and ahead of those handed out.
AppletInv ==
  /\ AppletTypeOK
  /\ StorageInv
  /\ UniqueInv
  /\ CodesSpent
  /\ \A code \in spent : code.name = TestName
  /\ pending # None =>
       /\ pc \in {"erase", "program", "idle"}
       /\ pending.cred.name = TestName
       /\ \A i \in Slots : Holds(i, TestName) => ram.slots[i].cred.counter > pending.cred.counter
       /\ \A code \in spent : code.counter < pending.cred.counter

\* A CALCULATE that began to move its counter is answered, unless the power
\* goes first.
CalculateAnswered == pending # None ~> pending = None

=============================================================================
