--------------------------- MODULE DeviceModesProofs ---------------------------
(***************************************************************************)
(* Theorems about the button, the LED and the modes (DeviceModes), for     *)
(* every choice of the times, every number of slots and every way to move  *)
(* the finger while the loop sleeps.                                       *)
(***************************************************************************)
EXTENDS DeviceModes, Integers, FiniteSetTheorems, TLAPS

LEMMA TimesType ==
  /\ Blink \in Nat \ {0} /\ Blinks \in Nat \ {0} /\ Typing \in Nat \ {0}
  /\ Long \in Nat /\ Refresh \in Nat /\ MaxSlots \in Nat
<1>1. \A t \in {Blink, Blinks, Typing} : t \notin {Blink, Blinks, Typing} \cap {0}
  BY TimesAssumption
<1> QED BY <1>1, TimesAssumption

\* The list has at most as many entries as there are slots.
LEMMA ListedBound ==
  ASSUME NEW n \in Nat, Listed(n)
  PROVE  n + 1 <= MaxSlots
<1>1. PICK i \in Slots : Cardinality({j \in 0..(i - 1) : store[j] # "free"}) = n
  BY DEF Listed
<1> DEFINE before == {j \in 0..(i - 1) : store[j] # "free"}
<1>2. i \in Nat /\ MaxSlots \in Nat /\ i <= MaxSlots - 1
  BY TimesAssumption DEF Slots
<1>3. IsFiniteSet(0..(i - 1)) /\ Cardinality(0..(i - 1)) = i
  <2>1. IsFiniteSet(0..(i - 1)) /\ Cardinality(0..(i - 1)) = IF 0 > i - 1 THEN 0 ELSE i - 1 - 0 + 1
    BY <1>2, FS_Interval
  <2> QED BY <1>2, <2>1
<1>4. before \in SUBSET (0..(i - 1))
  OBVIOUS
<1>5. Cardinality(before) <= i
  BY <1>3, <1>4, FS_Subset
<1> QED BY <1>1, <1>2, <1>5

LEMMA LaterType ==
  ASSUME NEW t \in Times
  PROVE  Later(t) \in Times
BY TimesAssumption DEF Later, Times, Cap

\* Later keeps the order of two held times, also where they saturate.
LEMMA LaterMonotone ==
  ASSUME NEW s \in Times, NEW t \in Times, s <= t
  PROVE  Later(s) <= Later(t)
BY TimesAssumption DEF Later, Times, Cap

LEMMA ColorType == \A m \in Modes, s \in BOOLEAN : StatusColor(m, s) \in Colors
BY DEF StatusColor, Modes, Colors

LEMMA ModeType == \A m \in Modes : NextMode(m) \in Modes
BY DEF NextMode, Modes

Sleeps == {0} \cup UNION {1..d : d \in {2 * Blink, Blinks, Typing}}

LEMMA SleepType ==
  /\ {Blink, 2 * Blink, Blinks, Typing} \subseteq Sleeps
  /\ \A s \in Sleeps : s \in Nat /\ (s > 0 => s - 1 \in Sleeps)
<1>1. /\ Blink \in Nat /\ Blink > 0 /\ Blinks \in Nat /\ Blinks > 0
      /\ Typing \in Nat /\ Typing > 0
  BY TimesType
<1>2. Sleeps = {0} \cup (1..(2 * Blink)) \cup (1..Blinks) \cup (1..Typing)
  BY DEF Sleeps
<1> QED BY <1>1, <1>2

\* The end of an iteration shows a colour.
LEMMA IterationType ==
  ASSUME DeviceTypeOK, NEW color \in Colors, EndIteration(color),
         current_mode' \in Modes
  PROVE  led' \in Colors /\ sinceUpdate' \in 0..(Refresh + 1)
BY ColorType, TimesAssumption DEF EndIteration, DeviceTypeOK

LEMMA ContinueType ==
  ASSUME DeviceTypeOK, Continue, current_mode' \in Modes
  PROVE  /\ led' \in Colors /\ sinceUpdate' \in 0..(Refresh + 1)
         /\ sleeping' = sleeping /\ after' = after
BY IterationType DEF Continue, DeviceTypeOK

\* What a sleep of a handler leaves.
LEMMA SleepFacts ==
  ASSUME DeviceTypeOK, NEW color \in Colors, NEW ticks \in {Blink, 2 * Blink, Blinks, Typing},
         NEW final \in {"green", "status"}, Sleep(color, ticks, final)
  PROVE  /\ led' \in Colors /\ sinceUpdate' \in 0..(Refresh + 1)
         /\ sleeping' \in Sleeps /\ after' \in {"green", "status"}
BY SleepType DEF Sleep, DeviceTypeOK

\* After a release the lamp is well typed, and asleep only with something to do
\* afterwards.
LEMMA ReleaseFacts ==
  ASSUME DeviceTypeOK, SeeReleased
  PROVE  /\ led' \in Colors /\ sinceUpdate' \in 0..(Refresh + 1)
         /\ sleeping' \in Sleeps /\ after' \in {"green", "status", None}
         /\ after' = None => sleeping' = sleeping
         /\ index' \in 0..MaxSlots
<1> USE DEF Colors
<1>0. index \in Nat /\ MaxSlots \in Nat /\ None \notin {"green", "status"}
      /\ current_mode' \in Modes /\ sleeping \in Sleeps
      /\ after \in {"green", "status", None} /\ index \in 0..MaxSlots
  BY TimesAssumption DEF DeviceTypeOK, SeeReleased, Sleeps
<1>1. CASE NextCredential
  <2>1. index' \in 0..MaxSlots
    BY <1>0, <1>1, ListedBound DEF NextCredential
  <2> QED BY <1>0, <1>1, <2>1, SleepFacts DEF NextCredential
<1>2. CASE GenerateCode
  BY <1>0, <1>2, SleepFacts, ContinueType DEF GenerateCode
<1>3. CASE Sleep("white", Blink, "status") /\ UNCHANGED index
  BY <1>0, <1>3, SleepFacts
<1>4. CASE Continue /\ UNCHANGED index
  BY <1>0, <1>4, ContinueType
<1> QED BY <1>1, <1>2, <1>3, <1>4 DEF SeeReleased

LEMMA InitType == Init => DeviceTypeOK
<1> SUFFICES ASSUME Init PROVE DeviceTypeOK
  OBVIOUS
<1>1. 0 \in Times /\ 0 \in 0..MaxSlots /\ 0 \in 0..(Refresh + 1)
  BY TimesType DEF Times, Cap
<1>2. button \in [pressed : BOOLEAN, long : BOOLEAN, held : Times, last : Times]
  BY <1>1 DEF Init
<1> QED BY <1>1, <1>2 DEF Init, DeviceTypeOK, Modes, Colors

LEMMA NextType == DeviceTypeOK /\ [Next]_vars => DeviceTypeOK'
<1> SUFFICES ASSUME DeviceTypeOK, [Next]_vars PROVE DeviceTypeOK'
  OBVIOUS
<1>t. /\ sleeping \in Sleeps /\ 0 \in Times /\ Refresh \in Nat /\ 0 \in Sleeps
      /\ \A s \in Sleeps : s \in {0} \cup UNION {1..d : d \in {2 * Blink, Blinks, Typing}}
  BY TimesAssumption DEF DeviceTypeOK, Sleeps, Times, Cap
<1>1. CASE Boot \/ JumpReturns
  <2>1. 0 \in 0..MaxSlots
    BY TimesType
  <2> QED BY <1>1, <2>1 DEF Boot, JumpReturns, DeviceTypeOK, finger, lamp, settings
<1>2. CASE SeePressed
  BY <1>2, <1>t, ContinueType DEF SeePressed, DeviceTypeOK, finger, settings
<1>3. CASE SeeHeld
  <2>1. CASE current_mode' = NextMode(current_mode) /\ Sleep("off", Blinks, "status")
             /\ served' = served \cup {"mode"} /\ button' = [button EXCEPT !.long = TRUE]
    <3>1. led' \in Colors /\ sinceUpdate' \in 0..(Refresh + 1)
          /\ sleeping' \in Sleeps /\ after' \in {"green", "status"}
      BY <2>1, SleepFacts DEF Colors
    <3> QED BY <1>3, <1>t, <2>1, <3>1, ModeType
            DEF SeeHeld, DeviceTypeOK, Effects, settings
  <2>2. CASE UNCHANGED <<button, current_mode, served>> /\ Continue
    BY <1>3, <2>2, ContinueType DEF SeeHeld, DeviceTypeOK, settings
  <2> QED BY <1>3, <2>1, <2>2 DEF SeeHeld
<1>4. CASE SeeReleased
  <2>1. served' \subseteq Effects
    BY <1>4 DEF SeeReleased, Effect, Effects, DeviceTypeOK
  <2>2. button' \in [pressed : BOOLEAN, long : BOOLEAN, held : Times, last : Times]
    BY <1>4, <1>t DEF SeeReleased, Released, DeviceTypeOK
  <2> QED BY <1>4, <1>t, <2>1, <2>2, ReleaseFacts DEF SeeReleased, DeviceTypeOK, settings
<1>5. CASE SeeIdle
  BY <1>5, ContinueType DEF SeeIdle, DeviceTypeOK, finger, settings
<1>6. CASE Wake
  <2>1. led' \in Colors /\ sinceUpdate' \in 0..(Refresh + 1)
    <3>1. (IF after = "status" THEN StatusColor(current_mode, synced) ELSE after) \in Colors
      BY <1>6, ColorType DEF Wake, DeviceTypeOK, Colors
    <3> QED BY <1>6, <3>1, IterationType DEF Wake, DeviceTypeOK
  <2> QED BY <1>6, <2>1 DEF Wake, DeviceTypeOK, finger, settings
<1>7. CASE Press \/ Lift
  BY <1>7, <1>t DEF Press, Lift, DeviceTypeOK, lamp, settings
<1>8. CASE Tick
  <2>1. heldFor' \in Times /\ Later(button.held) \in Times
    BY <1>8, <1>t, LaterType DEF Tick, DeviceTypeOK
  <2>2. button' \in [pressed : BOOLEAN, long : BOOLEAN, held : Times, last : Times]
    BY <1>8, <2>1 DEF Tick, DeviceTypeOK
  <2>3. sinceUpdate' \in 0..(Refresh + 1)
    BY <1>8, <1>t DEF Tick, DeviceTypeOK
  <2>4. sleeping' \in Sleeps
    BY <1>8, <1>t, SleepType DEF Tick
  <2> QED BY <1>8, <1>t, <2>1, <2>2, <2>3, <2>4 DEF Tick, DeviceTypeOK, settings
<1>9. ASSUME NEW on \in BOOLEAN, SetHidMode(on) PROVE DeviceTypeOK'
  BY <1>9 DEF SetHidMode, DeviceTypeOK, Colors, finger
<1>10. CASE SetTimestamp \/ StoreChanges
  BY <1>10 DEF SetTimestamp, StoreChanges, DeviceTypeOK, finger, lamp
<1>11. CASE UNCHANGED vars
  BY <1>11 DEF vars, finger, lamp, settings, DeviceTypeOK
<1> QED BY <1>1, <1>2, <1>3, <1>4, <1>5, <1>6, <1>7, <1>8, <1>9, <1>10, <1>11 DEF Next, Poll

\* The button, the modes, the LED and the index into the credentials always
\* have their types: the index stays within the slots.
THEOREM DeviceTypeCorrect == Spec => []DeviceTypeOK
<1> QED BY InitType, NextType, PTL DEF Spec

-----------------------------------------------------------------------------
(***************************************************************************)
(* One press, one effect; and only a long one changes the mode.            *)
(***************************************************************************)

LEMMA Counts == Cardinality({}) <= 1 /\ \A e : Cardinality({e}) <= 1
BY FS_EmptySet, FS_Singleton

\* A step that adds at most one effect where there was none.
LEMMA FirstEffect ==
  ASSUME served = {}, NEW e, served' \subseteq {e}
  PROVE  Cardinality(served') <= 1
<1>1. served' = {} \/ served' = {e}
  OBVIOUS
<1> QED BY <1>1, Counts

LEMMA InitInv == Init => DeviceInv
BY InitType, Counts DEF Init, DeviceInv, OneEffect

\* Polls while the finger and the flag disagree.
LEMMA ReleaseInv ==
  ASSUME DeviceInv, SeeReleased, DeviceTypeOK'
  PROVE  DeviceInv'
<1>1. /\ world = "loop" /\ world' = world /\ ~down /\ down' = down /\ button.pressed
      /\ ~button'.pressed /\ ~button'.long /\ after = None /\ sleeping = 0
  BY DEF SeeReleased, Looping, Released, DeviceInv, DeviceTypeOK
<1>2. OneEffect'
  <2>1. CASE button.long
    BY <2>1 DEF SeeReleased, Effect, DeviceInv, OneEffect
  <2>2. CASE ~button.long
    <3>1. served = {} /\ served' \subseteq {Effect}
      BY <1>1, <2>2 DEF SeeReleased, DeviceInv
    <3> QED BY <3>1, FirstEffect DEF OneEffect
  <2> QED BY <2>1, <2>2
<1>3. after' = None => sleeping' = 0
  BY <1>1, ReleaseFacts DEF DeviceInv
<1> QED BY <1>1, <1>2, <1>3 DEF DeviceInv

LEMMA HeldInv ==
  ASSUME DeviceInv, SeeHeld, DeviceTypeOK'
  PROVE  DeviceInv'
<1>1. /\ world = "loop" /\ world' = world /\ down /\ down' = down /\ button.pressed
      /\ after = None /\ sleeping = 0 /\ heldFor' = heldFor
  BY DEF SeeHeld, Looping, DeviceInv
<1>2. CASE ~button.long /\ served' = served \cup {"mode"} /\ button' = [button EXCEPT !.long = TRUE]
           /\ Sleep("off", Blinks, "status")
  <2>1. button'.pressed /\ button'.long
    BY <1>1, <1>2 DEF DeviceInv, DeviceTypeOK
  <2>2. OneEffect'
    BY <1>1, <1>2, FirstEffect DEF DeviceInv, OneEffect
  <2>3. after' # None
    BY <1>2, TimesAssumption DEF Sleep
  <2> QED BY <1>1, <2>1, <2>2, <2>3 DEF DeviceInv
<1>3. CASE UNCHANGED <<button, current_mode, served>> /\ Continue
  BY <1>1, <1>3 DEF Continue, DeviceInv, OneEffect
<1> QED BY <1>2, <1>3 DEF SeeHeld

LEMMA NextInv == DeviceInv /\ [Next]_vars => DeviceInv'
<1> SUFFICES ASSUME DeviceInv, [Next]_vars PROVE DeviceInv'
  OBVIOUS
<1>t. DeviceTypeOK /\ DeviceTypeOK'
  BY NextType DEF DeviceInv
<1>1. CASE Boot \/ JumpReturns
  BY <1>t, <1>1 DEF Boot, JumpReturns, DeviceInv, OneEffect, finger, lamp
<1>2. CASE SeePressed
  <2>1. button'.pressed /\ button'.held = 0 /\ button'.long = button.long /\ ~button.long
    BY <1>t, <1>2 DEF SeePressed, DeviceInv, DeviceTypeOK
  <2>2. 0 <= heldFor
    BY <1>t DEF DeviceTypeOK, Times
  <2> QED BY <1>t, <1>2, <2>1, <2>2 DEF SeePressed, Looping, Continue, DeviceInv, OneEffect, finger
<1>3. CASE SeeHeld
  BY <1>t, <1>3, HeldInv
<1>4. CASE SeeReleased
  BY <1>t, <1>4, ReleaseInv
<1>5. CASE SeeIdle
  BY <1>t, <1>5 DEF SeeIdle, Continue, DeviceInv, OneEffect, finger
<1>6. CASE Wake
  BY <1>t, <1>6 DEF Wake, DeviceInv, OneEffect, finger
<1>7. CASE Press
  BY <1>t, <1>7, Counts DEF Press, Seen, DeviceInv, OneEffect, lamp
<1>8. CASE Lift
  BY <1>t, <1>8 DEF Lift, DeviceInv, OneEffect, lamp
<1>9. CASE Tick
  <2>1. button'.pressed = button.pressed /\ button'.long = button.long
    BY <1>t, <1>9 DEF Tick, DeviceTypeOK
  <2>2. button.pressed /\ down /\ button.held <= heldFor => button'.held <= heldFor'
    BY <1>t, <1>9, LaterMonotone DEF Tick, DeviceTypeOK
  <2>3. after = None => sleeping' = 0
    BY <1>9 DEF Tick, DeviceInv
  <2> QED BY <1>t, <1>9, <2>1, <2>2, <2>3 DEF Tick, DeviceInv, OneEffect
<1>10. CASE (\E on \in BOOLEAN : SetHidMode(on)) \/ SetTimestamp \/ StoreChanges \/ UNCHANGED vars
  BY <1>t, <1>10 DEF SetHidMode, SetTimestamp, StoreChanges, DeviceInv, OneEffect, vars, finger, lamp
<1> QED BY <1>1, <1>2, <1>3, <1>4, <1>5, <1>6, <1>7, <1>8, <1>9, <1>10 DEF Next, Poll

LEMMA DeviceInvariant == Spec => []DeviceInv
<1> QED BY InitInv, NextInv, PTL DEF Spec

\* A press does one thing at most, also when it ends, and another begins, while
\* the loop sleeps through the blinks of a mode change.
THEOREM OneEffectOnly == Spec => []OneEffect
<1>1. DeviceInv => OneEffect
  BY DEF DeviceInv
<1> QED BY <1>1, DeviceInvariant, PTL

\* The mode changes only under a finger that has been down for the long time,
\* however long the loop slept before.
THEOREM OnlyLongChangesMode == Spec => ShortKeepsMode
<1>1. DeviceInv /\ [Next]_vars => [current_mode' # current_mode => down /\ heldFor > Long]_vars
  <2> SUFFICES ASSUME DeviceInv, Next, current_mode' # current_mode
               PROVE  down /\ heldFor > Long
    OBVIOUS
  <2>1. SeeHeld /\ down /\ button.held > Long /\ button.pressed /\ ~button.long
    BY DEF Next, Boot, JumpReturns, Poll, SeePressed, SeeHeld, SeeReleased, SeeIdle, Wake, Press,
           Lift, Tick, SetHidMode, SetTimestamp, StoreChanges
  <2>2. button.held <= heldFor /\ heldFor \in Nat /\ button.held \in Nat /\ Long \in Nat
    BY <2>1, TimesType DEF DeviceInv, DeviceTypeOK, Times
  <2> QED BY <2>1, <2>2
<1> QED BY <1>1, DeviceInvariant, PTL DEF Spec, ShortKeepsMode

=============================================================================
