---------------------------- MODULE DeviceModes ----------------------------
(***************************************************************************)
(* The button, the LED and the three modes of the device                   *)
(* (secure_world/main_secure.c, hid_keyboard.c, time_sync.c).  One loop    *)
(* polls the button, measures how long it has been held and sleeps while   *)
(* it blinks; the finger moves and time passes meanwhile.                  *)
(*                                                                         *)
(* Time is counted in ticks.  The loop polls at least once a tick, and     *)
(* between two movements of the finger, unless it sleeps: an iteration     *)
(* takes microseconds.  Held times saturate at Cap, above which no         *)
(* comparison of the code can tell two of them apart.                      *)
(***************************************************************************)
EXTENDS Naturals, FiniteSets

CONSTANTS Debounce,    \* ticks a press must exceed to count (50 ms)
          Double,      \* difference of held times of a "double" (500 ms)
          Long,        \* ticks a long press exceeds (3 s)
          Blink,       \* ticks of one phase of a blink (100 ms)
          Blinks,      \* ticks of the blinks of a mode change (600 ms)
          Typing,      \* ticks it takes to type a code (700 ms)
          Refresh,     \* ticks after which the loop sets the LED again
          MaxSlots,    \* credential slots
          None

ASSUME TimesAssumption ==
    /\ {Debounce, Double, Long, Blink, Blinks, Typing, Refresh, MaxSlots} \subseteq Nat
    /\ Debounce < Long
    /\ {Blink, Blinks, Typing} \cap {0} = {}
    /\ None \notin {"green", "status"}

VARIABLES world,        \* how far the boot has come
          down,         \* the finger is on the button
          heldFor,      \* ticks since it was put there
          served,       \* history: what that press has brought about
          button,       \* button_pressed, long_press_detected, press and last times
          current_mode,
          index,        \* current_credential_index
          store,        \* the slots in use whose credential opens, and the others
          hidEnabled, synced,
          led, sinceUpdate,
          sleeping, after   \* ticks left of sleep_ms, the colour set after it

finger == <<down, heldFor, served>>
lamp == <<led, sinceUpdate, sleeping, after>>
settings == <<hidEnabled, synced, store>>
vars == <<world, finger, button, current_mode, index, settings, lamp>>

Modes == {"CCID", "HID", "CONFIG"}
Colors == {"green", "yellow", "blue", "magenta", "orange", "white", "red", "off"}
Effects == {"mode", "next", "code", "blink"}
Cap == Long + 2
Times == 0..Cap
Later(t) == IF t = Cap THEN Cap ELSE t + 1
Slots == 0..(MaxSlots - 1)

\* The difference of two unsigned 64-bit times: below Double only if it does
\* not wrap.
WithinDouble(t, last) == t >= last /\ t - last < Double

\* Mutation: past the last mode.
NextModeUnwrapped(m) ==
    CASE m = "CCID" -> "HID" [] m = "HID" -> "CONFIG" [] OTHER -> "3"
NextMode(m) == CASE m = "CCID" -> "HID" [] m = "HID" -> "CONFIG" [] OTHER -> "CCID"

StatusColor(m, s) ==
    CASE m = "CCID" -> IF s THEN "green" ELSE "yellow"
      [] m = "HID" -> IF s THEN "blue" ELSE "magenta"
      [] OTHER -> "orange"

\* oath_storage_list(n): the n-th slot in use, if its credential opens.
Listed(n) == \E i \in Slots :
    /\ store[i] = "opens"
    /\ Cardinality({j \in 0..(i - 1) : store[j] # "free"}) = n

----------------------------------------------------------------------------
Init ==
    /\ world = "boot"
    /\ down = FALSE /\ heldFor = 0 /\ served = {}
    /\ button = [pressed |-> FALSE, long |-> FALSE, held |-> 0, last |-> 0]
    /\ current_mode = "CCID" /\ index = 0
    /\ store \in [Slots -> {"free", "opens", "shut"}]
    /\ hidEnabled = FALSE /\ synced = FALSE
    /\ led = "off" /\ sinceUpdate = 0
    /\ sleeping = 0 /\ after = None

\* The secure main: initialisations, then a jump if the vector table is there.
Boot == /\ world = "boot"
        /\ hidEnabled' = FALSE /\ synced' = FALSE /\ index' = 0
        /\ world' \in {"halted", "non_secure"}
        /\ UNCHANGED <<finger, button, current_mode, store, lamp>>

\* The jump is not meant to return; if it does, the loop is entered.
JumpReturns == /\ world = "non_secure"
               /\ world' = "loop"
               /\ UNCHANGED <<finger, button, current_mode, index, settings, lamp>>

\* Mutation: the LED is never set again.
EndIterationUnrefreshed(color) == led' = color /\ UNCHANGED sinceUpdate
\* The end of an iteration: the LED is set again when an update is due.
EndIteration(color) ==
    IF sinceUpdate > Refresh
    THEN led' = StatusColor(current_mode', synced) /\ sinceUpdate' = 0
    ELSE led' = color /\ UNCHANGED sinceUpdate

Continue == /\ EndIteration(led)
            /\ UNCHANGED <<sleeping, after>>

\* The handler shows a colour, sleeps, and leaves another one behind.
Sleep(color, ticks, final) ==
    /\ led' = color /\ sleeping' = ticks /\ after' = final
    /\ UNCHANGED sinceUpdate

Looping == world = "loop" /\ after = None

Wake == /\ world = "loop" /\ after # None /\ sleeping = 0
        /\ UNCHANGED <<world, finger, button, current_mode, index, settings, sleeping>>
        /\ EndIteration(IF after = "status" THEN StatusColor(current_mode, synced)
                                            ELSE after)
        /\ after' = None

SeePressed ==
    /\ Looping /\ down /\ ~button.pressed
    /\ button' = [button EXCEPT !.pressed = TRUE, !.held = 0]
    /\ UNCHANGED current_mode
    /\ Continue
    /\ UNCHANGED <<world, finger, index, settings>>

SeeHeld ==
    /\ Looping /\ down /\ button.pressed
    /\ IF button.held > Long /\ ~button.long
       THEN /\ button' = [button EXCEPT !.long = TRUE]
            /\ current_mode' = NextMode(current_mode)
            /\ served' = served \cup {"mode"}
            /\ Sleep("off", Blinks, "status")
       ELSE /\ UNCHANGED <<button, current_mode, served>>
            /\ Continue
    /\ UNCHANGED <<world, down, heldFor, index, settings>>

----------------------------------------------------------------------------
(* What a short press does in the modes. *)

\* Mutation: the end of the list is not noticed.
NextCredentialUnchecked ==
    /\ index' = index + 1
    /\ Sleep("yellow", Blink, "green")
NextCredential ==
    /\ index' = IF Listed(index) THEN index + 1 ELSE 0
    /\ Sleep("yellow", Blink, "green")

GenerateCode ==
    /\ UNCHANGED index
    /\ \/ /\ ~hidEnabled
          /\ Continue
       \/ /\ hidEnabled /\ (~Listed(index) \/ ~synced)
          /\ Sleep("red", 2 * Blink, "green")
       \/ /\ hidEnabled /\ Listed(index) /\ synced
          /\ Sleep("off", Typing, "green")

\* Mutation: a long press does what a short one does, too, and no press is double.
EffectAfterLong == IF button.held > Debounce
                   THEN CASE current_mode = "HID" -> "code"
                          [] current_mode = "CCID" -> "blink"
                          [] OTHER -> None
                   ELSE None
Effect == IF ~button.long /\ button.held > Debounce
          THEN CASE current_mode = "HID" ->
                      IF button.last > 0 /\ WithinDouble(button.held, button.last)
                      THEN "next" ELSE "code"
                 [] current_mode = "CCID" -> "blink"
                 [] OTHER -> None
          ELSE None

\* Mutation: the press is not cleared.
ReleasedStillPressed ==
    [pressed |-> TRUE, long |-> FALSE, held |-> button.held, last |-> button.held]
\* Mutation: the long press is not cleared.
ReleasedStillLong ==
    [pressed |-> FALSE, long |-> button.long, held |-> 0, last |-> button.held]
\* held is measured from the next press on.
Released == [pressed |-> FALSE, long |-> FALSE, held |-> 0, last |-> button.held]

SeeReleased ==
    /\ Looping /\ ~down /\ button.pressed
    /\ UNCHANGED current_mode
    /\ \/ Effect = "next" /\ NextCredential
       \/ Effect = "code" /\ GenerateCode
       \/ Effect = "blink" /\ Sleep("white", Blink, "status") /\ UNCHANGED index
       \/ Effect = None /\ Continue /\ UNCHANGED index
    /\ served' = served \cup ({Effect} \ {None})
    /\ button' = Released
    /\ UNCHANGED <<world, down, heldFor, settings>>

SeeIdle == /\ Looping /\ ~down /\ ~button.pressed
           /\ UNCHANGED current_mode
           /\ Continue
           /\ UNCHANGED <<world, finger, button, index, settings>>

Poll == SeePressed \/ SeeHeld \/ SeeReleased \/ SeeIdle

----------------------------------------------------------------------------
(* The finger, the clock and the rest of the firmware. *)

\* The loop has seen where the finger is, or sleeps.
Seen == world = "loop" => \/ sleeping > 0
                          \/ after = None /\ button.pressed = down

Press == /\ ~down /\ Seen
         /\ down' = TRUE /\ heldFor' = 0 /\ served' = {}
         /\ UNCHANGED <<world, button, current_mode, index, settings, lamp>>

Lift == /\ down /\ Seen
        /\ down' = FALSE /\ heldFor' = 0
        /\ UNCHANGED <<world, served, button, current_mode, index, settings, lamp>>

\* The loop does what is due before the next tick.
Due == after = None /\ (\/ down # button.pressed
                        \/ down /\ button.held > Long /\ ~button.long
                        \/ sinceUpdate > Refresh)
Tick == /\ world = "loop" => sleeping > 0 \/ (after = None /\ ~Due)
        /\ heldFor' = IF down THEN Later(heldFor) ELSE heldFor
        /\ button' = IF button.pressed THEN [button EXCEPT !.held = Later(@)] ELSE button
        /\ sinceUpdate' = IF sinceUpdate > Refresh THEN sinceUpdate ELSE sinceUpdate + 1
        /\ sleeping' = IF sleeping > 0 THEN sleeping - 1 ELSE 0
        /\ UNCHANGED <<world, down, served, current_mode, index, settings, led, after>>

SetHidMode(on) ==
    /\ Looping
    /\ hidEnabled' = on
    /\ led' = IF on THEN "green" ELSE "off"
    /\ UNCHANGED <<world, finger, button, current_mode, index, synced, store,
                   sinceUpdate, sleeping, after>>

SetTimestamp ==
    /\ Looping
    /\ synced' = TRUE
    /\ UNCHANGED <<world, finger, button, current_mode, index, hidEnabled, store, lamp>>

\* A credential is stored, deleted, or no longer opens.
StoreChanges ==
    /\ Looping
    /\ \E i \in Slots, c \in {"free", "opens", "shut"} : store' = [store EXCEPT ![i] = c]
    /\ UNCHANGED <<world, finger, button, current_mode, index, hidEnabled, synced, lamp>>

Next == \/ Boot \/ JumpReturns
        \/ Poll \/ Wake
        \/ Press \/ Lift \/ Tick
        \/ \E on \in BOOLEAN : SetHidMode(on)
        \/ SetTimestamp
        \/ StoreChanges

\* The loop goes round and time passes, however the finger moves: strong fairness
\* of the tick rules out endless movements within one tick.
Fairness == WF_vars(Poll) /\ WF_vars(Wake) /\ SF_vars(Tick)
Spec == Init /\ [][Next]_vars /\ Fairness

----------------------------------------------------------------------------
DeviceTypeOK ==
    /\ world \in {"boot", "halted", "non_secure", "loop"}
    /\ down \in BOOLEAN /\ heldFor \in Times /\ served \subseteq Effects
    /\ button \in [pressed : BOOLEAN, long : BOOLEAN, held : Times, last : Times]
    /\ current_mode \in Modes
    /\ index \in 0..MaxSlots
    /\ store \in [Slots -> {"free", "opens", "shut"}]
    /\ hidEnabled \in BOOLEAN /\ synced \in BOOLEAN
    /\ led \in Colors /\ sinceUpdate \in 0..(Refresh + 1)
    /\ sleeping \in {0} \cup UNION {1..d : d \in {2 * Blink, Blinks, Typing}}
    /\ after \in {"green", "status", None}

\* Putting the finger down and lifting it again does one thing at most, even
\* when the loop slept through part of it: a long press that has changed the
\* mode does not also type a code or turn to the next credential.
OneEffect == Cardinality(served) <= 1

\* The mode changes only under a finger that has been down for more than the
\* long time: two short presses are never taken for one long press, although
\* the loop sleeps and misses movements.
ShortKeepsMode == [][current_mode' # current_mode => down /\ heldFor > Long]_vars

\* The inductive invariant behind both: while a press is on its way to become a
\* long one the loop has neither slept nor missed a movement, and nothing has
\* come of the press yet.
DeviceInv ==
    /\ DeviceTypeOK
    /\ OneEffect
    /\ after = None => sleeping = 0
    /\ world # "loop" => after = None /\ ~button.pressed
    /\ button.long => button.pressed
    /\ (down \/ button.pressed) /\ ~button.long => served = {}
    /\ button.pressed /\ ~button.long =>
         after = None /\ (down => button.held <= heldFor)

\* A press that the loop sees begin, and that is not lifted, changes the mode.
\* (One that begins while it blinks may be taken for the one before.)
HeldChangesMode ==
    (world = "loop" /\ down /\ ~button.pressed) ~> (~down \/ "mode" \in served)

\* Whatever a handler leaves on the LED, it comes to tell the mode again.
LedTellsMode == world = "loop" ~> led = StatusColor(current_mode, synced)
=============================================================================
