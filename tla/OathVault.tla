------------------------------- MODULE OathVault -------------------------------
(***************************************************************************)
(* What the OATH store promises its callers, without slots, keys or        *)
(* ciphertext: a dictionary from names to credentials and an access code,  *)
(* and the places that credentials which cannot be read take from it.      *)
(* A change is visible at once and durable when the save that follows is   *)
(* over.  The save is not atomic: between its two steps nothing would be   *)
(* recovered, and a device that loses power there comes back empty.        *)
(* Where saves may damage the key, one may end with nothing to recover     *)
(* and every credential unreadable, in the last backup, too: all or none.  *)
(***************************************************************************)
EXTENDS Naturals, FiniteSets

CONSTANTS
  Names, Payloads, AccessCodes, Capacity, MaxCounter, None,
  Foreign,    \* what this device can make of the backups of other devices
  MayDamage   \* whether a save may damage the key

Entry == [payload : Payloads, counter : Nat]
Content == [creds : [Names -> Entry \cup {None}], unread : Nat, code : AccessCodes \cup {None}]
Empty == [creds |-> [n \in Names |-> None], unread |-> 0, code |-> None]

VARIABLES
  store,   \* what a restart recovers, None when there is nothing to recover
  work,    \* what the callers see
  phase,
  copy     \* the last backup

vars == <<store, work, phase, copy>>

StoredIn(content) == {n \in Names : content.creds[n] # None}
UsedBy(content) == Cardinality(StoredIn(content)) + content.unread
Stored == StoredIn(work)

\* What is left of a content when its key is damaged.
Damaged(content) == [creds |-> [n \in Names |-> None], unread |-> UsedBy(content), code |-> content.code]
DamagedCopy == IF copy = None THEN None ELSE Damaged(copy)

Init == store = None /\ work = Empty /\ phase = "off" /\ copy = None

Change(content) ==
  /\ phase = "ready"
  /\ work' = content
  /\ phase' = "saving"
  /\ UNCHANGED <<store, copy>>

Put(n, p) ==
  /\ n \in Stored \/ UsedBy(work) < Capacity
  /\ Change([work EXCEPT !.creds[n] = [payload |-> p, counter |-> 0]])
Delete(n) == n \in Stored /\ Change([work EXCEPT !.creds[n] = None])
UpdateCounter(n, c) == n \in Stored /\ Change([work EXCEPT !.creds[n].counter = c])
SetPassword(code) == Change([work EXCEPT !.code = code])
Restore == copy # None /\ Change(copy)
RestoreForeign == \E content \in Foreign : Change(content)
Reset == Change(Empty)

Backup ==
  /\ phase = "ready"
  /\ copy' = work
  /\ UNCHANGED <<store, work, phase>>

BeginSave == phase = "saving" /\ phase' = "gap" /\ store' = None /\ UNCHANGED <<work, copy>>
EndSave ==
  /\ phase = "gap"
  /\ phase' = "ready"
  /\ \/ store' = work /\ UNCHANGED <<work, copy>>
     \/ MayDamage /\ store' = None /\ UNCHANGED <<work, copy>>
     \/ MayDamage /\ store' = None /\ work' = Damaged(work) /\ copy' = DamagedCopy

Start ==
  /\ phase \in {"off", "ready"}
  /\ phase' = "starting"
  /\ UNCHANGED <<store, work, copy>>

Recover ==
  /\ phase = "starting"
  /\ \/ store # None /\ work' = store /\ phase' = "ready"
     \/ store = None /\ work' = Empty /\ phase' = "saving"
  /\ UNCHANGED <<store, copy>>

PowerLoss ==
  /\ phase # "off"
  /\ phase' = "off"
  /\ work' = Empty
  /\ store' \in IF phase = "saving" THEN {store, None} ELSE {store}
  /\ copy' \in IF phase = "gap" /\ MayDamage THEN {copy, DamagedCopy} ELSE {copy}

Next ==
  \/ \E n \in Names, p \in Payloads : Put(n, p)
  \/ \E n \in Names : Delete(n)
  \/ \E n \in Names, c \in 0..MaxCounter : UpdateCounter(n, c)
  \/ \E code \in AccessCodes : SetPassword(code)
  \/ Restore \/ RestoreForeign \/ Reset \/ Backup
  \/ BeginSave \/ EndSave \/ Start \/ Recover \/ PowerLoss

Spec == Init /\ [][Next]_vars

=============================================================================
