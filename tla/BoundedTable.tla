---------------------------- MODULE BoundedTable ----------------------------
(***************************************************************************)
(* What a table of entries promises that a C array with a count keeps: it  *)
(* never holds more than it has room for, entries stay in the order they   *)
(* were stored in, and an entry goes only when it is removed or when the   *)
(* whole table is cleared.  Entries are records with an id; named is the   *)
(* id that the last change or removal was asked for.                       *)
(***************************************************************************)
EXTENDS Naturals, Sequences

CONSTANTS Entries, Capacity

VARIABLES table, named

Has(id) == \E i \in DOMAIN table : table[i].id = id
First(id) == CHOOSE i \in DOMAIN table :
                /\ table[i].id = id
                /\ \A j \in 1..(i - 1) : table[j].id # id

Init == table = <<>> /\ named \notin {entry.id : entry \in Entries}

Store(entry) == /\ Len(table) < Capacity
                /\ table' = Append(table, entry)
                /\ UNCHANGED named

\* The entry with the id changes, and keeps its id and its place.
Update(entry) == /\ Has(entry.id)
                 /\ table' = [table EXCEPT ![First(entry.id)] = entry]
                 /\ named' = entry.id

\* The entry with the id goes, and those behind it move up.
Delete(id) == /\ Has(id)
              /\ table' = [i \in 1..(Len(table) - 1) |->
                              table[IF i < First(id) THEN i ELSE i + 1]]
              /\ named' = id

Clear == table' = <<>> /\ UNCHANGED named

Next == \/ \E entry \in Entries : Store(entry) \/ Update(entry) \/ Delete(entry.id)
        \/ Clear

Spec == Init /\ [][Next]_<<table, named>>
=============================================================================
