------------------------------ MODULE RowIndex ------------------------------
(***************************************************************************)
(* What every secondary index promises: the set of pairs of a key and a    *)
(* row id that were inserted and not deleted, changed by nothing else.     *)
(* The hash, bitmap and B+ tree modules implement it.                      *)
(***************************************************************************)
EXTENDS Integers

CONSTANTS Key, Rid

VARIABLE entries    \* what a search finds

Inserts(s)     == {s \cup {e} : e \in Key \X Rid}
DeletesRef(s)  == {s \ {e} : e \in Key \X Rid}
DeletesKey(s)  == {s \ ({k} \X Rid) : k \in Key}

Init == entries = {}
Next == \E before \in {entries}, after \in {entries'} :
          after \in Inserts(before) \cup DeletesRef(before) \cup DeletesKey(before)

Spec == Init /\ [][Next]_entries
=============================================================================
