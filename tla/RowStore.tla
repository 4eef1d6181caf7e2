------------------------------ MODULE RowStore ------------------------------
(***************************************************************************)
(* What a file of rows promises: each row stays where it was put, under an *)
(* address no other live row has, until it is deleted or replaced there.   *)
(***************************************************************************)
CONSTANTS Address, Value

VARIABLE rows     \* the live rows: a function from addresses to values

Init == rows = [a \in {} |-> 0]

\* A step puts, replaces or removes the row of one address.
Next ==
  /\ \E a \in Address :
       \A b \in (DOMAIN rows \cup DOMAIN rows') \ {a} :
         b \in DOMAIN rows /\ b \in DOMAIN rows' /\ rows'[b] = rows[b]
  /\ \A b \in DOMAIN rows' : rows'[b] \in Value

Spec == Init /\ [][Next]_rows
=============================================================================
