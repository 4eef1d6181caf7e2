----------------------------- MODULE LockTable -----------------------------
(***************************************************************************)
(* What a lock manager promises, without how: which modes each transaction *)
(* has on each resource.  A step changes what ONE transaction has on ONE   *)
(* resource: it takes a mode that the others' modes admit, or gives some   *)
(* up.  LockManager implements it: what its dictionary shows is always     *)
(* such an assignment.                                                     *)
(***************************************************************************)
CONSTANTS Txn, Resource

VARIABLE owners     \* owners[r][t]: the modes that t has on r

Modes == {"SHARED", "UREAD", "EXCLUSIVE"}

\* EXCLUSIVE admits nothing of another transaction, UREAD admits its SHARED.
Compatible(o) ==
  \A t, u \in Txn : t # u =>
    /\ "EXCLUSIVE" \in o[t] => o[u] = {}
    /\ "UREAD" \in o[t] => "UREAD" \notin o[u]

TableInit == owners = [r \in Resource |-> [t \in Txn |-> {}]]

\* EXCLUSIVE replaces a SHARED of the same transaction: an upgrade.
Take(r, t, m) ==
  LET mine == IF m = "EXCLUSIVE" THEN owners[r][t] \ {"SHARED"} ELSE owners[r][t]
      new  == [owners[r] EXCEPT ![t] = mine \cup {m}] IN
  /\ m \notin owners[r][t]
  /\ Compatible(new)
  /\ owners' = [owners EXCEPT ![r] = new]

\* A release gives up the strongest mode.
Strongest(modes) ==
  CASE "EXCLUSIVE" \in modes -> "EXCLUSIVE"
    [] "EXCLUSIVE" \notin modes /\ "UREAD" \in modes -> "UREAD"
    [] OTHER -> "SHARED"

Give(r, t) ==
  /\ owners[r][t] # {}
  /\ owners' = [owners EXCEPT ![r][t] = @ \ {Strongest(@)}]

TableNext == \E r \in Resource, t \in Txn : (\E m \in Modes : Take(r, t, m)) \/ Give(r, t)

TableSpec == TableInit /\ [][TableNext]_owners
=============================================================================
