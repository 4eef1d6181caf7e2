--------------------------- MODULE MCLockManager ---------------------------
(* Small instances of LockManager: who calls for whom, and symmetry.        *)
EXTENDS LockManager, TLC

CONSTANTS a, b, c, t1, t2, t3, r1

OneEach     == a :> t1 @@ b :> t2 @@ c :> t3    \* a thread per transaction
TwoThreads  == a :> t1 @@ b :> t2
SharedTxn   == a :> t1 @@ b :> t1 @@ c :> t2    \* two requests of one web session

Once  == [r \in Resource |-> 1]
Twice == [r \in Resource |-> 2]
OneUpgraded == [r \in Resource |-> IF r = r1 THEN 2 ELSE 1]

Symmetry    == Permutations(Entry)
=============================================================================
