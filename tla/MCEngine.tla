------------------------------ MODULE MCEngine ------------------------------
(* Small instances of what a statement goes through besides tables and      *)
(* indexes: recovery of rows, the catalog, plans, sort and R-tree.          *)
(* An initial state chooses one of them, and only that one takes steps.     *)
EXTENDS Catalog, ExternalSort, FiniteSetsExt

CONSTANTS
  Parts,                            \* bound: the parts that are explored
  Key, Val, MaxTxn, MaxRowLog, MaxSlots, MaxAuto,
  Overlap, Mixed, DeleteLost, Behind, Reused, Truncating  \* recovery

VARIABLES
  part,
  disk, frame, held, dirty, rowLog, status, rowCurrent, autos, rowRaised, good, soft, behind,
  rows, numeric, indexes, query, answer,
  points, tree, next, deletes, found

recoveryVars == <<disk, frame, held, dirty, rowLog, status, rowCurrent, autos, rowRaised, good, soft, behind>>
plannerVars  == <<rows, numeric, indexes, query, answer>>
treeVars     == <<points, tree, next, deletes, found>>

-----------------------------------------------------------------------------
W == INSTANCE RowRecovery WITH
       MaxLog <- MaxRowLog, log <- rowLog, current <- rowCurrent, raised <- rowRaised

-----------------------------------------------------------------------------
(* Planner: five rows, g is numeric or not; every set of indexes *)
(* that a table of its organization may have; conditions of up to three     *)
(* predicates.                                                             *)

TableRows == << [id |-> 3, g |-> 1, p |-> 4], [id |-> 1, g |-> 2, p |-> 0], [id |-> 4, g |-> 1, p |-> 2],
                [id |-> 2, g |-> 2, p |-> 2], [id |-> 5, g |-> 3, p |-> 5] >>
On(col, kinds) == {col} \X kinds
IndexSets == {On("id", i) \cup On("g", g) \cup On("p", p) :
                i \in {{}, {"btree"}, {"hash"}, {"bitmap"}, {"hash", "btree"}},
                g \in {{}, {"btree"}, {"hash"}, {"bitmap"}}, p \in {{}, {"rtree"}}}
             \cup {On("id", {"clustered"}) \cup On("g", g) : g \in {{}, {"btree"}}}

Leaf == {[is |-> "cmp", col |-> "id", op |-> o, val |-> 3] : o \in {"=", "!=", "<", ">="}}
        \cup {[is |-> "cmp", col |-> "g", op |-> o, val |-> 2] : o \in {"=", "<=", ">"}}
        \cup {[is |-> "between", col |-> "g", lo |-> 2, hi |-> 3], [is |-> "between", col |-> "id", lo |-> 2, hi |-> 4],
              [is |-> "within", inside |-> {0, 2}],
              [is |-> "dist", center |-> 1, op |-> "<", val |-> 3], [is |-> "dist", center |-> 1, op |-> ">", val |-> 1]}
Some == {l \in Leaf : l.is = "within" \/ (l.is = "cmp" /\ l.op \in {"=", ">="})}
Node(is, first, second) == {[is |-> is, of |-> <<c, d>>] : c \in first, d \in second}
Always    == [is |-> "always"]
Condition == {Always} \cup Leaf \cup Node("and", Leaf, Leaf) \cup Node("or", Leaf, Some)
             \cup Node("and", Some, Node("or", Some, Some)) \cup Node("or", Some, Node("and", Some, Some))
             \cup Node("and", Some, Node("and", Some, Some))
Order     == {[is |-> "col", col |-> "g"], [is |-> "col", col |-> "id"], [is |-> "dist", center |-> 3]}
Queries   == {[where |-> c, order |-> [is |-> "none"], reverse |-> FALSE, limit |-> -1] : c \in Condition}
             \cup {[where |-> c, order |-> o, reverse |-> b, limit |-> k] :
                     c \in {Always} \cup Leaf \cup Node("or", Some, Some), o \in Order, b \in BOOLEAN, k \in {-1, 1, 2}}

P == INSTANCE Planner WITH
       Layouts <- {[rows |-> TableRows, numeric |-> n] : n \in BOOLEAN}, MaxKeys <- 3

-----------------------------------------------------------------------------
\* Sort: two of the four keys have equal values.
Codes       == 1..4
EqualInside == <<1, 2, 2, 3>>

\* Ten rows all over the grid, and ten of which most lie on top of each other.
Spread   == << <<0,0>>, <<3,3>>, <<0,1>>, <<3,2>>, <<1,0>>, <<2,3>>, <<1,1>>, <<0,3>>, <<3,0>>, <<2,2>> >>
Heaped   == << <<1,1>>, <<1,1>>, <<1,1>>, <<1,1>>, <<2,1>>, <<2,1>>, <<0,0>>, <<3,1>>, <<1,2>>, <<1,3>> >>
Polygons == { << <<0,0>>, <<3,0>>, <<3,3>> >>, << <<0,0>>, <<2,0>>, <<2,2>>, <<0,2>> >>,
              << <<0,0>>, <<3,0>>, <<1,1>>, <<0,3>> >> }
R == INSTANCE RTree WITH
       Grid <- 0..3, Layouts <- {Spread, Heaped}, MaxEntries <- 3, MinEntries <- 2, MaxDeletes <- 2

-----------------------------------------------------------------------------
\* The parts that take no steps have one state.
PlannerIdle == rows = <<>> /\ numeric = FALSE /\ indexes = {} /\ query = P!NoQuery /\ answer = <<>>
TreeIdle    == points = Spread /\ tree = <<>> /\ next = 1 /\ deletes = 0 /\ found = {}

EngineInit ==
  /\ part \in Parts
  /\ W!Init /\ Init
  /\ SortInit /\ (part # "sort" => input = <<>> /\ ~ reverse)
  /\ IF part = "planner" THEN P!Init ELSE PlannerIdle
  /\ IF part = "rtree" THEN R!Init ELSE TreeIdle

EngineNext ==
  \/ part = "recovery" /\ W!Next   /\ UNCHANGED <<part, vars, plannerVars, treeVars, sortVars>>
  \/ part = "catalog"  /\ Next     /\ UNCHANGED <<part, recoveryVars, plannerVars, treeVars, sortVars>>
  \/ part = "planner"  /\ P!Next   /\ UNCHANGED <<part, recoveryVars, vars, treeVars, sortVars>>
  \/ part = "sort"     /\ SortNext /\ UNCHANGED <<part, recoveryVars, vars, plannerVars, treeVars>>
  \/ part = "rtree"    /\ R!Next   /\ UNCHANGED <<part, recoveryVars, vars, plannerVars, sortVars>>

EngineSpec == EngineInit /\ [][EngineNext]_<<part, recoveryVars, vars, plannerVars, treeVars, sortVars>>

\* Tables, keys, values and rows are interchangeable: no operation compares them.
Symmetry == Permutations(Table) \cup Permutations(Key) \cup Permutations(Val) \cup Permutations(Tuple)

-----------------------------------------------------------------------------
(* The properties of the modules, by name.                                 *)

\* Recovery: the rows are those that the statements which took effect left, after
\* any rollbacks, crashes and starts, and none of these raises.
RowsRecovered == W!TypeOK /\ W!RowsAsPromised /\ W!RecoveryNeverRaises

\* Recovery: no undo and no start raises.
RecoveryNeverRaises == W!RecoveryNeverRaises

\* Planner: every plan answers what a scan would.
AnswerExact == part = "planner" => P!AnswerExact

\* R-tree: the tree is balanced and its rectangles tight, and its searches miss
\* nothing and list nothing else.
TreeExact == part = "rtree" => R!TypeOK /\ R!Tight /\ R!SearchesExact /\ R!Nearest

\* R-tree: searches by point find what was inserted and not deleted.
TreeImplementsRowIndex == R!Map!Init /\ [][part = "rtree" => R!Map!Next]_found
=============================================================================
