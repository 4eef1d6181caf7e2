----------------------------- MODULE MCIndexes -----------------------------
(* The indexes and the external hash, each on its own small instance.  An  *)
(* initial state chooses one, and only that one takes steps.               *)
EXTENDS ExternalHash, TLC

CONSTANTS
  Parts,                 \* bound: the indexes that are explored
  HKey, h1, h2, h3, HRid,        \* hash index
  BKey, BRid, BPageCap, BMaxOnPage, \* bitmap index
  Twins, Wide                    \* B+ tree: twin separators, keys of two widths

VARIABLES part, index, hFound, failed, ix, bFound, overrun, clustered, tree, tFound, first, second

\* h1 and h2 agree in the two lowest bits and differ in the third.
HashOf == h1 :> 0 @@ h2 :> 4 @@ h3 :> 1

TKey    == 1..6
Width   == [k \in TKey |-> IF Wide /\ k % 2 = 0 THEN 2 ELSE 1]
Decoded == [k \in TKey |-> k]
Rows    == [c \in BOOLEAN |-> IF c THEN {<<k, 1>> : k \in TKey} ELSE {1, 2, 3} \X {1, 2}]

hashVars   == <<index, hFound, failed>>
bitmapVars == <<ix, bFound, overrun>>
treeVars   == <<clustered, tree, tFound>>
setVars    == <<first, second>>
indexVars  == <<hashVars, bitmapVars, treeVars, setVars>>

\* External hash: three keys, each with its own value.
Codes    == 1..3
OwnValue == <<1, 2, 3>>

H == INSTANCE ExtendibleHash WITH
       Key <- HKey, Rid <- HRid, found <- hFound,
       InitDepth <- 1, MaxDepth <- 3, MaxBucketSize <- 1, MaxPages <- 6
B == INSTANCE BitmapIndex WITH
       Key <- BKey, Rid <- BRid, found <- bFound,
       PageCap <- BPageCap, MaxOnPage <- BMaxOnPage, SpillCap <- 1, MaxPages <- 4
T == INSTANCE BPlusTree WITH
       Key <- TKey, Rid <- {1, 2}, found <- tFound, LeafCap <- 4, NodeCap <- 6, MaxPages <- 8
A == INSTANCE Bitmaps WITH left <- first, right <- second, HeapPage <- {0, 1}, ChunkBytes <- 2, ByteBits <- 2, MaxRows <- 3

IndexesInit ==
  /\ part \in Parts
  /\ H!Init /\ B!Init /\ T!Init /\ A!Init
  /\ part # "tree" => ~ clustered
  /\ Init /\ (part # "join" => hash = [c \in Code |-> 0] /\ left = <<>> /\ right = <<>> /\ ~ grouping)

IndexesNext ==
  \/ part = "hash"   /\ H!Next /\ UNCHANGED <<part, bitmapVars, treeVars, setVars, vars>>
  \/ part = "bitmap" /\ B!Next /\ UNCHANGED <<part, hashVars, treeVars, setVars, vars>>
  \/ part = "tree"   /\ T!Next /\ UNCHANGED <<part, hashVars, bitmapVars, setVars, vars>>
  \/ part = "sets"   /\ A!Next /\ UNCHANGED <<part, hashVars, bitmapVars, treeVars, vars>>
  \/ part = "join"   /\ Next   /\ UNCHANGED <<part, indexVars>>

IndexesSpec == IndexesInit /\ [][IndexesNext]_<<part, indexVars, vars>>

\* Keys and rows of the bitmap index are interchangeable: no operation
\* compares them.  One row is left out, since permutations cost time too.
Symmetry == Permutations(BKey) \cup Permutations(BRid \ {CHOOSE r \in BRid : TRUE})

-----------------------------------------------------------------------------
(* The properties of the modules, by name.                                 *)

\* Hash: directory entries share a bucket exactly when they agree in its depth,
\* every overflow chain ends at the page that the directory calls its last, an
\* entry lies only where searches for its key look, and no operation raises.
HashSound == H!TypeOK /\ H!DirectoryShape /\ H!ChainsEnd /\ H!OneHome /\ H!NeverRaises

\* Bitmap: each page is in use once or free once, every entry reads back from its
\* page and its spill chain, and a reopened index has the directory it had.
BitmapSound == B!TypeOK /\ B!PagesPartitioned /\ B!DirectoryCurrent /\ B!EntriesReadable

\* Bitmap: no page holds more than it has room for.
BitmapNoOverrun == B!NoOverrun

\* Bitmaps: one form for each set of rows, kept by every operation and by the
\* encoding, and the algebra is that of sets.
BitmapsExact == A!Canonical /\ A!Algebra /\ A!RoundTrip

\* B+ tree: the separators bound the keys below them, and the chain of leaves is
\* the bottom of the tree, in order.
TreeSound == T!TypeOK /\ T!Separated /\ T!ChainIsBottom

\* B+ tree: searches find what a scan lists.
TreeSearchMatchesScan == T!SearchMatchesScan

\* B+ tree: searches find what a scan lists, and range_search what is in range,
\* in order and once.
TreeAnswersExact == TreeSearchMatchesScan /\ T!RangeExact

\* B+ tree: a pair is found after it was inserted.
TreeInsertKept == T!InsertKept

\* Every index finds what was inserted and not deleted.
ImplementsRowIndex == H!ImplementsRowIndex /\ B!ImplementsRowIndex /\ T!ImplementsRowIndex
=============================================================================
