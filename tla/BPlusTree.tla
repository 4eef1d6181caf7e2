----------------------------- MODULE BPlusTree -----------------------------
(***************************************************************************)
(* The B+ trees of src/indexes: b_tree_base.py with its leaf and internal  *)
(* pages, used as the index of a primary key (b_plus_clustered.py: unique  *)
(* keys, delete with borrowing and merging) or of another column           *)
(* (b_plus_unclustered.py: equal keys, delete_ref that leaves pages as     *)
(* they are).                                                              *)
(*                                                                         *)
(* A page counts room in units: a slot takes one and a key as many as      *)
(* Width says, since string keys have different lengths.  A child or a row *)
(* is a reference in refs; a leaf has as many as keys, an internal page one*)
(* more.  allocate_page gives a new number each time; here a page that a    *)
(* merge left behind, to which nothing refers any more, gives up its own.   *)
(***************************************************************************)
EXTENDS Integers, Sequences, FiniteSets, SequencesExt, TLC

CONSTANTS
  Key, Rid,      \* keys are numbers
  Width,         \* length of an encoded key
  Decoded,       \* decode_key(encode_key(k))
  LeafCap, NodeCap,        \* CAPACITY_BYTES of a leaf and of an internal page
  Rows,          \* bound: the pairs inserted, in either kind of index
  Twins,         \* bound: whether two separators may become equal
  MaxPages       \* bound: pages in use

VARIABLES
  clustered,  \* which of the two indexes this is
  tree,       \* [root, height, node]: the header and the pages in use
  found       \* the pairs that searches find now: determined by tree

vars == <<clustered, tree, found>>

NoLeaf   == 0      \* NULL_LEAF: page 0 is the first leaf and next of none
MaxWidth == CHOOSE w \in {Width[k] : k \in Key} : \A k \in Key : Width[k] <= w
Leaf     == [keys |-> <<>>, refs |-> <<>>, next |-> NoLeaf]
Empty    == [root |-> 0, height |-> 0, node |-> [p \in {0} |-> Leaf]]

\* Keys are read from the page each time.
KeyAt(n, i)  == Decoded[n.keys[i]]
Below(n, k)  == Cardinality({i \in DOMAIN n.keys : KeyAt(n, i) < k})
UpTo(n, k)   == Cardinality({i \in DOMAIN n.keys : KeyAt(n, i) <= k})
UsedIn(n)    == FoldLeft(LAMBDA sum, k : sum + 1 + Width[k], 0, n.keys)
HasSpace(n, k, cap) == cap - UsedIn(n) >= 1 + Width[k]
Underflow(n, cap)   == UsedIn(n) < cap \div 4
CanLend(n, cap)     == Len(n.keys) > 1 /\ UsedIn(n) - (1 + MaxWidth) >= cap \div 4

Store(t, p, n) == [t EXCEPT !.node = (p :> n) @@ @]
Forget(t, p)   == [t EXCEPT !.node = [q \in DOMAIN @ \ {p} |-> @[q]]]
NewPage(t)     == CHOOSE p \in 0..MaxPages + 3 : p \notin DOMAIN t.node /\ 0..(p - 1) \subseteq DOMAIN t.node

-----------------------------------------------------------------------------
(* The way down.  A step is <<page, index of the child taken>>.            *)

\* find_child: equal keys are to the right of their separator.
PathRight(t, k) ==
  LET step(path, l) ==
        LET p == IF path = <<>> THEN t.root ELSE t.node[path[Len(path)][1]].refs[path[Len(path)][2]]
        IN  Append(path, <<p, UpTo(t.node[p], k) + 1>>)
  IN  FoldLeft(step, <<>>, [l \in 1..t.height |-> l])

\* Mutant of PathLeft: search goes down like insert.
PathLeftAsRight(t, k) == PathRight(t, k)

\* find_leftmost_child: equal keys may start to the left.
PathLeft(t, k) ==
  LET step(path, l) ==
        LET p == IF path = <<>> THEN t.root ELSE t.node[path[Len(path)][1]].refs[path[Len(path)][2]]
        IN  Append(path, <<p, Below(t.node[p], k) + 1>>)
  IN  FoldLeft(step, <<>>, [l \in 1..t.height |-> l])

LeafAt(t, path) ==
  IF path = <<>> THEN t.root ELSE t.node[path[Len(path)][1]].refs[path[Len(path)][2]]

\* The leaves from p on.
Leaves(t, p) ==
  LET step(ids, i) == IF t.node[ids[Len(ids)]].next = NoLeaf THEN ids
                      ELSE Append(ids, t.node[ids[Len(ids)]].next)
  IN  FoldLeft(step, <<p>>, [i \in 1..Cardinality(DOMAIN t.node) |-> i])

EntriesOf(n) == [i \in DOMAIN n.keys |-> <<KeyAt(n, i), n.refs[i]>>]
Listed(t, p) == FlattenSeq([i \in DOMAIN Leaves(t, p) |-> EntriesOf(t.node[Leaves(t, p)[i]])])

\* A walk along the leaves ends at the first greater key.
UpToKey(s, k) ==
  LET over == {i \in DOMAIN s : s[i][1] > k} IN
  IF over = {} THEN s ELSE SubSeq(s, 1, (CHOOSE i \in over : \A j \in over : i <= j) - 1)

\* search: of BPlusTreeBase for a primary key, of the subclasses for others.
Find(n, k) ==
  LET i == Below(n, k) + 1 IN
  IF i <= Len(n.keys) /\ KeyAt(n, i) = k THEN {n.refs[i]} ELSE {}

SearchUnique(t, k) == Find(t.node[LeafAt(t, PathRight(t, k))], k)

SearchAll(t, k) ==
  {e[2] : e \in {x \in ToSet(UpToKey(Listed(t, LeafAt(t, PathLeft(t, k))), k)) : x[1] = k}}

\* range_search and iter_ordered.
RangeSearch(t, lo, hi) ==
  SelectSeq(UpToKey(Listed(t, LeafAt(t, PathLeft(t, lo))), hi), LAMBDA e : e[1] >= lo)

RECURSIVE IterOrdered(_, _, _)
IterOrdered(t, p, depth) ==
  IF depth = 0 THEN EntriesOf(t.node[p])
  ELSE FlattenSeq([i \in DOMAIN t.node[p].refs |-> IterOrdered(t, t.node[p].refs[i], depth - 1)])

-----------------------------------------------------------------------------
(* insert.                                                                 *)

LeafWith(n, k, r) ==
  [n EXCEPT !.keys = InsertAt(@, Below(n, k) + 1, k), !.refs = InsertAt(@, Below(n, k) + 1, r)]

\* leaf.insert after a split: the answer FALSE is not looked at.
LeafTry(n, k, r) == IF HasSpace(n, k, LeafCap) THEN LeafWith(n, k, r) ELSE n

\* Mutant of LeafHalves: the right half is the end of the chain.
LeafHalvesUnlinked(n, new) ==
  LET mid == Len(n.keys) \div 2 IN
  <<[keys |-> SubSeq(n.keys, 1, mid), refs |-> SubSeq(n.refs, 1, mid), next |-> new],
    [keys |-> SubSeq(n.keys, mid + 1, Len(n.keys)), refs |-> SubSeq(n.refs, mid + 1, Len(n.refs)),
     next |-> NoLeaf]>>

LeafHalves(n, new) ==
  LET mid == Len(n.keys) \div 2 IN
  <<[keys |-> SubSeq(n.keys, 1, mid), refs |-> SubSeq(n.refs, 1, mid), next |-> new],
    [keys |-> SubSeq(n.keys, mid + 1, Len(n.keys)), refs |-> SubSeq(n.refs, mid + 1, Len(n.refs)),
     next |-> n.next]>>

\* insert_key, and the key and child that a split of the level below sends up.
NodeWith(n, k, child) ==
  [n EXCEPT !.keys = InsertAt(@, UpTo(n, k) + 1, k), !.refs = InsertAt(@, UpTo(n, k) + 2, child)]

NodeTry(n, k, child) == IF HasSpace(n, k, NodeCap) THEN NodeWith(n, k, child) ELSE n

NodeHalves(n) ==
  LET mid == Len(n.keys) \div 2 IN
  <<[n EXCEPT !.keys = SubSeq(@, 1, mid), !.refs = SubSeq(@, 1, mid + 1)],
    [n EXCEPT !.keys = SubSeq(@, mid + 2, Len(@)), !.refs = SubSeq(@, mid + 2, Len(@))]>>

NewRoot(t, k, right) ==
  [Store(t, NewPage(t), [keys |-> <<k>>, refs |-> <<t.root, right>>, next |-> NoLeaf])
     EXCEPT !.root = NewPage(t), !.height = @ + 1]

\* _propagate_split, from the last page of the path to the root.
Propagate(t, path, k, right) ==
  LET step(a, s) ==
        LET p == s[1]
            n == a.t.node[p]
            halves == NodeHalves(n)
            up     == n.keys[(Len(n.keys) \div 2) + 1]
            left   == IF a.k < up THEN NodeTry(halves[1], a.k, a.right) ELSE halves[1]
            other  == IF a.k < up THEN halves[2] ELSE NodeTry(halves[2], a.k, a.right)
        IN  IF a.done THEN a
            ELSE IF HasSpace(n, a.k, NodeCap)
            THEN [a EXCEPT !.t = Store(@, p, NodeWith(n, a.k, a.right)), !.done = TRUE]
            ELSE [t |-> Store(Store(a.t, p, left), NewPage(a.t), other),
                  k |-> up, right |-> NewPage(a.t), done |-> FALSE]
      end == FoldLeft(step, [t |-> t, k |-> k, right |-> right, done |-> FALSE], Reverse(path))
  IN  IF end.done THEN end.t ELSE NewRoot(end.t, end.k, end.right)

Inserted(t, k, r) ==
  LET path   == PathRight(t, k)
      p      == LeafAt(t, path)
      n      == t.node[p]
      new    == NewPage(t)
      halves == LeafHalves(n, new)
      split  == KeyAt(halves[2], 1)
      left   == IF k < split THEN LeafTry(halves[1], k, r) ELSE halves[1]
      right  == IF k < split THEN halves[2] ELSE LeafTry(halves[2], k, r)
  IN  IF HasSpace(n, k, LeafCap) THEN Store(t, p, LeafWith(n, k, r))
      ELSE Propagate(Store(Store(t, p, left), new, right), path, split, new)

-----------------------------------------------------------------------------
(* delete with borrowing and merging.                                      *)

DropAt(n, i, j) == [n EXCEPT !.keys = RemoveAt(@, i), !.refs = RemoveAt(@, j)]

\* One level of _rebalance_leaf (depth 0) or _rebalance_internal: page c is
\* child i of page p.  The answer names the parent when it lost a key.
OneLevel(t, p, i, leaf) ==
  LET parent == t.node[p]
      cap    == IF leaf THEN LeafCap ELSE NodeCap
      c      == parent.refs[i]
      n      == t.node[c]
      hasL   == i > 1
      hasR   == i < Len(parent.refs)
      l      == t.node[parent.refs[i - 1]]
      r      == t.node[parent.refs[i + 1]]
      sepL   == parent.keys[i - 1]
      sepR   == parent.keys[i]
      last   == Len(l.keys)
      all(x, sep, y) == [x EXCEPT !.keys = (IF leaf THEN @ ELSE Append(@, sep)) \o y.keys,
                                  !.refs = @ \o y.refs, !.next = y.next]
  IN  IF hasL /\ CanLend(l, cap) THEN
        [t |-> Store(Store(Store(t, p, [parent EXCEPT !.keys[i - 1] = l.keys[last]]),
                           parent.refs[i - 1], DropAt(l, last, Len(l.refs))),
                     c, [n EXCEPT !.keys = <<IF leaf THEN l.keys[last] ELSE sepL>> \o @,
                                  !.refs = <<l.refs[Len(l.refs)]>> \o @]), shrunk |-> FALSE]
      ELSE IF hasR /\ CanLend(r, cap) THEN
        [t |-> Store(Store(Store(t, p, [parent EXCEPT !.keys[i] = IF leaf THEN r.keys[2] ELSE r.keys[1]]),
                           parent.refs[i + 1], DropAt(r, 1, 1)),
                     c, [n EXCEPT !.keys = Append(@, IF leaf THEN r.keys[1] ELSE sepR),
                                  !.refs = Append(@, r.refs[1])]), shrunk |-> FALSE]
      ELSE IF hasL THEN
        [t |-> Store(Store(Forget(t, c), parent.refs[i - 1], all(l, sepL, n)),
                     p, DropAt(parent, i - 1, i)), shrunk |-> TRUE]
      ELSE
        [t |-> Store(Store(Forget(t, parent.refs[i + 1]), c, all(n, sepR, r)),
                     p, DropAt(parent, i, i + 1)), shrunk |-> TRUE]

\* An internal root without keys gives way to its only child.
RootAfter(t) ==
  IF t.node[t.root].keys = <<>> /\ t.height > 0
  THEN [Forget(t, t.root) EXCEPT !.root = t.node[t.root].refs[1], !.height = @ - 1] ELSE t

\* Up the path while a page is short.
Rebalanced(t, path) ==
  LET step(a, s) ==
        LET leaf == a.level = 0
            c    == a.t.node[s[1]].refs[s[2]]
            lv   == OneLevel(a.t, s[1], s[2], leaf)
        IN  IF a.done \/ ~ Underflow(a.t.node[c], IF leaf THEN LeafCap ELSE NodeCap)
            THEN [a EXCEPT !.done = TRUE]
            ELSE [t |-> lv.t, level |-> a.level + 1, done |-> ~ lv.shrunk]
      end == FoldLeft(step, [t |-> t, level |-> 0, done |-> FALSE], Reverse(path))
  IN  IF end.done THEN end.t ELSE RootAfter(end.t)

Deleted(t, k) ==
  LET path == PathRight(t, k)
      p    == LeafAt(t, path)
      i    == Below(t.node[p], k) + 1
  IN  Rebalanced(Store(t, p, DropAt(t.node[p], i, i)), path)

\* delete_ref: the first entry that is equal, along the leaves.
DeletedRef(t, k, r) ==
  LET walk == Leaves(t, LeafAt(t, PathLeft(t, k)))
      at   == {w \in DOMAIN walk : \E i \in DOMAIN t.node[walk[w]].keys :
                 KeyAt(t.node[walk[w]], i) = k /\ t.node[walk[w]].refs[i] = r}
      w == CHOOSE x \in at : \A y \in at : x <= y
      n == t.node[walk[w]]
      hits == {i \in DOMAIN n.keys : KeyAt(n, i) = k /\ n.refs[i] = r}
      i == CHOOSE x \in hits : \A y \in hits : x <= y
  IN  IF at = {} THEN t ELSE Store(t, walk[w], DropAt(n, i, i))

-----------------------------------------------------------------------------

Search(t, k) == IF clustered THEN SearchUnique(t, k) ELSE SearchAll(t, k)
Found(t)     == UNION {{k} \X Search(t, k) : k \in Key}

Becomes(t) ==
  /\ UNCHANGED clustered
  /\ \E u \in {t} : tree' = u /\ found' = Found(u)

\* Inner pages have a reference more than keys.
Separators(t) ==
  UNION {{p} \X DOMAIN t.node[p].keys :
           p \in {q \in DOMAIN t.node : Len(t.node[q].refs) > Len(t.node[q].keys)}}

HasTwins(t) ==
  \E x, y \in Separators(t) : x # y /\ t.node[x[1]].keys[x[2]] = t.node[y[1]].keys[y[2]]

\* The table has checked that a primary key is new; a row is entered once.
Insert(k, r) ==
  /\ <<k, r>> \in Rows[clustered] /\ Cardinality(DOMAIN tree.node) < MaxPages
  /\ IF clustered THEN SearchUnique(tree, k) = {} ELSE <<k, r>> \notin found
  /\ Twins \/ clustered \/ ~ HasTwins(Inserted(tree, k, r))
  /\ Becomes(Inserted(tree, k, r))

Delete(k) ==
  /\ clustered /\ SearchUnique(tree, k) # {}
  /\ Becomes(Deleted(tree, k))

DeleteRef(k, r) ==
  /\ ~ clustered
  /\ Becomes(DeletedRef(tree, k, r))

\* _reindex after a reorganisation of the file: from its live rows, in key order.
Reindex ==
  /\ clustered
  /\ Becomes(FoldLeft(LAMBDA t, e : Inserted(t, e[1], e[2]), Empty,
                      IterOrdered(tree, tree.root, tree.height)))

Init == clustered \in BOOLEAN /\ tree = Empty /\ found = {}

Next ==
  \/ \E k \in Key : \/ Delete(k)
                    \/ \E r \in Rid : Insert(k, r) \/ DeleteRef(k, r)
  \/ Reindex

Spec == Init /\ [][Next]_vars

-----------------------------------------------------------------------------
(* Properties.                                                             *)

\* The pages at depth d, from left to right.
RECURSIVE PagesAt(_, _)
PagesAt(t, d) ==
  IF d = 0 THEN <<t.root>>
  ELSE LET up == PagesAt(t, d - 1) IN FlattenSeq([i \in DOMAIN up |-> t.node[up[i]].refs])

InnerPages == UNION {Range(PagesAt(tree, d)) : d \in 0..(tree.height - 1)}
LeafPages  == PagesAt(tree, tree.height)
Scan       == IterOrdered(tree, tree.root, tree.height)

\* The tree is a tree of pages of the file, and pages have the references
\* that their kind has.
TypeOK ==
  /\ clustered \in BOOLEAN /\ tree.height \in Nat
  /\ Range(LeafPages) \cup InnerPages = DOMAIN tree.node
  /\ Range(LeafPages) \cap InnerPages = {}
  /\ \A p \in Range(LeafPages) : /\ Len(tree.node[p].refs) = Len(tree.node[p].keys)
                                 /\ Range(tree.node[p].refs) \subseteq Rid
  /\ \A p \in InnerPages : /\ Len(tree.node[p].refs) = Len(tree.node[p].keys) + 1
                           /\ tree.node[p].keys # <<>>

\* Every key below a page lies between the separators of its parent; those of
\* a primary key are smaller than the separator on their right.
Separated ==
  \A d \in 1..tree.height : \A p \in Range(PagesAt(tree, d - 1)) :
    LET n == tree.node[p] IN
    \A i \in DOMAIN n.refs :
      \A e \in Range(IterOrdered(tree, n.refs[i], tree.height - d)) :
        /\ i > 1 => n.keys[i - 1] <= e[1]
        /\ i <= Len(n.keys) => e[1] < n.keys[i] \/ (~ clustered /\ e[1] = n.keys[i])

\* The chain of the leaves, which range_search and searches for equal keys
\* follow, is the bottom of the tree in order; no split or merge lets them part.
ChainIsBottom == Leaves(tree, LeafPages[1]) = LeafPages

\* A search finds a pair exactly when a scan in order lists it.
SearchMatchesScan == found = Range(Scan)

\* range_search lists the pairs in range, in key order and each once.
RangeExact ==
  \A lo, hi \in Key :
    lo <= hi =>
      LET s == RangeSearch(tree, lo, hi) IN
      /\ Range(s) = {e \in found : lo <= e[1] /\ e[1] <= hi}
      /\ Len(s) = Cardinality(Range(s))
      /\ \A i \in 1..(Len(s) - 1) : s[i][1] <= s[i + 1][1]

Map == INSTANCE RowIndex WITH entries <- found

\* What a search finds is what was inserted and not deleted.
ImplementsRowIndex == Map!Spec

\* An insert is never lost: the pair is found after it.
InsertKept == [][\A k \in Key, r \in Rid : Insert(k, r) => <<k, r>> \in found']_vars
=============================================================================
