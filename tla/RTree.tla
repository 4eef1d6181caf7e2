------------------------------- MODULE RTree -------------------------------
(***************************************************************************)
(* The R-tree of src/indexes/r_tree_base.py and r_tree_node.py with the    *)
(* geometry of src/spatial/geometry.py, as index_manager.py uses it for a  *)
(* column of points: ChooseLeaf and the quadratic split, deletion of one   *)
(* row's entry with CondenseTree, and the searches by point, rectangle,    *)
(* radius, nearest neighbours and polygon.                                 *)
(*                                                                         *)
(* Coordinates are integers and distances are compared as squares.  A page *)
(* that nothing refers to any more gives up its number, which the code     *)
(* never uses again.                                                       *)
(***************************************************************************)
EXTENDS Integers, Sequences, FiniteSets, FiniteSetsExt, SequencesExt, TLC

CONSTANTS
  Grid,          \* coordinates
  Layouts,       \* bound: the points of the rows, each a sequence
  MaxEntries,    \* LEAF_M and INTERNAL_M
  MinEntries,    \* LEAF_m and INTERNAL_m
  MaxDeletes,    \* bound: entries deleted
  Polygons       \* bound: sequences of corners that are asked for

VARIABLES
  points,     \* the point of each row, in the order in which rows come
  tree,       \* [root, height, node]
  next,       \* the row that comes next
  deletes,    \* deletions so far
  found       \* the pairs that searches by point find: determined by tree

vars == <<points, tree, next, deletes, found>>

Point   == Grid \X Grid
Row     == DOMAIN points
NoPage  == 0

-----------------------------------------------------------------------------
(* Geometry: a rectangle is <<min_x, min_y, max_x, max_y>>.                *)

Lesser(a, b)  == IF a <= b THEN a ELSE b
Greater(a, b) == IF a <= b THEN b ELSE a
Box(p)        == <<p[1], p[2], p[1], p[2]>>
Area(r)       == (r[3] - r[1]) * (r[4] - r[2])
Join(r, s)    == <<Lesser(r[1], s[1]), Lesser(r[2], s[2]), Greater(r[3], s[3]), Greater(r[4], s[4])>>
Enlargement(r, s) == Area(Join(r, s)) - Area(r)
Intersects(r, s)  == ~ (r[3] < s[1] \/ s[3] < r[1] \/ r[4] < s[2] \/ s[4] < r[2])
ContainsPoint(r, p)    == r[1] <= p[1] /\ p[1] <= r[3] /\ r[2] <= p[2] /\ p[2] <= r[4]
Distance(p, q)    == (p[1] - q[1]) * (p[1] - q[1]) + (p[2] - q[2]) * (p[2] - q[2])

MinDist(p, r) ==
  Distance(p, <<Lesser(Greater(p[1], r[1]), r[3]), Lesser(Greater(p[2], r[2]), r[4])>>)

\* point_in_polygon, one edge after the other; x < num / den without the division.
Crosses(p, a, b) ==
  LET num == (b[1] - a[1]) * (p[2] - a[2]) + a[1] * (b[2] - a[2])
      den == b[2] - a[2]
  IN  /\ (a[2] > p[2]) # (b[2] > p[2])
      /\ IF den > 0 THEN p[1] * den < num ELSE p[1] * den > num

Inside(p, polygon) ==
  LET before(i) == polygon[IF i = 1 THEN Len(polygon) ELSE i - 1] IN
  Cardinality({i \in DOMAIN polygon : Crosses(p, polygon[i], before(i))}) % 2 = 1

-----------------------------------------------------------------------------
(* Nodes: [leaf, entries]; an entry is a rectangle and a row or a page.    *)

Entry(r, ref) == [mbr |-> r, ref |-> ref]
MbrOf(es)     == FoldLeft(LAMBDA r, e : Join(r, e.mbr), es[1].mbr, es)
Store(t, p, n) == [t EXCEPT !.node = (p :> n) @@ @]
Forget(t, ps)  == [t EXCEPT !.node = [q \in DOMAIN @ \ ps |-> @[q]]]
NewPage(t)     == Min((1..Cardinality(DOMAIN t.node) + 1) \ DOMAIN t.node)
At(es, ref)    == CHOOSE i \in DOMAIN es : es[i].ref = ref

\* The first index at which f is least, in lexicographic order of pairs.
Before(a, b)  == a[1] < b[1] \/ (a[1] = b[1] /\ a[2] < b[2])
FirstLeast(f) == CHOOSE i \in DOMAIN f : \A j \in DOMAIN f : ~ Before(f[j], f[i]) /\ (f[j] = f[i] => i <= j)

Empty == [root |-> 1, height |-> 0, node |-> (1 :> [leaf |-> TRUE, entries |-> <<>>])]

\* _pick_seeds: the first pair that wastes most.
Seeds(es) ==
  LET pairs == {x \in (DOMAIN es) \X (DOMAIN es) : x[1] < x[2]}
      waste(x) == Area(Join(es[x[1]].mbr, es[x[2]].mbr)) - Area(es[x[1]].mbr) - Area(es[x[2]].mbr)
      most == Max({waste(x) : x \in pairs} \cup {-1})
  IN  IF most = -1 THEN <<1, 2>>
      ELSE CHOOSE x \in pairs : waste(x) = most /\ \A y \in pairs : waste(y) = most => ~ Before(y, x)

\* _pick_next: the first entry with the greatest preference, and its group.
PickNext(es, m1, m2) ==
  LET d1(i) == Enlargement(m1, es[i].mbr)
      d2(i) == Enlargement(m2, es[i].mbr)
      i == FirstLeast([x \in DOMAIN es |-> <<0 - Greater(d1(x) - d2(x), d2(x) - d1(x)), x>>])
  IN  [at |-> i, one |-> d1(i) < d2(i) \/ (d1(i) = d2(i) /\ Area(m1) <= Area(m2))]

\* One round of quadratic_split.
Dealt(a) ==
  LET pick == PickNext(a.rest, a.m1, a.m2)
      e    == a.rest[pick.at]
      rest == RemoveAt(a.rest, pick.at)
  IN  IF a.rest = <<>> THEN a
      ELSE IF Len(a.g1) + Len(a.rest) <= MinEntries THEN [a EXCEPT !.g1 = @ \o a.rest, !.rest = <<>>]
      ELSE IF Len(a.g2) + Len(a.rest) <= MinEntries THEN [a EXCEPT !.g2 = @ \o a.rest, !.rest = <<>>]
      ELSE IF pick.one THEN [a EXCEPT !.g1 = Append(@, e), !.m1 = Join(@, e.mbr), !.rest = rest]
      ELSE [a EXCEPT !.g2 = Append(@, e), !.m2 = Join(@, e.mbr), !.rest = rest]

Halves(es) ==
  LET s == Seeds(es) IN
  FoldLeft(LAMBDA a, i : Dealt(a),
           [g1 |-> <<es[s[1]]>>, g2 |-> <<es[s[2]]>>, m1 |-> es[s[1]].mbr, m2 |-> es[s[2]].mbr,
            rest |-> RemoveAt(RemoveAt(es, s[2]), s[1])], es)

-----------------------------------------------------------------------------
(* insert.                                                                 *)

\* _choose_leaf: the pages from the root to a leaf.
ChooseLeaf(t, r) ==
  LET step(path, l) ==
        LET es == t.node[path[Len(path)]].entries
            best == FirstLeast([i \in DOMAIN es |-> <<Enlargement(es[i].mbr, r), Area(es[i].mbr)>>])
        IN  Append(path, es[best].ref)
  IN  FoldLeft(step, <<t.root>>, [l \in 1..t.height |-> l])

\* An entry is added to a page; split names the page that a full one sends off.
Added(t, p, e) ==
  LET n  == t.node[p]
      es == Append(n.entries, e)
      h  == Halves(es)
      new == NewPage(t)
  IN  IF Len(es) <= MaxEntries
      THEN [t |-> Store(t, p, [n EXCEPT !.entries = es]), split |-> NoPage]
      ELSE [t |-> Store(Store(t, p, [n EXCEPT !.entries = h.g1]), new, [n EXCEPT !.entries = h.g2]),
            split |-> new]

\* Mutant of Adjusted: the rectangle of a page that was not split stays.
AdjustedIfSplit(t, parent, child, split) ==
  LET es == t.node[parent].entries
      u  == [t EXCEPT !.node[parent].entries[At(es, child)] = Entry(MbrOf(t.node[child].entries), child)]
  IN  IF split = NoPage THEN [t |-> t, split |-> NoPage]
      ELSE Added(u, parent, Entry(MbrOf(t.node[split].entries), split))

\* The parent of a page that has changed, and perhaps sent off another.
Adjusted(t, parent, child, split) ==
  LET es == t.node[parent].entries
      u  == [t EXCEPT !.node[parent].entries[At(es, child)] = Entry(MbrOf(t.node[child].entries), child)]
  IN  IF split = NoPage THEN [t |-> u, split |-> NoPage]
      ELSE Added(u, parent, Entry(MbrOf(t.node[split].entries), split))

NewRoot(t, split) ==
  LET e(p) == Entry(MbrOf(t.node[p].entries), p) IN
  [Store(t, NewPage(t), [leaf |-> FALSE, entries |-> <<e(t.root), e(split)>>])
     EXCEPT !.root = NewPage(t), !.height = @ + 1]

Inserted(t, e) ==
  LET path == ChooseLeaf(t, e.mbr)
      step(a, l) == Adjusted(a.t, path[Len(path) - l], path[Len(path) - l + 1], a.split)
      end == FoldLeft(step, Added(t, path[Len(path)], e), [l \in 1..t.height |-> l])
  IN  IF end.split = NoPage THEN end.t ELSE NewRoot(end.t, end.split)

-----------------------------------------------------------------------------
(* delete_ref with _condense_tree.                                         *)

\* The tests that searches put to a rectangle on their way down.
Passes(test, r) ==
  CASE test.is = "any"    -> TRUE
    [] test.is = "point"  -> ContainsPoint(r, test.at)
    [] test.is = "range"  -> Intersects(test.box, r)
    [] test.is = "radius" -> MinDist(test.at, r) <= test.far

\* Every page at the level below some pages whose rectangles pass a test; the
\* searches go down like this.
Down(t, pages, test) ==
  {e.ref : e \in {x \in UNION {ToSet(t.node[p].entries) : p \in pages} : Passes(test, x.mbr)}}

LeavesFor(t, test) ==
  FoldLeft(LAMBDA pages, l : Down(t, pages, test), {t.root}, [l \in 1..t.height |-> l])

EntriesFor(t, test) ==
  UNION {ToSet(t.node[p].entries) : p \in LeavesFor(t, test)}

AnyBox == [is |-> "any"]

\* The first path, in the order of the entries, to a leaf with the pair; none is <<>>.
RECURSIVE PathTo(_, _, _, _)
PathTo(t, p, depth, e) ==
  IF depth = 0 THEN IF e \in ToSet(t.node[p].entries) THEN <<p>> ELSE <<>>
  ELSE LET es   == SelectSeq(t.node[p].entries, LAMBDA x : ContainsPoint(x.mbr, <<e.mbr[1], e.mbr[2]>>))
           tails == [i \in DOMAIN es |-> PathTo(t, es[i].ref, depth - 1, e)]
           hits == {i \in DOMAIN tails : tails[i] # <<>>}
       IN  IF hits = {} THEN <<>> ELSE <<p>> \o tails[Min(hits)]

RECURSIVE Flatten(_, _)
Flatten(t, p) ==
  IF t.node[p].leaf THEN t.node[p].entries
  ELSE FlattenSeq([i \in DOMAIN t.node[p].entries |-> Flatten(t, t.node[p].entries[i].ref)])

Below(t, p) == IF t.node[p].leaf THEN {p} ELSE {p} \cup {e.ref : e \in ToSet(t.node[p].entries)}

\* Mutant of Condensed: the orphans of a page replace those found before.
CondensedLast(a, p, parent) ==
  LET es == a.t.node[parent].entries
      i  == At(es, p)
  IN  IF Len(a.t.node[p].entries) < MinEntries
      THEN [t |-> Forget([a.t EXCEPT !.node[parent].entries = RemoveAt(es, i)], Below(a.t, p)),
            orphans |-> Flatten(a.t, p)]
      ELSE [a EXCEPT !.t.node[parent].entries[i] = Entry(MbrOf(a.t.node[p].entries), p)]

\* One level of _condense_tree: a page with too few entries goes, and what is
\* below it waits to be inserted again.
Condensed(a, p, parent) ==
  LET es == a.t.node[parent].entries
      i  == At(es, p)
  IN  IF Len(a.t.node[p].entries) < MinEntries
      THEN [t |-> Forget([a.t EXCEPT !.node[parent].entries = RemoveAt(es, i)], Below(a.t, p)),
            orphans |-> a.orphans \o Flatten(a.t, p)]
      ELSE [a EXCEPT !.t.node[parent].entries[i] = Entry(MbrOf(a.t.node[p].entries), p)]

Shortened(t) ==
  IF t.height > 0 /\ Len(t.node[t.root].entries) = 1
  THEN [Forget(t, {t.root}) EXCEPT !.root = t.node[t.root].entries[1].ref, !.height = @ - 1]
  ELSE t

Deleted(t, e) ==
  LET path == PathTo(t, t.root, t.height, e)
      leaf == path[Len(path)]
      cut  == [t EXCEPT !.node[leaf].entries = RemoveAt(@, CHOOSE i \in DOMAIN @ : @[i] = e)]
      step(a, l) == Condensed(a, path[Len(path) - l + 1], path[Len(path) - l])
      end  == FoldLeft(step, [t |-> cut, orphans |-> <<>>], [l \in 1..t.height |-> l])
  IN  IF path = <<>> THEN t ELSE FoldLeft(Inserted, Shortened(end.t), end.orphans)

-----------------------------------------------------------------------------
(* Searches: the entries they list.                                        *)

AtPoint(t, p)      == {e \in EntriesFor(t, [is |-> "point", at |-> p]) : e.mbr = Box(p)}
RangeSearch(t, q)  == {e \in EntriesFor(t, [is |-> "range", box |-> q]) : ContainsPoint(q, e.mbr)}
RadiusSearch(t, p, d) == {e \in EntriesFor(t, [is |-> "radius", at |-> p, far |-> d]) : MinDist(p, e.mbr) <= d}
BoxOf(polygon)     == FoldLeft(LAMBDA r, p : Join(r, Box(p)), Box(polygon[1]), polygon)
PolygonSearch(t, polygon) ==
  {e \in RangeSearch(t, BoxOf(polygon)) : Inside(e.mbr, polygon)}

\* knn: the queue holds <<distance, counter, kind, payload>>.
Knn(t, p, k) ==
  LET least(q) == CHOOSE x \in q : \A y \in q : ~ Before(y, x)
      push(a, es, node) ==
        [a EXCEPT !.queue = @ \cup {<<MinDist(p, es[i].mbr), a.count + i, node,
                                      IF node THEN es[i].ref ELSE es[i]>> : i \in DOMAIN es},
                  !.count = @ + Len(es)]
      step(a, n) ==
        LET x == least(a.queue)
            b == [a EXCEPT !.queue = @ \ {x}]
        IN  IF a.queue = {} \/ Len(a.found) >= k THEN a
            ELSE IF ~ x[3] THEN [b EXCEPT !.found = Append(@, x[4])]
            ELSE push(b, t.node[x[4]].entries, ~ t.node[x[4]].leaf)
      start == [queue |-> {<<0, 0, TRUE, t.root>>}, count |-> 0, found |-> <<>>]
  IN  FoldLeft(step, start, [n \in 1..(Cardinality(DOMAIN t.node) + Len(points)) |-> n]).found

-----------------------------------------------------------------------------

PairOf(e) == <<<<e.mbr[1], e.mbr[2]>>, e.ref>>
EntryFor(r) == Entry(Box(points[r]), r)
Found(t)  == {PairOf(e) : e \in UNION {AtPoint(t, p) : p \in Point}}

Becomes(t) == \E u \in {t} : tree' = u /\ found' = Found(u) /\ UNCHANGED points

Insert ==
  /\ next \in Row
  /\ Becomes(Inserted(tree, EntryFor(next)))
  /\ next' = next + 1 /\ UNCHANGED deletes

DeleteRef(r) ==
  /\ deletes < MaxDeletes
  /\ Becomes(Deleted(tree, EntryFor(r)))
  /\ deletes' = deletes + 1 /\ UNCHANGED next

Init == points \in Layouts /\ tree = Empty /\ next = 1 /\ deletes = 0 /\ found = {}
Next == Insert \/ \E r \in Row : DeleteRef(r)
Spec == Init /\ [][Next]_vars

-----------------------------------------------------------------------------
(* Properties.                                                             *)

\* Pages are leaves exactly at the bottom, all on one level, and every page but
\* the root keeps between the least and the greatest number of entries; a root
\* that is no leaf has two at least.
TypeOK ==
  LET level[d \in 0..tree.height] == IF d = 0 THEN {tree.root} ELSE Down(tree, level[d - 1], AnyBox) IN
  /\ \A d \in 0..tree.height : \A p \in level[d] :
       /\ tree.node[p].leaf <=> d = tree.height
       /\ Len(tree.node[p].entries) \in (IF d = 0 THEN 0 ELSE MinEntries)..MaxEntries
  /\ tree.height > 0 => Len(tree.node[tree.root].entries) > 1
  /\ UNION {level[d] : d \in 0..tree.height} = DOMAIN tree.node

\* The rectangle with a page number is the one around what the page holds, no
\* larger: after a split, a deletion or a condensed page, up to the root.
Tight ==
  \A p \in DOMAIN tree.node :
    ~ tree.node[p].leaf =>
      \A e \in ToSet(tree.node[p].entries) : e.mbr = MbrOf(tree.node[e.ref].entries)

\* No search leaves out a row on a page that it does not open, whatever lies on
\* the edge of a rectangle.
SearchesExact ==
  LET rows == {r \in Row : <<points[r], r>> \in found} IN
  /\ \A a, b \in Point :
       a[1] <= b[1] /\ a[2] <= b[2] =>
         LET q == <<a[1], a[2], b[1], b[2]>> IN
         {e.ref : e \in RangeSearch(tree, q)} = {r \in rows : ContainsPoint(q, points[r])}
  /\ \A a \in Point : \A d \in {Distance(a, b) : b \in Point} :
       {e.ref : e \in RadiusSearch(tree, a, d)} = {r \in rows : Distance(a, points[r]) <= d}
  /\ \A polygon \in Polygons :
       {e.ref : e \in PolygonSearch(tree, polygon)} = {r \in rows : Inside(points[r], polygon)}

\* knn lists k rows, or all there are, and none that is farther than one left out.
Nearest ==
  LET rows == {r \in Row : <<points[r], r>> \in found} IN
  \A p \in Point : \A k \in {1, 3} :
    LET nearest == Knn(tree, p, k)
        s == [i \in DOMAIN nearest |-> nearest[i].ref]
        far(r) == Distance(p, points[r])
    IN  /\ Len(s) = Lesser(k, Cardinality(rows)) /\ Cardinality(ToSet(s)) = Len(s)
        /\ ToSet(s) \subseteq rows
        /\ \A i \in DOMAIN s : i > 1 => far(s[i - 1]) <= far(s[i])
        /\ \A r \in rows \ ToSet(s) : \A i \in DOMAIN s : far(s[i]) <= far(r)

Map == INSTANCE RowIndex WITH
         Key <- Point, Rid <- DOMAIN (CHOOSE l \in Layouts : TRUE), entries <- found

\* Searches by point find what was inserted and not deleted, whichever other
\* rows were taken out and put back on the way.
ImplementsRowIndex == Map!Spec
=============================================================================
