------------------------------ MODULE Planner -------------------------------
(***************************************************************************)
(* How SELECT finds its rows (src/parser/executor.py): the R-tree, the     *)
(* bitmaps, a B+ tree or a hash index, or a scan, each for the conditions  *)
(* it can serve; ORDER BY along an index, by the nearest neighbours of an  *)
(* R-tree or with the external sort; LIMIT.                                *)
(*                                                                         *)
(* The indexes answer as BPlusTree, ExtendibleHash, BitmapIndex and RTree  *)
(* promise.  A table has columns id, the primary key, g and p, a point;    *)
(* rows are numbered in the order of a scan, and points lie on a line.     *)
(* Values that a column's type cannot be compared with are left out, and   *)
(* so is ORDER BY p.                                                       *)
(***************************************************************************)
EXTENDS Integers, Sequences, FiniteSets, FiniteSetsExt, SequencesExt

CONSTANTS
  Layouts,     \* bound: rows, each [id, g, p], with whether g is numeric
  IndexSets,   \* bound: indexes of a table, each <<column, kind>>
  Queries,     \* bound: [where, order, reverse, limit]; Always, Unordered, NoLimit
  MaxKeys      \* max_keys of search_range

VARIABLES
  rows, numeric, indexes,
  query, answer     \* the last statement, and the rows it returned

vars == <<rows, numeric, indexes, query, answer>>

NoQuery == [where |-> [is |-> "none"]]
NoLimit == -1
Row     == DOMAIN rows

Size(d)     == IF d < 0 THEN -d ELSE d
Far(r, c)   == Size(rows[r].p - c)
Has(col, kind) == <<col, kind>> \in indexes

-----------------------------------------------------------------------------
(* Conditions: [is, ...] is "always", "cmp" with col, op, val; "between"   *)
(* with col, lo, hi; "within" with the points inside; "dist" with center,  *)
(* op and val; "and" and "or" with of, a sequence.                         *)

Compare(op, a, b) ==
  CASE op = "=" -> a = b [] op = "!=" -> a # b [] op = "<" -> a < b
    [] op = "<=" -> a <= b [] op = ">" -> a > b [] op = ">=" -> a >= b

\* _evaluar.
RECURSIVE Evaluate(_, _)
Evaluate(c, r) ==
  CASE c.is = "always"  -> TRUE
    [] c.is = "or"      -> \E i \in DOMAIN c.of : Evaluate(c.of[i], r)
    [] c.is = "and"     -> \A i \in DOMAIN c.of : Evaluate(c.of[i], r)
    [] c.is = "cmp"     -> Compare(c.op, rows[r][c.col], c.val)
    [] c.is = "between" -> rows[r][c.col] \in c.lo..c.hi
    [] c.is = "within"  -> rows[r].p \in c.inside
    [] c.is = "dist"    -> Compare(c.op, Far(r, c.center), c.val)

\* Rows in the order of a key, those with equal keys in the order of a scan.
By(key, s) == SetToSortSeq(s, LAMBDA a, b : key[a] < key[b] \/ (key[a] = key[b] /\ a < b))
Column(col) == [r \in Row |-> rows[r][col]]
Scanned(s)    == By([r \in Row |-> 0], s)

-----------------------------------------------------------------------------
(* Plans: [ok, rows], where rows are the candidates in the order in which  *)
(* they come.                                                              *)

NoPlan   == [ok |-> FALSE]
Plan(s)  == [ok |-> TRUE, rows |-> s]
First(s) == IF \E i \in DOMAIN s : s[i].ok THEN SelectSeq(s, LAMBDA p : p.ok)[1] ELSE NoPlan

\* What a predicate asks of an index: its rows with the bounds taken as closed.
Numeric(col) == col = "id" \/ numeric
Between(col, lo, hi) == {r \in Row : rows[r][col] \in lo..hi}
From(col, v)  == {r \in Row : rows[r][col] >= v}
UpTo(col, v)  == {r \in Row : rows[r][col] <= v}
Asked(c) ==
  CASE c.is = "between"     -> Between(c.col, c.lo, c.hi)
    [] c.op = "="           -> Between(c.col, c.val, c.val)
    [] c.op \in {"<", "<="} -> UpTo(c.col, c.val)
    [] OTHER                -> From(c.col, c.val)
Ranged(c) == c.is = "between" \/ (c.is = "cmp" /\ c.op \in {"<", "<=", ">", ">="} /\ Numeric(c.col))
Point(c)  == c.is = "cmp" /\ c.op = "="

\* _plan_espacial: a predicate of the R-tree, alone or in the outermost AND.
SpatialOf(c) ==
  IF Has("p", "rtree") /\ (c.is = "within" \/ (c.is = "dist" /\ c.op \in {"<", "<="}))
  THEN Plan(Scanned(IF c.is = "within" THEN {r \in Row : rows[r].p \in c.inside}
                    ELSE {r \in Row : Far(r, c.center) <= c.val}))
  ELSE NoPlan
PlanSpatial(c) ==
  CASE c.is = "or"  -> NoPlan
    [] c.is = "and" -> First([i \in DOMAIN c.of |-> SpatialOf(c.of[i])])
    [] OTHER        -> SpatialOf(c)

\* _combinar_bitmaps: the masks of every predicate, or none.
Values(s, col) == {rows[r][col] : r \in s}
RECURSIVE Mask(_)
Mask(c) ==
  IF c.is \in {"and", "or"}
  THEN LET parts == [i \in DOMAIN c.of |-> Mask(c.of[i])] IN
       IF \E i \in DOMAIN parts : ~ parts[i].ok THEN NoPlan
       ELSE Plan({r \in Row : IF c.is = "and" THEN \A i \in DOMAIN parts : r \in parts[i].rows
                              ELSE \E i \in DOMAIN parts : r \in parts[i].rows})
  ELSE IF /\ c.is \in {"cmp", "between"} /\ Has(c.col, "bitmap")
          /\ Point(c) \/ (Ranged(c) /\ Cardinality(Values(Asked(c), c.col)) <= MaxKeys)
       THEN Plan(Asked(c)) ELSE NoPlan
PlanBitmap(c) == IF Mask(c).ok THEN Plan(Scanned(Mask(c).rows)) ELSE NoPlan

\* Mutant of Conjuncts: the predicates of an OR, too.
RECURSIVE ConjunctsOfAny(_)
ConjunctsOfAny(c) ==
  IF c.is \in {"and", "or"} THEN FlattenSeq([i \in DOMAIN c.of |-> ConjunctsOfAny(c.of[i])]) ELSE <<c>>

\* The predicates that every row of the result satisfies, in the order of the text.
RECURSIVE Conjuncts(_)
Conjuncts(c) ==
  CASE c.is = "and" -> FlattenSeq([i \in DOMAIN c.of |-> Conjuncts(c.of[i])])
    [] c.is = "or"  -> <<>>
    [] OTHER        -> <<c>>

\* _plan_indice and _indice_para: a clustered index, another B+ tree, or a hash index.
Tree(col) == Has(col, "clustered") \/ Has(col, "btree")
IndexOf(c) ==
  CASE c.is \notin {"cmp", "between"} -> NoPlan
    [] Tree(c.col) /\ (Point(c) \/ Ranged(c)) -> Plan(By(Column(c.col), Asked(c)))
    [] ~ Tree(c.col) /\ Has(c.col, "hash") /\ Point(c) -> Plan(Scanned(Asked(c)))
    [] OTHER -> NoPlan
PlanIndex(c) == First([i \in DOMAIN Conjuncts(c) |-> IndexOf(Conjuncts(c)[i])])

\* _scan_filtrado: whatever the plan, the whole condition is evaluated on each row.
Candidates(c) == First(<<PlanSpatial(c), PlanBitmap(c), PlanIndex(c), Plan(Scanned(Row))>>).rows
Filtered(c)   == SelectSeq(Candidates(c), LAMBDA r : Evaluate(c, r))

-----------------------------------------------------------------------------
(* ORDER BY: [is, ...] is "none", "col" with col, or "dist" with center.   *)

OrderKey(o, r) ==
  CASE o.is = "none" -> 0 [] o.is = "col" -> rows[r][o.col] [] o.is = "dist" -> Far(r, o.center)

\* _filas_knn with a filter: twice as many neighbours until there are enough, each
\* of them looked at once.
Neighbours(o, k) == LET all == By([r \in Row |-> Far(r, o.center)], Row) IN SubSeq(all, 1, Min({k, Len(all)}))
RECURSIVE Nearest(_, _, _, _)
Nearest(q, asked, seen, out) ==
  LET near  == Neighbours(q.order, asked)
      fresh == SelectSeq(near, LAMBDA r : r \notin seen /\ Evaluate(q.where, r))
      more  == out \o SubSeq(fresh, 1, Min({Len(fresh), q.limit - Len(out)}))
  IN  IF Len(more) >= q.limit \/ Len(near) < asked THEN more
      ELSE Nearest(q, 2 * asked, seen \cup ToSet(near), more)

\* _plan_knn, _indice_para_order_by, _select_ordenado.
ByNeighbours(q) == q.order.is = "dist" /\ ~ q.reverse /\ q.limit # NoLimit /\ Has("p", "rtree")
AlongIndex(q)   == q.order.is = "col" /\ Tree(q.order.col)
Along(q) ==
  LET all == By(Column(q.order.col), Row)
  IN  SelectSeq(IF q.reverse THEN Reverse(all) ELSE all, LAMBDA r : Evaluate(q.where, r))
Sorted(q) ==
  LET found == Filtered(q.where)
      place(i) == Cardinality({j \in DOMAIN found :
                    LET a == OrderKey(q.order, found[j])  b == OrderKey(q.order, found[i])
                    IN  (IF q.reverse THEN a > b ELSE a < b) \/ (a = b /\ j <= i)})
  IN  [k \in DOMAIN found |-> found[CHOOSE i \in DOMAIN found : place(i) = k]]

\* _visit_select_locked.
Limited(s, k) == IF k = NoLimit THEN s ELSE SubSeq(s, 1, Min({k, Len(s)}))
Selected(q) ==
  CASE q.order.is = "none" -> Limited(Filtered(q.where), q.limit)
    [] ByNeighbours(q)     -> IF q.where.is = "always" THEN Neighbours(q.order, q.limit)
                              ELSE Nearest(q, q.limit, {}, <<>>)
    [] AlongIndex(q)       -> Limited(Along(q), q.limit)
    [] OTHER               -> Limited(Sorted(q), q.limit)

Init ==
  /\ \E l \in Layouts : rows = l.rows /\ numeric = l.numeric
  /\ indexes \in IndexSets
  /\ query = NoQuery /\ answer = <<>>

Select(q) ==
  /\ query = NoQuery
  /\ query' = q /\ answer' = Selected(q)
  /\ UNCHANGED <<rows, numeric, indexes>>

Next == \E q \in Queries : Select(q)
Spec == Init /\ [][Next]_vars

-----------------------------------------------------------------------------
\* Whatever indexes there are, SELECT returns rows that satisfy the condition, each
\* once and in the order asked for, as many as the limit allows, and none that it
\* leaves out comes before one that it returns.
AnswerExact ==
  query # NoQuery =>
    LET all == {r \in Row : Evaluate(query.where, r)}
        before(a, b) == LET x == OrderKey(query.order, a)  y == OrderKey(query.order, b)
                        IN  IF query.reverse THEN x > y ELSE x < y
    IN  /\ ToSet(answer) \subseteq all /\ Cardinality(ToSet(answer)) = Len(answer)
        /\ Len(answer) = IF query.limit = NoLimit THEN Cardinality(all) ELSE Min({query.limit, Cardinality(all)})
        /\ \A i \in DOMAIN answer : \A r \in all :
             before(r, answer[i]) => \E j \in 1..i : answer[j] = r
=============================================================================
