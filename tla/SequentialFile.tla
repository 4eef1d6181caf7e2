--------------------------- MODULE SequentialFile ---------------------------
(***************************************************************************)
(* The ordered file of src/storage/files/sequential_file.py: pages 1 to np *)
(* hold the rows in key order as the last reorganisation wrote them, page  *)
(* 0 and the pages after np the rows inserted since, and links through the *)
(* records give the order of all.                                          *)
(*                                                                         *)
(* The operators take the file and give it back changed; SequentialTable   *)
(* takes the steps.  A page has room for PageCap records.  Of the buffer   *)
(* pool only this is observable: a page past the end of the file is what   *)
(* its frame says, until the frame is used for another page.               *)
(***************************************************************************)
EXTENDS Integers, Sequences, FiniteSets, SequencesExt, FiniteSetsExt

CONSTANTS
  PageCap,     \* max_records of a page
  MinRecords,  \* MIN_RECORDS_FOR_OVERFLOW_CHECK
  MaxPages,    \* bound: page numbers
  MaxRecords   \* bound: records of the file, dead ones included

Nil == <<-1, -1>>

\* A file, before its first row; pages is 1 when page 0 was made beforehand.
NewFile(pages, stays) ==
  [page |-> [p \in 0..MaxPages |-> <<>>], size |-> pages, dirty |-> {}, stays |-> stays,
   first |-> Nil, np |-> 0, n |-> 0, ndel |-> 0, nover |-> 1, novr |-> 0, moved |-> FALSE]

\* Op of a value that is worked out once.
Let(x, Op(_)) == CHOOSE y \in {Op(z) : z \in {x}} : TRUE

Steps == [i \in 1..MaxRecords |-> i]

At(f, r)     == f.page[r[1]][r[2] + 1]
There(f, r)  == r # Nil /\ r[2] < Len(f.page[r[1]])
IsLive(f, r) == There(f, r) /\ ~ At(f, r).dead
Full(f, p)   == Len(f.page[p]) >= PageCap

\* A change of page p, which is written when the pool wants its frame.
Touched(f, p) == [f EXCEPT !.dirty = IF p < f.size THEN @ ELSE @ \cup {p}]

\* _iter_records: the records that the links reach from r.
Chain(f, r) ==
  LET step(c, i) == IF ~ There(f, c.at) THEN c
                    ELSE [rids |-> Append(c.rids, c.at), at |-> At(f, c.at).next]
  IN  FoldLeft(step, [rids |-> <<>>, at |-> r], Steps).rids

LiveOf(f, rids) == SelectSeq(rids, LAMBDA r : IsLive(f, r))
Scan(f)         == LiveOf(f, Chain(f, f.first))

-----------------------------------------------------------------------------
(* Where a key belongs.                                                    *)

\* Whether a record with key k comes before the place of key.
OnLeft(k, key, after) == k < key \/ (after /\ k = key)

\* _last_page_lt.  The first records of the pages are in order, dead or not.
LastPageLt(f, key, after) ==
  Max({0} \cup {p \in 1..f.np : f.page[p] # <<>> /\ OnLeft(f.page[p][1].key, key, after)})

MainOrder(f) == FoldLeft(LAMBDA s, p : s \o [i \in DOMAIN f.page[p] |-> <<p, i - 1>>], <<>>, [p \in 1..f.np |-> p])

\* _main_neighbors: [prev, next] among the live records of the ordered pages.
Main(f, live, hi, key, after) ==
  LET right == {i \in DOMAIN live : live[i][1] > hi \/ (live[i][1] = hi /\ ~ OnLeft(At(f, live[i]).key, key, after))}
      at    == Min(right \cup {Len(live) + 1})
  IN  [prev |-> IF at = 1 THEN Nil ELSE live[at - 1], next |-> IF at > Len(live) THEN Nil ELSE live[at]]

MainNeighbors(f, key, after) ==
  Let(LiveOf(f, MainOrder(f)), LAMBDA live : Main(f, live, LastPageLt(f, key, after), key, after))

\* Mutant of Neighbors: the records between them, in the overflow, are passed over.
NeighborsMain(f, key, after) ==
  IF f.first = Nil THEN [prev |-> Nil, next |-> Nil] ELSE MainNeighbors(f, key, after)

Between(f, main, key, after) ==
  LET chain == Chain(f, IF main.prev = Nil THEN f.first ELSE At(f, main.prev).next)
      stop  == {i \in DOMAIN chain : chain[i] = main.next}
  IN  LiveOf(f, SubSeq(chain, 1, Min(stop \cup {Len(chain) + 1}) - 1))

Nearest(f, main, seg, key, after) ==
  LET right == {i \in DOMAIN seg : ~ OnLeft(At(f, seg[i]).key, key, after)}
      at    == Min(right \cup {Len(seg) + 1})
  IN  [prev |-> IF at = 1 THEN main.prev ELSE seg[at - 1], next |-> IF at > Len(seg) THEN main.next ELSE seg[at]]

\* _find_neighbors: along the links between those two.
Neighbors(f, key, after) ==
  IF f.first = Nil THEN [prev |-> Nil, next |-> Nil]
  ELSE Let(MainNeighbors(f, key, after), LAMBDA main :
         Let(Between(f, main, key, after), LAMBDA seg : Nearest(f, main, seg, key, after)))

-----------------------------------------------------------------------------
(* Reorganisation.                                                         *)

\* _append_page: what allocate_page adds is the page after the last in the file.
AppendPage(f) ==
  [f EXCEPT !.page[f.size] = <<>>, !.size = @ + 1, !.np = @ + 1, !.dirty = @ \ {f.size}]

\* The live records in key order, page after page, each linked to the one after.
Packed(f, rids) ==
  LET pages == (Len(rids) + PageCap - 1) \div PageCap
      rid(j) == IF j > Len(rids) THEN Nil ELSE <<1 + (j - 1) \div PageCap, (j - 1) % PageCap>>
  IN  Let(SortSeq(rids, LAMBDA a, b : At(f, a).key < At(f, b).key), LAMBDA order :
        [p \in 1..pages |->
          [i \in 1..Min({PageCap, Len(rids) - (p - 1) * PageCap}) |->
            LET j == (p - 1) * PageCap + i IN [At(f, order[j]) EXCEPT !.next = rid(j + 1)]]])

\* _truncate: what is dirty is written first, and the frames of pages that the
\* file loses stay in the pool.
Truncated(f, pages) ==
  [f EXCEPT !.size = pages, !.dirty = {}, !.page = [p \in DOMAIN @ |-> IF p < pages \/ f.stays THEN @[p] ELSE <<>>]]

\* The file whose ordered pages are those of main, and it has n rows.
Rewritten(f, main, n) ==
  Truncated([f EXCEPT !.n = n, !.ndel = 0, !.nover = 1, !.novr = 0, !.moved = TRUE, !.first = <<1, 0>>,
                      !.np = Len(main),
                      !.page = [p \in DOMAIN @ |-> IF p = 0 THEN <<>>
                                                   ELSE IF p \in DOMAIN main THEN main[p] ELSE @[p]]],
            Len(main) + 1)

\* reorganize.  Without a live record np, page 0 and page 1 stay as they were.
Reorganize(f) ==
  Let(Scan(f), LAMBDA rids :
    IF rids = <<>>
    THEN Truncated([f EXCEPT !.n = 0, !.ndel = 0, !.nover = 1, !.novr = 0, !.moved = TRUE, !.first = Nil], 1)
    ELSE Let(Packed(f, rids), LAMBDA main : Rewritten(f, main, Len(rids))))

-----------------------------------------------------------------------------
(* Insert and delete.                                                      *)

LastOverflow(f) == IF f.nover = 1 THEN 0 ELSE f.np + f.nover - 1

\* The page of the next overflow record, a new one when the last is full.
WithOverflowRoom(f) ==
  IF ~ Full(f, LastOverflow(f)) THEN [f |-> f, p |-> LastOverflow(f)]
  ELSE [f |-> [f EXCEPT !.page[f.size] = <<>>, !.size = @ + 1, !.nover = @ + 1, !.dirty = @ \ {f.size}], p |-> f.size]

Record(k, v, next) == [key |-> k, val |-> v, next |-> next, dead |-> FALSE]

\* The row in the page p of the overflow, linked to the one after it.
Placed(f, p, k, v, next) ==
  Touched([f EXCEPT !.page[p] = Append(@, Record(k, v, next)), !.n = @ + 1, !.novr = @ + 1], p)

\* Mutant of Linked: the record before it keeps its link.
Unlinked(f, prev, r) == [f |-> IF prev = Nil THEN [f EXCEPT !.first = r] ELSE f, rid |-> r]

\* The row at r comes after the one at prev.
Linked(f, prev, r) ==
  [f |-> IF prev = Nil THEN [f EXCEPT !.first = r]
         ELSE Touched([f EXCEPT !.page[prev[1]][prev[2] + 1].next = r], prev[1]),
   rid |-> r]

\* A row between its neighbours.
InsertLinked(f, k, v) ==
  Let(Neighbors(f, k, TRUE), LAMBDA nb :
    Let(WithOverflowRoom(f), LAMBDA w :
      Linked(Placed(w.f, w.p, k, v, nb.next), nb.prev, <<w.p, Len(w.f.page[w.p])>>)))

\* The first row of a file goes to page 1, whatever is there.
InsertFirst(f, k, v) ==
  LET g == IF f.np = 0 THEN AppendPage(f) ELSE f
      r == <<1, Len(g.page[1])>>
  IN  [f |-> Touched([g EXCEPT !.page[1] = Append(@, Record(k, v, Nil)), !.first = r, !.n = 1], 1), rid |-> r]

\* Three rows of ten in the overflow are too many.
Settled(w, k) ==
  IF w.f.n < MinRecords \/ 10 * w.f.novr < 3 * w.f.n THEN w
  ELSE Let(Reorganize(w.f), LAMBDA g : [f |-> g, rid |-> CHOOSE r \in Range(Scan(g)) : At(g, r).key = k])

\* insert: the file, and the place of the row; Nil when page 1 has no room for it.
Inserted(f, k, v) ==
  IF f.first = Nil /\ f.np > 0 /\ Full(f, 1) THEN [f |-> f, rid |-> Nil]
  ELSE IF f.first = Nil THEN InsertFirst(f, k, v)
  ELSE Let(InsertLinked(f, k, v), LAMBDA w : Settled(w, k))

Wasted(f) == 10 * f.ndel >= 3 * (f.n + f.ndel)

Buried(f, r) ==
  Touched([f EXCEPT !.page[r[1]][r[2] + 1].dead = TRUE, !.ndel = @ + 1, !.n = @ - 1], r[1])

\* delete of an address.
Deleted(f, r) ==
  IF ~ IsLive(f, r) THEN f
  ELSE Let(Buried(f, r), LAMBDA g : IF Wasted(g) THEN Reorganize(g) ELSE g)

\* search: from the place before the first record with the key.
Search(f, key) ==
  Let(Chain(f, Neighbors(f, key, FALSE).next), LAMBDA chain :
    LET past == {i \in DOMAIN chain : At(f, chain[i]).key > key} IN
    SelectSeq(SubSeq(chain, 1, Min(past \cup {Len(chain) + 1}) - 1), LAMBDA r : IsLive(f, r) /\ At(f, r).key = key))

\* A page of the order without a live record.
Gone(f, r) == r[1] \in 1..f.np /\ \A i \in DOMAIN f.page[r[1]] : f.page[r[1]][i].dead

\* delete_by_key.
DeletedByKey(f, key) ==
  Let(Search(f, key), LAMBDA rids :
    Let(FoldLeft(Buried, f, rids), LAMBDA g :
      IF rids # <<>> /\ (Wasted(g) \/ \E r \in Range(rids) : Gone(g, r)) THEN Reorganize(g) ELSE g))

-----------------------------------------------------------------------------
(* What the pool and the file do meanwhile.                                *)

\* The frame of a page past the end is used for another page: written, or gone.
Evicted(f, p) ==
  IF p \in f.dirty
  THEN [f EXCEPT !.size = p + 1, !.dirty = {q \in @ : q > p},
                 !.page = [q \in DOMAIN @ |-> IF q \in (f.size..p) \ f.dirty THEN <<>> ELSE @[q]]]
  ELSE [f EXCEPT !.page[p] = <<>>]

\* A file that is closed and opened again.
Reopened(f) ==
  LET size == Max({f.size} \cup {p + 1 : p \in f.dirty}) IN
  [f EXCEPT !.size = size, !.dirty = {}, !.page = [p \in DOMAIN @ |-> IF p < size THEN @[p] ELSE <<>>]]
=============================================================================
