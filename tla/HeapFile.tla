------------------------------ MODULE HeapFile ------------------------------
(***************************************************************************)
(* The heap file of src/storage/files/heap_file.py over the slotted pages  *)
(* of src/storage/pages/variable_page.py: directory pages with the free    *)
(* space of each data page, slots with a list of dead ones, records that   *)
(* grow down from the end of the page.                                     *)
(*                                                                         *)
(* Space is counted in units after the page header; a slot takes one, a    *)
(* record with its trailer as many as Size says.  A record without data    *)
(* is not possible.  next is never a link in a heap, and left out.         *)
(***************************************************************************)
EXTENDS Integers, Sequences, FiniteSets, SequencesExt, FiniteSetsExt, Functions

CONSTANTS
  Value, Size,   \* rows, and the bytes of the record of each
  PageCap,       \* PAGE_SIZE less the page header
  EntriesPerDir, \* ENTRIES_PER_DIR_PAGE
  MaxPages,      \* bound: pages of the file
  Lost           \* bound: whether a restart may find an older page_count

\* insert refuses a record that is longer than MAX_RECORD_SIZE.  The number of
\* entries is (PAGE_SIZE - DIR_HEADER_SIZE) // DIR_ENTRY_SIZE, which is 2044.
ASSUME HeapAssumption ==
  /\ PageCap \in Nat /\ MaxPages \in Nat /\ EntriesPerDir \in Nat /\ EntriesPerDir > 1
  /\ Size \in [Value -> 1..(PageCap - 1)]

VARIABLES
  heap,    \* [count, dirs] in memory, and [size, dir, data] in the file
  rows     \* what fetch finds at each address: determined by heap

vars == <<heap, rows>>

NoSlot  == -1        \* NULL_SLOT
NoDir   == 0         \* NULL_DIR_PAGE: page 0 is next of none

NewDir  == [count |-> 0, next |-> NoDir, free |-> [i \in 0..(EntriesPerDir - 1) |-> 0]]
Empty   == [count |-> 0, dirs |-> <<0>>, size |-> 1, dir |-> [p \in {0} |-> NewDir], data |-> [p \in {} |-> NewDir]]

-----------------------------------------------------------------------------
(* A page: [slots, offset, first]; a slot [at, size, row].  A dead slot    *)
(* has size 0 and in at the next dead one.                                 *)

ResetPage      == [slots |-> <<>>, offset |-> PageCap, first |-> NoSlot]
FreeBytes(pg)  == pg.offset - Len(pg.slots)
HasSpace(pg, n) == FreeBytes(pg) >= n + 1
Live(pg)       == {s \in DOMAIN pg.slots : pg.slots[s].size > 0}

\* Where the record of each slot begins when the records lie at the end of the
\* page in the order of the slots.
Ends(slots) ==
  LET end[s \in 0..Len(slots)] == IF s = 0 THEN PageCap ELSE end[s - 1] - slots[s].size
  IN  end

\* defragment: live records move to the end of the page, in slot order.
Defragmented(pg) ==
  LET end == Ends(pg.slots)
  IN  [pg EXCEPT !.offset = end[Len(pg.slots)],
                 !.slots  = [s \in DOMAIN @ |-> IF @[s].size = 0 THEN @[s] ELSE [@[s] EXCEPT !.at = end[s]]]]

\* Mutant of Recycled: the slot stays first of the dead ones.
RecycledKeeps(pg, slot) == [pg EXCEPT !.slots[pg.first + 1] = slot]

\* The first dead slot is used again.
Recycled(pg, slot) == [pg EXCEPT !.slots[pg.first + 1] = slot, !.first = pg.slots[pg.first + 1].at]

\* insert; the page is full when room says so.
InsertedIn(pg, v) ==
  LET roomy == IF HasSpace(pg, Size[v]) THEN pg ELSE Defragmented(pg)
      at    == roomy.offset - Size[v]
      slot  == [at |-> at, size |-> Size[v], row |-> v]
      q     == [roomy EXCEPT !.offset = at]
  IN  IF ~ HasSpace(roomy, Size[v]) THEN [page |-> roomy, slot |-> NoSlot]
      ELSE IF pg.first # NoSlot THEN [page |-> Recycled(q, slot), slot |-> pg.first]
      ELSE [page |-> [q EXCEPT !.slots = Append(@, slot)], slot |-> Len(pg.slots)]

\* Mutant of DeletedIn: the page is compacted, and its slot numbers move.
DeletedInMoves(pg, s) ==
  [pg EXCEPT !.slots = SubSeq(@, 1, s) \o SubSeq(@, s + 2, Len(@))]

\* delete_record.
DeletedIn(pg, s) ==
  [pg EXCEPT !.slots[s + 1] = [at |-> pg.first, size |-> 0], !.first = s]

-----------------------------------------------------------------------------
(* The directory.                                                          *)

NextPageId(h) == Len(h.dirs) + h.count

DirAt(p)       == ((p - 1) \div EntriesPerDir) + 1
EntryAt(p)     == (p - 1) % EntriesPerDir
IsData(h, p)   == 1 <= p /\ p < NextPageId(h) /\ p \notin Range(h.dirs)
FreeSpace(h, p) == h.dir[h.dirs[DirAt(p)]].free[EntryAt(p)]
SetFree(h, p, n) == [h EXCEPT !.dir[h.dirs[DirAt(p)]].free[EntryAt(p)] = n]

\* _sync_page.
Synced(h, p, pg) == SetFree([h EXCEPT !.data[p] = pg], p, FreeBytes(pg))

\* _add_dir_page.  The link is written before the page has its number.
WithDirPage(h) ==
  LET p    == h.size
      last == h.dirs[Len(h.dirs)]
      linked == [h.dir EXCEPT ![last].next = NextPageId(h)]
  IN  [h EXCEPT !.size = @ + 1, !.dirs = Append(@, p),
                !.dir = [d \in DOMAIN linked \cup {p} |-> IF d = p THEN NewDir ELSE linked[d]]]

NeedsDirPage(h) == DirAt(NextPageId(h)) > Len(h.dirs)

\* _update_page_count.
Counted(h) == [h EXCEPT !.count = @ + 1, !.dir[0].count = h.count + 1]

\* _new_page, whose number is that of allocate_page.
WithPage(h) ==
  LET g == IF NeedsDirPage(h) THEN WithDirPage(h) ELSE h
      p == g.size
      k == Counted([g EXCEPT !.size = @ + 1, !.data = [d \in DOMAIN @ \cup {p} |-> IF d = p THEN ResetPage ELSE @[d]]])
  IN  [h |-> SetFree(k, p, PageCap), p |-> p]

\* The pages that have room, and the answer of insert: the file and the address.
Roomy(h, v) == {p \in 1..(NextPageId(h) - 1) : IsData(h, p) /\ FreeSpace(h, p) >= Size[v] + 1}

Placed(h, p, v) ==
  LET r == InsertedIn(h.data[p], v) IN [h |-> Synced(h, p, r.page), rid |-> <<p, r.slot>>]

InsertedRow(h, v) ==
  IF Roomy(h, v) # {} THEN Placed(h, Min(Roomy(h, v)), v)
  ELSE LET n == WithPage(h) IN Placed(n.h, n.p, v)

\* fetch and scan.
Fetched(h) ==
  LET at == UNION {{p} \X {s - 1 : s \in Live(h.data[p])} : p \in {q \in DOMAIN h.data : IsData(h, q)}} IN
  [a \in at |-> h.data[a[1]].slots[a[2] + 1].row]

\* The rows of a page in the order of its slots, and those of all pages.
PageScan(p, pg) ==
  LET found[s \in 0..Len(pg.slots)] ==
        IF s = 0 THEN <<>>
        ELSE IF pg.slots[s].size = 0 THEN found[s - 1]
        ELSE Append(found[s - 1], <<<<p, s - 1>>, pg.slots[s].row>>)
  IN  found[Len(pg.slots)]

Scan(h) ==
  LET found[p \in 0..(NextPageId(h) - 1)] ==
        IF p = 0 THEN <<>>
        ELSE IF p \in Range(h.dirs) THEN found[p - 1]
        ELSE found[p - 1] \o PageScan(p, h.data[p])
  IN  found[NextPageId(h) - 1]

-----------------------------------------------------------------------------

Becomes(h) == \E g \in {h} : heap' = g /\ rows' = Fetched(g)

Insert(v) ==
  /\ heap.size + 1 < MaxPages \/ Roomy(heap, v) # {}
  /\ Becomes(InsertedRow(heap, v).h)

Delete(p, s) ==
  /\ <<p, s>> \in DOMAIN rows
  /\ Becomes(Synced(heap, p, DeletedIn(heap.data[p], s)))

\* update: a record of another size stays, and the table moves the row.
Update(p, s, v) ==
  /\ <<p, s>> \in DOMAIN rows
  /\ heap.data[p].slots[s + 1].size = Size[v]
  /\ Becomes(Synced(heap, p, [heap.data[p] EXCEPT !.slots[s + 1].row = v]))

\* compact, of one page or through reorganize of all.
Compact(p) ==
  /\ p \in DOMAIN heap.data /\ IsData(heap, p)
  /\ Becomes(Synced(heap, p, Defragmented(heap.data[p])))

\* The ids that n links lead to from start on.
Walk(link, start, n) ==
  LET ids[i \in 0..n] ==
        IF i = 0 THEN <<start>>
        ELSE IF Last(ids[i - 1]) \in DOMAIN link THEN Append(ids[i - 1], link[Last(ids[i - 1])])
        ELSE ids[i - 1]
  IN  ids[n]

\* A file that is opened again: the directories from page 0 on, and the count as
\* page 0 has it.
DirChain(h) ==
  LET linked == {p \in DOMAIN h.dir : h.dir[p].next # NoDir}
  IN  Walk([p \in linked |-> h.dir[p].next], 0, Len(h.dirs))

Opened(h) == [h EXCEPT !.dirs = DirChain(h), !.count = h.dir[0].count]

\* A restart; after a crash page 0 may be an older one.
Reopen ==
  \E count \in 0..heap.count :
    /\ count = heap.count \/ TRUE \in Lost
    /\ Becomes(Opened([heap EXCEPT !.dir[0].count = count]))

Init == heap = Empty /\ rows = [a \in {} |-> 0]

Next ==
  \/ \E v \in Value : Insert(v)
  \/ \E a \in DOMAIN rows : \/ Delete(a[1], a[2])
                            \/ \E v \in Value : Update(a[1], a[2], v)
  \/ \E p \in DOMAIN heap.data : Compact(p)
  \/ Reopen

Spec == Init /\ [][Next]_vars

-----------------------------------------------------------------------------
(* Properties.                                                             *)

\* In every page the slots end before the records start, and the records do not
\* overlap: neither recycling, updating nor defragmenting writes over a live one.
TypeOK ==
  /\ \A p \in DOMAIN heap.data :
       LET pg == heap.data[p] IN
       /\ pg.offset \in Len(pg.slots)..PageCap
       /\ \A s \in Live(pg) :
            /\ pg.slots[s].at >= pg.offset /\ pg.slots[s].at + pg.slots[s].size <= PageCap
            /\ pg.slots[s].size = Size[pg.slots[s].row]
            /\ \A t \in Live(pg) \ {s} :
                 \/ pg.slots[s].at + pg.slots[s].size <= pg.slots[t].at
                 \/ pg.slots[t].at + pg.slots[t].size <= pg.slots[s].at
  /\ DOMAIN heap.dir \cup DOMAIN heap.data = 0..(heap.size - 1)
  /\ DOMAIN heap.dir \cap DOMAIN heap.data = {}

\* The list of dead slots holds each of them once, so that no live slot is ever
\* recycled and no dead one forgotten (delete_record, insert).
FreeListExact ==
  \A p \in DOMAIN heap.data :
    LET pg == heap.data[p]
        dead == {s - 1 : s \in DOMAIN pg.slots \ Live(pg)}
        walk == Walk([s \in dead |-> pg.slots[s + 1].at], pg.first, Len(pg.slots) + 1)
    IN  /\ Range(walk) = dead \cup {NoSlot}
        /\ Len(walk) = Cardinality(dead) + 1

\* The directory has the free bytes of each data page, and page numbers reach
\* exactly the pages that are there, over every directory page that is added.
DirectoryTrue ==
  /\ NextPageId(heap) = heap.size
  /\ {p \in 1..heap.size : IsData(heap, p)} = DOMAIN heap.data
  /\ Range(heap.dirs) = DOMAIN heap.dir
  /\ \A p \in DOMAIN heap.data : FreeSpace(heap, p) = FreeBytes(heap.data[p])

\* A file that is opened again has the directories and the count it had.
ReopensSame == Opened(heap) = heap

\* A scan lists every row that a fetch finds, and each once.
ScanMatchesFetch ==
  LET s == Scan(heap) IN
  /\ {s[i][1] : i \in DOMAIN s} = DOMAIN rows
  /\ Len(s) = Cardinality(DOMAIN rows)
  /\ \A i \in DOMAIN s : rows[s[i][1]] = s[i][2]

\* A row that is inserted now is found at an address that was free, next to those
\* that were there, and so it is when the file is opened again.
InsertPlaces ==
  \A v \in Value :
    heap.size + 1 < MaxPages \/ Roomy(heap, v) # {} =>
      \E r \in {InsertedRow(heap, v)} :
        /\ r.rid \notin DOMAIN rows
        /\ Fetched(Opened(r.h)) = [a \in DOMAIN rows \cup {r.rid} |-> IF a = r.rid THEN v ELSE rows[a]]

\* Slots, records, dead slots, directory and the file that is opened again agree, and
\* a scan lists what fetches find; a row that is inserted is one of them.
HeapSound ==
  TypeOK /\ FreeListExact /\ DirectoryTrue /\ ReopensSame /\ ScanMatchesFetch /\ InsertPlaces

Map == INSTANCE RowStore WITH Address <- (0..MaxPages) \X (0..PageCap)

\* Rows keep their addresses; a new row takes the address of no live one.
ImplementsRowStore == Map!Spec

=============================================================================
