---------------------------- MODULE BitmapIndex ----------------------------
(***************************************************************************)
(* The bitmap index of src/indexes/bitmap_index.py: each key has the set of*)
(* rows that have it, stored as one payload in a data page.  The first     *)
(* MaxOnPage units of a payload are in the data page, the rest in a chain  *)
(* of spill pages; pages that a chain gives back go to a free list; a      *)
(* directory in memory says where each key is.                             *)
(*                                                                         *)
(* A payload is the pair <<key, rids>>, one unit for the key and one for   *)
(* each row: the encoding to bytes keeps the order of the lengths, which is*)
(* all that the layout depends on.  A spill page holds the i-th slice of a *)
(* payload.  The header of the file is written at each change of it.       *)
(***************************************************************************)
EXTENDS Integers, Sequences, FiniteSets, SequencesExt

CONSTANTS
  Key, Rid,
  PageCap,     \* PAGE_SIZE less its header, in units; a slot takes one
  MaxOnPage,   \* MAX_ON_PAGE
  SpillCap,    \* SPILL_CAP
  MaxPages     \* bound: pages of the file

VARIABLES
  ix,       \* root, free_head, the pages and the directory in memory
  found,    \* the pairs that searches find now: determined by ix
  overrun   \* a page was written over its own slot directory

vars == <<ix, found, overrun>>

NoPage == -1
Nothing == <<>>
PageId == 0..(MaxPages - 1)

Size(pay)   == 1 + Cardinality(pay[2])
HeadLen(pay) == IF Size(pay) < MaxOnPage THEN Size(pay) ELSE MaxOnPage
Slices(pay) == (Size(pay) - HeadLen(pay) + SpillCap - 1) \div SpillCap
Slot        == 1

\* data: entries <<payload, first spill page>> and next of a data page;
\* link: the first field of a spill or free page; slice: the rest of it.
Empty ==
  [size |-> 1, root |-> 0, free |-> NoPage,
   data  |-> [p \in {0} |-> [entries |-> <<>>, next |-> NoPage]],
   link  |-> [p \in PageId |-> NoPage],
   slice |-> [p \in PageId |-> Nothing],
   where |-> [k \in {} |-> Nothing],        \* _directory
   order |-> <<0>>]                         \* _data_pages

-----------------------------------------------------------------------------
(* Pages, the free list and spill chains.                                  *)

NewPage(s) == IF s.free # NoPage THEN s.free ELSE s.size

Alloc(s) ==
  IF s.free # NoPage THEN [s EXCEPT !.free = s.link[s.free]]
  ELSE [s EXCEPT !.size = @ + 1]

\* What is left of a slice in a free page is never read, and forgotten here.
Free(s, p) == [s EXCEPT !.link[p] = s.free, !.slice[p] = Nothing, !.free = p]

\* The pages that follow from head on.
Walk(s, head) ==
  LET step(ids, n) ==
        LET at == IF ids = <<>> THEN head ELSE s.link[ids[Len(ids)]] IN
        IF at = NoPage \/ (ids # <<>> /\ s.link[ids[Len(ids)]] = NoPage) THEN ids
        ELSE Append(ids, at)
  IN  IF head = NoPage THEN <<>> ELSE FoldLeft(step, <<>>, [n \in 1..MaxPages |-> n])

\* A chain of n pages made from ids: what is too much goes to the free list,
\* what is missing is allocated.
Resized(s, ids, n) ==
  LET freed == FoldLeft(Free, s, SubSeq(ids, n + 1, Len(ids)))
      more(a, i) == [s |-> Alloc(a.s), ids |-> Append(a.ids, NewPage(a.s))]
      kept  == SubSeq(ids, 1, IF n < Len(ids) THEN n ELSE Len(ids))
  IN  FoldLeft(more, [s |-> freed, ids |-> kept], [i \in 1..(n - Len(kept)) |-> i])

\* _write_spill_chain: n slices of a payload over the chain that starts at head.
WriteChain(s, pay, head, n) ==
  LET r       == Resized(s, Walk(s, head), n)
      next(i) == IF i = n THEN NoPage ELSE r.ids[i + 1]
      write(t, i) == [t EXCEPT !.link[r.ids[i]] = next(i), !.slice[r.ids[i]] = <<pay, i>>]
  IN  [head |-> IF n = 0 THEN NoPage ELSE r.ids[1],
       s    |-> FoldLeft(write, r.s, [i \in 1..n |-> i])]

-----------------------------------------------------------------------------
(* Reading.                                                                *)

\* An entry reads as its payload when its chain holds the slices of it.
Reads(s, e) ==
  LET ids == Walk(s, e[2]) IN
  /\ Len(ids) = Slices(e[1])
  /\ \A i \in DOMAIN ids : s.slice[ids[i]] = <<e[1], i>>

EntryOf(s, k) == s.data[s.where[k][1]].entries[s.where[k][2]]

\* The rows of a key; what is not a payload any more has none.
Search(s, k) ==
  IF k \notin DOMAIN s.where THEN {}
  ELSE LET e == EntryOf(s, k) IN IF Reads(s, e) THEN e[1][2] ELSE {}

-----------------------------------------------------------------------------
(* Writing.                                                                *)

Used(entries) == FoldLeft(LAMBDA n, e : n + HeadLen(e[1]) + Slot, 0, entries)

\* fits: room for the head of a payload and its slot.
Fits(s, p, pay) == PageCap - Used(s.data[p].entries) >= HeadLen(pay) + Slot

\* _refresh_directory: the slots of the page are numbered again.
Located(s, p) ==
  LET entries == s.data[p].entries
      here    == {entries[i][1][1] : i \in DOMAIN entries}
      away    == {k \in DOMAIN s.where : s.where[k][1] # p}
  IN  [s EXCEPT !.where = [k \in away \cup here |->
         IF k \in here THEN <<p, CHOOSE i \in DOMAIN entries : entries[i][1][1] = k>> ELSE @[k]]]

\* _rewrite_page: the chains of all entries are written, then the page.
Rewrite(s, p, entries) ==
  LET write(a, e) ==
        LET c == WriteChain(a.s, e[1], e[2], Slices(e[1])) IN
        [s |-> c.s, out |-> Append(a.out, <<e[1], c.head>>)]
      done == FoldLeft(write, [s |-> s, out |-> <<>>], entries)
  IN  Located([done.s EXCEPT !.data[p].entries = done.out], p)

\* _entries_with: the chain of the entry that goes is freed first.
Released(s, k) == WriteChain(s, EntryOf(s, k)[1], EntryOf(s, k)[2], 0).s

Replaced(s, k, pay) ==
  LET p == s.where[k][1]
      i == s.where[k][2]
  IN  Rewrite(Released(s, k), p, [s.data[p].entries EXCEPT ![i] = <<pay, NoPage>>])

Dropped(s, k) ==
  LET p == s.where[k][1]
  IN  Rewrite(Released(s, k), p, RemoveAt(s.data[p].entries, s.where[k][2]))

\* Mutant of Extended: the new page is entered in the directory as the first.
ExtendedFirst(s) ==
  LET p == NewPage(s)
      t == Alloc(s)
      old == s.order[Len(s.order)]
  IN  [t EXCEPT !.data = [q \in DOMAIN @ \cup {p} |->
                            IF q = p THEN [entries |-> <<>>, next |-> NoPage]
                            ELSE IF q = old THEN [@[q] EXCEPT !.next = p] ELSE @[q]],
                !.order = <<p>> \o @]

\* A new data page at the end of the chain.
Extended(s) ==
  LET p == NewPage(s)
      t == Alloc(s)
      old == s.order[Len(s.order)]
  IN  [t EXCEPT !.data = [q \in DOMAIN @ \cup {p} |->
                            IF q = p THEN [entries |-> <<>>, next |-> NoPage]
                            ELSE IF q = old THEN [@[q] EXCEPT !.next = p] ELSE @[q]],
                !.order = Append(@, p)]

\* _append: the last data page with room, or a new one.
Appended(s, pay) ==
  LET rooms == {i \in DOMAIN s.order : Fits(s, s.order[i], pay)}
      t     == IF rooms = {} THEN Extended(s) ELSE s
      p     == IF rooms = {} THEN t.order[Len(t.order)]
               ELSE s.order[CHOOSE i \in rooms : \A j \in rooms : j <= i]
  IN  Rewrite(t, p, Append(t.data[p].entries, <<pay, NoPage>>))

Put(s, k, rids) ==
  IF k \in DOMAIN s.where THEN Replaced(s, k, <<k, rids>>) ELSE Appended(s, <<k, rids>>)

Overrun(s) == \E p \in DOMAIN s.data : Used(s.data[p].entries) > PageCap

Found(s) == UNION {{k} \X Search(s, k) : k \in DOMAIN s.where}

Becomes(s) == \E t \in {s} : ix' = t /\ found' = Found(t) /\ overrun' = Overrun(t)

\* Nothing is promised about a page that was overrun: the model ends there.
Insert(k, r) ==
  /\ ~ overrun /\ ix.size < MaxPages
  /\ Becomes(Put(ix, k, Search(ix, k) \cup {r}))

DeleteRef(k, r) ==
  /\ ~ overrun /\ r \in Search(ix, k)
  /\ Becomes(IF Search(ix, k) = {r} THEN Dropped(ix, k) ELSE Put(ix, k, Search(ix, k) \ {r}))

Delete(k) ==
  /\ ~ overrun /\ k \in DOMAIN ix.where
  /\ Becomes(Dropped(ix, k))

\* What _load_directory builds from the chain of data pages.
Chain(s) ==
  LET step(ids, n) == IF s.data[ids[Len(ids)]].next = NoPage THEN ids
                      ELSE Append(ids, s.data[ids[Len(ids)]].next)
  IN  FoldLeft(step, <<s.root>>, [n \in 1..MaxPages |-> n])

Loaded(s) == FoldLeft(Located, [s EXCEPT !.where = [k \in {} |-> Nothing], !.order = Chain(s)], Chain(s))

Reopen == ~ overrun /\ Becomes(Loaded(ix))

Init == ix = Empty /\ found = {} /\ overrun = FALSE

Next ==
  \/ \E k \in Key : \/ Delete(k)
                    \/ \E r \in Rid : Insert(k, r) \/ DeleteRef(k, r)
  \/ Reopen

Spec == Init /\ [][Next]_vars

-----------------------------------------------------------------------------
(* Properties.                                                             *)

InUse == 0..(ix.size - 1)
Entry == UNION {Range(ix.data[p].entries) : p \in DOMAIN ix.data}

\* Page ids are of pages, and each key has a row and one entry.
TypeOK ==
  /\ ix.size \in 1..(2 * MaxPages) /\ ix.root \in InUse
  /\ ix.free \in InUse \cup {NoPage}
  /\ Range(ix.order) = DOMAIN ix.data /\ DOMAIN ix.data \subseteq InUse
  /\ \A e \in Entry : e[1][1] \in Key /\ e[1][2] \in SUBSET Rid \ {{}}
  /\ \A e, f \in Entry : e[1][1] = f[1][1] => e = f

\* Every page of the file is a data page, in one spill chain, or in the free
\* list, and in one of them only: growing, shrinking and dropping entries
\* leaks no page and shares none (_write_spill_chain, _entries_with).
PagesPartitioned ==
  LET chains == <<ix.order, Walk(ix, ix.free)>>
                  \o SetToSeq({Walk(ix, e[2]) : e \in {x \in Entry : x[2] # NoPage}})
      all == FlattenSeq(chains)
  IN  ToSet(all) = InUse /\ Len(all) = ix.size

\* The directory in memory is the one that opening the file again would build,
\* whatever was renumbered by the rewrites of a page (_refresh_directory).
DirectoryCurrent == Loaded(ix) = ix

\* Every entry reads back as the payload that was written.
EntriesReadable == \A e \in Entry : Reads(ix, e)

\* The data of a page never reaches its slot directory: fits() says that the
\* head and the slot of an entry find room in the page.
NoOverrun == ~ overrun

Map == INSTANCE RowIndex WITH entries <- found

\* What a search finds is what was inserted and not deleted, over reopening.
ImplementsRowIndex == Map!Spec
=============================================================================
