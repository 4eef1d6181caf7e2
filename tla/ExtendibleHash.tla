--------------------------- MODULE ExtendibleHash ---------------------------
(***************************************************************************)
(* The extendible hash index of src/indexes/extendible_hash.py: a directory*)
(* whose entries name the first and the last page of a bucket, buckets     *)
(* that are split, a directory that doubles, and overflow pages once the   *)
(* directory has its greatest depth.  Deleted entries stay as tombstones   *)
(* until the page is compacted or left behind.                             *)
(*                                                                         *)
(* A page has room for MaxBucketSize entries; the limit in bytes, which    *)
(* has_space_int adds to the same test, and the pages that hold the        *)
(* directory itself are left out.  Pages are numbered as they are made.    *)
(***************************************************************************)
EXTENDS Integers, Sequences, FiniteSets, FiniteSetsExt, Functions

CONSTANTS
  Key, Rid,
  HashOf,         \* hash_key: a number for each key
  InitDepth,      \* depth of a new index
  MaxDepth,       \* MAX_DEPTH
  MaxBucketSize,  \* max_bucket_size
  MaxPages        \* bound: pages after which nothing more is inserted

VARIABLES
  index,     \* [depth, dir, page]: directory and bucket pages
  found,     \* the pairs that searches find now: determined by index
  failed     \* an operation raised

NoPage == -1
Item   == [key : Key, rid : Rid, deleted : BOOLEAN]
vars   == <<index, found, failed>>

Slot(s, k)  == HashOf[k] % 2 ^ s.depth
Full(b)     == Len(b.items) >= MaxBucketSize
Bucket(d)   == [items |-> <<>>, depth |-> d, next |-> NoPage]
Both(p)     == [first |-> p, last |-> p]

\* A new index: one bucket page for each directory entry.
Empty == [depth |-> InitDepth,
          dir   |-> [i \in 0..(2 ^ InitDepth - 1) |-> Both(i + 1)],
          page  |-> <<>> \o [p \in 1..2 ^ InitDepth |-> Bucket(InitDepth)]]

\* The pages of a bucket: the chain that starts at p.
Chain(s, p) ==
  LET pages[n \in 0..Len(s.page)] ==
        IF n = 0 THEN {p} ELSE LET c == pages[n - 1] IN c \cup ({s.page[q].next : q \in c} \ {NoPage})
  IN  pages[Len(s.page)]

Home(s, k) == Chain(s, s.dir[Slot(s, k)].first)

\* What search(key) returns.
Search(s, k) ==
  LET items == UNION {Range(s.page[p].items) : p \in Home(s, k)} IN
  {it.rid : it \in {x \in items : x.key = k /\ ~ x.deleted}}

-----------------------------------------------------------------------------
(* insert.                                                                 *)

\* Mutant of Keep: compact keeps the tombstones.
KeepTombstones(it) == it.deleted

Keep(it) == ~ it.deleted

Compact(s, p) == [s EXCEPT !.page[p].items = SelectSeq(@, Keep)]

Double(s) ==
  [s EXCEPT !.depth = @ + 1,
            !.dir = [i \in 0..(2 ^ (s.depth + 1) - 1) |-> s.dir[i % 2 ^ s.depth]]]

\* Mutant of Moves: the bit above the one that splits decides.
MovesByNextBit(k, d) == (HashOf[k] \div 2 ^ (d + 1)) % 2 = 1
\* The entries that leave a bucket whose depth was d.
Moves(k, d) == (HashOf[k] \div 2 ^ d) % 2 = 1

\* The conditions under which _split_bucket does not raise.
CanSplit(s, i) ==
  LET b == s.page[s.dir[i].first] IN
  /\ b.depth # s.depth
  /\ b.next = NoPage
  /\ \A n \in DOMAIN b.items : (HashOf[b.items[n].key] - i) % 2 ^ b.depth = 0

\* Every entry that ends in the old bits and a one is redirected to the new page.
Redirected(s, i, d, new) ==
  [j \in DOMAIN s.dir |-> IF j % 2 ^ (d + 1) = (i % 2 ^ d) + 2 ^ d THEN Both(new) ELSE s.dir[j]]

Split(s, i) ==
  LET p   == s.dir[i].first
      b   == s.page[p]
      d   == b.depth
      new == Len(s.page) + 1
      stay(it)  == ~ Moves(it.key, d)
      leave(it) == Moves(it.key, d)
  IN  [s EXCEPT
        !.dir  = Redirected(s, i, d, new),
        !.page = Append([s.page EXCEPT ![p].items = SelectSeq(b.items, stay), ![p].depth = d + 1],
                        [Bucket(d + 1) EXCEPT !.items = SelectSeq(b.items, leave)])]

AddOverflow(s, i) ==
  LET p == s.dir[i].last
      new == Len(s.page) + 1
  IN  [s EXCEPT !.dir[i].last = new,
                !.page = Append([s.page EXCEPT ![p].next = new], Bucket(s.page[p].depth))]

LastPage(s, k) == s.dir[Slot(s, k)].last

Overflows(s, b) == b.depth = s.depth /\ s.depth >= MaxDepth

\* The index in which the bucket can be split.
Grown(s, b) == IF b.depth = s.depth THEN Double(s) ELSE s

\* One round of the loop of insert, which goes on while the last page is full.
Round(s, k) ==
  LET b == s.page[LastPage(s, k)] IN
  IF ~ Full(b) THEN s
  ELSE IF Overflows(s, b) THEN AddOverflow(s, Slot(s, k))
  ELSE IF CanSplit(Grown(s, b), Slot(s, k)) THEN Split(Grown(s, b), Slot(s, k)) ELSE s

RoomFor(s, k) ==
  LET start == IF Full(s.page[LastPage(s, k)]) THEN Compact(s, LastPage(s, k)) ELSE s
      after[n \in 0..(MaxDepth + 1)] == IF n = 0 THEN start ELSE Round(after[n - 1], k)
  IN  after[MaxDepth + 1]

Put(s, k, r) ==
  LET t == RoomFor(s, k) IN
  [t EXCEPT !.page[LastPage(t, k)].items = Append(@, [key |-> k, rid |-> r, deleted |-> FALSE])]

Found(s) == UNION {{k} \X Search(s, k) : k \in Key}

Becomes(s, raised) == \E t \in {s} : index' = t /\ found' = Found(t) /\ failed' = raised

\* A row has one entry; a split that raises ends the insert.
Insert(k, r) ==
  /\ ~ failed /\ r \notin Search(index, k)
  /\ Len(index.page) < MaxPages
  /\ LET t    == RoomFor(index, k)
         full == Full(t.page[LastPage(t, k)])
     IN  Becomes(IF full THEN t ELSE Put(index, k, r), full)

-----------------------------------------------------------------------------
(* delete and delete_ref: tombstones along the chain.                      *)

Bury(s, k, rids) ==
  [s EXCEPT !.page = [p \in DOMAIN s.page |->
     IF p \notin Home(s, k) THEN s.page[p]
     ELSE [s.page[p] EXCEPT !.items = [i \in DOMAIN @ |->
             IF @[i].key = k /\ @[i].rid \in rids THEN [@[i] EXCEPT !.deleted = TRUE] ELSE @[i]]]]]

Delete(k) ==
  /\ ~ failed
  /\ Becomes(Bury(index, k, Rid), FALSE)

DeleteRef(k, r) ==
  /\ ~ failed
  /\ Becomes(Bury(index, k, {r}), FALSE)

\* A start builds the index again from a scan of the table.
Rebuild ==
  /\ ~ failed
  /\ Becomes(FoldSet(LAMBDA e, s : Put(s, e[1], e[2]), Empty, found), FALSE)

Init == index = Empty /\ found = {} /\ failed = FALSE

Next ==
  \/ \E k \in Key : \/ Delete(k)
                    \/ \E r \in Rid : Insert(k, r) \/ DeleteRef(k, r)
  \/ Rebuild

Spec == Init /\ [][Next]_vars

-----------------------------------------------------------------------------
(* Properties.                                                             *)

\* Depths, directory and pages are well formed.
TypeOK ==
  /\ index.depth \in InitDepth..MaxDepth
  /\ index.page \in Seq([items : Seq(Item), depth : InitDepth..index.depth,
                         next : {NoPage} \cup DOMAIN index.page])
  /\ index.dir \in [0..(2 ^ index.depth - 1) -> [first : DOMAIN index.page, last : DOMAIN index.page]]
  /\ failed \in BOOLEAN

\* Two entries of the directory name the same bucket exactly when they agree on
\* the low bits that the bucket's own depth counts; splits and doublings in any
\* order keep it (_split_bucket, _double_in_size).
DirectoryShape ==
  \A i, j \in DOMAIN index.dir :
    (index.dir[i].first = index.dir[j].first) <=>
      ((i - j) % 2 ^ index.page[index.dir[i].first].depth = 0)

\* The last page that the directory names is the end of the bucket's chain, and
\* chains exist only where no split can follow (insert, _add_overflow_bucket).
ChainsEnd ==
  \A i \in DOMAIN index.dir :
    LET chain == Chain(index, index.dir[i].first) IN
    /\ {p \in chain : index.page[p].next = NoPage} = {index.dir[i].last}
    /\ Cardinality(chain) > 1 => index.page[index.dir[i].last].depth = MaxDepth

\* An entry is stored once, in a page where its key is looked for: no split,
\* compaction or overflow loses, doubles or strands one.
OneHome ==
  \A p, q \in DOMAIN index.page : \A i \in DOMAIN index.page[p].items :
    LET it == index.page[p].items[i] IN
    ~ it.deleted =>
      /\ p \in Home(index, it.key)
      /\ \A j \in DOMAIN index.page[q].items : index.page[q].items[j] = it => <<q, j>> = <<p, i>>

\* insert never meets a bucket that it cannot split: the IndexError and the
\* RuntimeError of _split_bucket are unreachable.
NeverRaises == ~ failed

Map == INSTANCE RowIndex WITH entries <- found

\* What a search finds is what was inserted and not deleted.
ImplementsRowIndex == Map!Spec
=============================================================================
