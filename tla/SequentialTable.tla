-------------------------- MODULE SequentialTable ---------------------------
(***************************************************************************)
(* A table USING SEQUENTIAL of src/storage/table.py, with a secondary      *)
(* index of src/indexes/b_plus_unclustered_sequential.py on its second     *)
(* column, under the statements of src/parser/executor.py, which hold the  *)
(* lock of the table.  The index is the bag of its entries: their order in *)
(* the tree is the matter of BPlusTree.                                    *)
(***************************************************************************)
EXTENDS SequentialFile

CONSTANTS
  Key, Val,      \* the primary key and the second column
  Fresh,         \* bound: whether the file is new, without page 0
  Stays,         \* bound: whether frames of truncated pages stay in the pool
  MaxStatement,  \* bound: rows that a WHERE holds for
  Emptied,       \* bound: whether the last row may be deleted
  Moving         \* bound: whether an update of an indexed table may reorganise its file

VARIABLES
  file,     \* the data file
  indexed,  \* whether the table has the secondary index
  index,    \* how often the index holds [val, rid]
  rows,     \* what a scan lists: determined by file
  wrong     \* whether the last step left other rows than it was to

vars == <<file, indexed, index, rows, wrong>>

-----------------------------------------------------------------------------
(* The secondary index.                                                    *)

NoEntries  == [e \in {} |-> 0]
Count(b, e) == IF e \in DOMAIN b THEN b[e] ELSE 0
AddTo(b, e) == [x \in DOMAIN b \cup {e} |-> Count(b, x) + (IF x = e THEN 1 ELSE 0)]
TakeFrom(b, e) ==
  IF Count(b, e) > 1 THEN [b EXCEPT ![e] = @ - 1] ELSE [x \in DOMAIN b \ {e} |-> b[x]]

\* _reindex: an entry for every live record.
Entries(f) == LET live == Range(Scan(f)) IN [e \in {<<At(f, r).val, r>> : r \in live} |-> 1]

\* The table with its index: [f, ix], the operators below change both.
Synced(t) == [f |-> [t.f EXCEPT !.moved = FALSE], ix |-> Entries(t.f)]

\* Mutant of IndexInsert: an index that has just been rebuilt takes the row again.
IndexInsertAlways(t, v, r) ==
  LET u == IF t.f.moved THEN Synced(t) ELSE t IN [u EXCEPT !.ix = AddTo(@, <<v, r>>)]

\* _insert_ref and delete_ref: a rebuild makes the change itself unnecessary.
IndexInsert(t, v, r) == IF t.f.moved THEN Synced(t) ELSE [t EXCEPT !.ix = AddTo(@, <<v, r>>)]

IndexDelete(t, v, r) == IF t.f.moved THEN Synced(t) ELSE [t EXCEPT !.ix = TakeFrom(@, <<v, r>>)]

Indexing(t, u) == IF indexed THEN u ELSE [t EXCEPT !.f.moved = FALSE]

-----------------------------------------------------------------------------
(* Table: one row.                                                         *)

\* insert, whose constraints hold.
InsertRow(t, k, v) ==
  Let(Inserted(t.f, k, v), LAMBDA w :
    IF w.rid = Nil THEN t
    ELSE Let([t EXCEPT !.f = w.f], LAMBDA u : Indexing(u, IndexInsert(u, v, w.rid))))

\* delete of an address: of the row that is there now.
DeleteRow(t, r) ==
  IF ~ IsLive(t.f, r) THEN t
  ELSE Let([t EXCEPT !.f = Deleted(t.f, r)], LAMBDA u : Indexing(u, IndexDelete(u, At(t.f, r).val, r)))

\* update: the file has no update in place, so the row is deleted and inserted;
\* then the index is told when it is concerned.
Reindexed(u, old, v, r, new) ==
  IF v = old /\ new = r THEN u ELSE Let(IndexDelete(u, old, r), LAMBDA d : IndexInsert(d, v, new))

UpdateRow(t, r, k, v) ==
  IF ~ IsLive(t.f, r) THEN t
  ELSE Let(Inserted(Deleted(t.f, r), k, v), LAMBDA w :
         IF w.rid = Nil THEN t
         ELSE Let([t EXCEPT !.f = w.f], LAMBDA u : Indexing(u, Reindexed(u, At(t.f, r).val, v, r, w.rid))))

-----------------------------------------------------------------------------
(* Statements.                                                             *)

Rows(f) == LET live == Range(Scan(f)) IN {<<At(f, r).key, At(f, r).val>> : r \in live}

\* A step to the table t, which is to have the rows expected.
Becomes(t, expected) ==
  \E u \in {t} : /\ file' = u.f /\ index' = (IF indexed THEN u.ix ELSE NoEntries)
                 /\ rows' = Rows(u.f)
                 /\ wrong' = (rows' # expected)
                 /\ UNCHANGED indexed

Table == [f |-> file, ix |-> index]

HasKey(f, k) == Search(f, k) # <<>>

\* The addresses that a statement collects before its first change.
Matching(C) == SelectSeq(Scan(file), LAMBDA r : At(file, r).key \in C)

Allowed(C) == C # {} /\ Cardinality(C) <= MaxStatement /\ C \subseteq {x[1] : x \in rows}

\* INSERT: validate_insert, then the row.
Insert(k, v) ==
  /\ ~ HasKey(file, k)
  /\ Becomes(InsertRow(Table, k, v), rows \cup {<<k, v>>})

\* DELETE ... WHERE key IN C.
DeleteWhere(C) ==
  /\ Allowed(C)
  /\ TRUE \in Emptied \/ Cardinality(rows) > Cardinality(C)
  /\ Becomes(FoldLeft(DeleteRow, Table, Matching(C)), {x \in rows : x[1] \notin C})

Moves(r, v) == Inserted(Deleted(file, r), At(file, r).key, v).f.moved

\* UPDATE ... SET val = v WHERE key IN C.  validate_update finds no other row
\* with the key, since the statement does not change it.
UpdateWhere(C, v) ==
  LET change(t, r) == UpdateRow(t, r, At(file, r).key, v) IN
  /\ Allowed(C)
  /\ TRUE \in Emptied \/ Cardinality(rows) > Cardinality(C)
  /\ TRUE \in Moving \/ ~ indexed \/ \A r \in Range(Matching(C)) : ~ Moves(r, v)
  /\ Becomes(FoldLeft(change, Table, Matching(C)), {<<x[1], IF x[1] \in C THEN v ELSE x[2]>> : x \in rows})

\* UPDATE ... SET key = k, of one row.
UpdateKey(r, k) ==
  /\ IsLive(file, r) /\ (k = At(file, r).key \/ \A x \in rows : x[1] # k)
  /\ TRUE \in Emptied \/ Cardinality(rows) > 1
  /\ TRUE \in Moving \/ ~ indexed
  /\ Becomes(UpdateRow(Table, r, k, At(file, r).val),
             {IF x[1] = At(file, r).key THEN <<k, x[2]>> ELSE x : x \in rows})

\* delete_by_key, with which an insert is undone.  It does not tell the indexes.
DeleteByKey(k) ==
  /\ ~ indexed /\ HasKey(file, k)
  /\ TRUE \in Emptied \/ Cardinality(rows) > 1
  /\ Becomes([Table EXCEPT !.f = [DeletedByKey(file, k) EXCEPT !.moved = FALSE]], {x \in rows : x[1] # k})

\* CREATE INDEX.
CreateIndex ==
  /\ ~ indexed /\ indexed' = TRUE
  /\ index' = Entries(file) /\ UNCHANGED <<file, rows, wrong>>

\* A frame of the pool is taken, or the database closed and opened again, where
\* the index is opened as it was written.
Pool ==
  /\ \/ \E p \in file.size..MaxPages : file.page[p] # <<>> /\ file' = Evicted(file, p)
     \/ file' = Reopened(file)
  /\ rows' = Rows(file') /\ wrong' = (rows' # rows)
  /\ UNCHANGED <<indexed, index>>

Init ==
  /\ \E fresh \in Fresh, stays \in Stays : file = NewFile(IF fresh THEN 0 ELSE 1, stays)
  /\ indexed \in BOOLEAN /\ index = NoEntries /\ rows = {} /\ wrong = FALSE

Next ==
  \/ \E k \in Key, v \in Val : Insert(k, v)
  \/ \E C \in SUBSET Key : DeleteWhere(C) \/ \E v \in Val : UpdateWhere(C, v)
  \/ \E r \in Range(Scan(file)), k \in Key : UpdateKey(r, k)
  \/ \E k \in Key : DeleteByKey(k)
  \/ CreateIndex
  \/ Pool

Spec == Init /\ [][Next]_vars

-----------------------------------------------------------------------------
(* Properties.                                                             *)

\* The header counts what the pages hold: the pages of the order are full up to
\* the dead, the overflow pages follow them, and the file ends there.
TypeOK ==
  file.n > 0 =>
    /\ file.size = file.np + file.nover /\ file.dirty = {}
    /\ \A p \in 1..file.np : file.page[p] # <<>>
    /\ file.n = Cardinality(rows)
    /\ file.n + file.ndel = FoldLeft(LAMBDA m, p : m + Len(file.page[p]), 0, [p \in 1..file.size |-> p - 1])

\* The links reach every live record of the file once, in the order of the keys,
\* wherever it lies: insert, delete and reorganise keep pages and links together.
ChainOrdered ==
  LET chain == Chain(file, file.first)
      scan  == LiveOf(file, chain)
      lies  == UNION {{p} \X (0..(Len(file.page[p]) - 1)) : p \in 0..(file.size - 1)}
  IN  /\ Len(chain) = Cardinality(Range(chain))
      /\ Range(scan) = {r \in lies : IsLive(file, r)}
      /\ \A i \in 1..(Len(scan) - 1) : At(file, scan[i]).key < At(file, scan[i + 1]).key

\* search, which starts from the ordered pages, finds the rows that a scan lists.
SearchMatchesScan ==
  \A k \in Key : {At(file, r).val : r \in Range(Search(file, k))} = {x[2] : x \in {y \in rows : y[1] = k}}

\* What the index answers, rebuilt first when the file was reorganised, is every
\* live row with the value at the place where it now is, and each once.
IndexExact ==
  indexed => (IF file.moved THEN Synced(Table).ix ELSE index) = Entries(file)

\* A statement changes the rows its condition holds for and no others, and
\* whatever the pool does changes none.
StatementExact == ~ wrong
=============================================================================
