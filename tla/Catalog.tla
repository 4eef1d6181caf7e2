------------------------------ MODULE Catalog -------------------------------
(***************************************************************************)
(* Tables and indexes as objects: the rows of the system catalog           *)
(* (src/storage/schema_catalog.py), the files, the open tables and indexes *)
(* (storage_manager.py, index_manager.py) and CREATE TABLE, CREATE INDEX   *)
(* and DROP TABLE (src/parser/executor.py), inside and outside of          *)
(* transactions, with rollback, closing and starting.                      *)
(*                                                                         *)
(* A table is a heap file and has one column that is indexed, an index is  *)
(* its table and its kind.  Indexes of sequential tables are left to       *)
(* SequentialTable, crashes to RowRecovery.  The cases in which the        *)
(* program is known to go wrong are in the actions, each behind its name   *)
(* in Admitted.                                                            *)
(***************************************************************************)
EXTENDS Integers, Sequences, FiniteSets, SequencesExt

CONSTANTS
  Table, Tuple, NoFile,
  Kind,        \* among "unclustered", "hash", "bitmap", "rtree"
  MaxLog,      \* bound: records in the log
  Admitted     \* bound: the cases among these that are explored

Case == {"index in transaction",    \* CREATE INDEX in a transaction
         "index again",             \* CREATE INDEX over an older object or file of its name
         "table that is there",     \* CREATE TABLE of an existing table in a transaction
         "opened in transaction",   \* the first use of a table with a hash index or R-tree
         "dropped while logged",    \* DROP TABLE of a table that the log has
         "restored"}                \* physical undo or redo of pages that left the pool

ASSUME AdmittedAssumption == Admitted \subseteq Case

\* A file that is not there is not one without rows.
ASSUME NoFileAssumption == \A file \in SUBSET Tuple : file # NoFile

VARIABLES
  sys_tables, sys_indexes,   \* the catalog
  dat,           \* the rows of each table's file, or NoFile
  idx,           \* the entries in each index file: how often each row, or NoFile
  tables,        \* open tables
  attached,      \* the index objects of each open table: [index, alive]
  open_indexes,  \* indexes that the manager has open
  log,           \* what committed transactions did and then what the open one did
  current,       \* the open transaction: where its records begin, or 0
  raised,        \* a statement or the start raised
  promised       \* tables as the statements that took effect left them

vars == <<sys_tables, sys_indexes, dat, idx, tables, attached, open_indexes, log, current, raised, promised>>

Index    == [table : Table, kind : Kind]
Of(t, s) == {i \in s : i.table = t}
Heap(t)  == [table |-> t, kind |-> "heap"]

Once(rows)    == [r \in Tuple |-> IF r \in rows THEN 1 ELSE 0]
Plus(b, rows) == [r \in Tuple |-> b[r] + IF r \in rows THEN 1 ELSE 0]
Less(b, rows) == [r \in Tuple |-> b[r] - IF r \in rows /\ b[r] > 0 THEN 1 ELSE 0]

-----------------------------------------------------------------------------
(* The operations of the managers take the state                           *)
(* [tabs, idxs, dat, idx, open, att, dict, ok] and give it back.           *)

State == [tabs |-> sys_tables, idxs |-> sys_indexes, dat |-> dat, idx |-> idx, open |-> tables,
          att |-> attached, dict |-> open_indexes, ok |-> TRUE]
Raise(s) == [s EXCEPT !.ok = FALSE]

\* load_indexes_for_table: a hash index and an R-tree are built anew.
Loaded(s, t, is) ==
  [i \in Index |-> IF i \in is /\ i.kind \in {"hash", "rtree"} THEN Once(s.dat[t]) ELSE s.idx[i]]
Rebuilt(s, t) ==
  IF t \in s.open THEN {} ELSE {i \in Of(t, s.idxs) \ s.dict : i.kind \in {"hash", "rtree"}}

\* open_table.
Opened(s, t) ==
  LET found == Of(t, s.idxs) \ s.dict IN
  IF t \in s.open THEN s ELSE IF t \notin s.tabs THEN Raise(s)
  ELSE [s EXCEPT !.dat[t] = IF @ = NoFile THEN {} ELSE @, !.idx = Loaded(s, t, found),
                 !.open = @ \cup {t}, !.dict = @ \cup found,
                 !.att[t] = {[index |-> i, alive |-> TRUE] : i \in found}]

Created(s, t) == IF t \in s.tabs THEN Raise(s) ELSE Opened([s EXCEPT !.tabs = @ \cup {t}], t)

\* Mutant of Dropped: the indexes of the table stay in the catalog.
DroppedKeepsIndexes(s, t) ==
  IF t \notin s.tabs THEN Raise(s)
  ELSE [s EXCEPT !.tabs = @ \ {t}, !.open = @ \ {t}, !.att[t] = {}, !.dat[t] = NoFile]

\* drop_table: the open indexes stay, and so do their files.  Of these, only that of
\* a B+ tree is ever read before it is written.
Dropped(s, t) ==
  IF t \notin s.tabs THEN Raise(s)
  ELSE [s EXCEPT !.tabs = @ \ {t}, !.idxs = @ \ Of(t, @), !.open = @ \ {t}, !.att[t] = {}, !.dat[t] = NoFile,
                 !.idx = [i \in Index |-> IF i.table = t /\ i.kind # "unclustered" THEN NoFile ELSE @[i]]]

\* What a new index meets of an older one: a B+ tree its file, a hash index an object
\* with pages of its own for the same file.  A bitmap and an R-tree begin a new file.
InTheWay(s, i) ==
  \/ i.kind = "unclustered" /\ s.idx[i] # NoFile
  \/ i.kind = "hash" /\ i \in s.dict

\* create_unclustered_index adds to the file that is there, the others begin anew.
Built(s, i) ==
  LET rows == s.dat[i.table]
      kept == i.kind = "unclustered" /\ s.idx[i] # NoFile
  IN  [s EXCEPT !.idxs = @ \cup {i}, !.dict = @ \cup {i},
                !.idx[i] = IF kept THEN Plus(@, rows) ELSE Once(rows),
                !.att[i.table] = @ \cup {[index |-> i, alive |-> TRUE]}]

\* drop_index closes the object, which stays with its table.
IndexDropped(s, i) ==
  [s EXCEPT !.idxs = @ \ {i}, !.dict = @ \ {i}, !.idx[i] = NoFile,
            !.att[i.table] = {[o EXCEPT !.alive = @ /\ o.index # i] : o \in @}]

\* insert and delete_by_key of a table: the row, then each of its indexes.
Visited(s, t, op, r) ==
  LET change(b) == IF op = "insert" THEN Plus(b, {r}) ELSE Less(b, {r}) IN
  IF \E o \in s.att[t] : ~ o.alive THEN Raise(s)
  ELSE [s EXCEPT !.idx = [i \in Index |-> IF \E o \in s.att[t] : o.index = i THEN change(s.idx[i]) ELSE s.idx[i]]]
RowInserted(s, t, r) ==
  IF ~ s.ok \/ r \in s.dat[t] THEN s
  ELSE Visited([s EXCEPT !.dat[t] = @ \cup {r}], t, "insert", r)
RowDeleted(s, t, r) ==
  IF ~ s.ok \/ r \notin s.dat[t] THEN s
  ELSE Visited([s EXCEPT !.dat[t] = @ \ {r}], t, "delete", r)

\* Index files whose pages fit neither each other nor the header: what searches the
\* index may raise, find nothing or not end.
Damaged(s, is) ==
  IF is = {} THEN s ELSE
  [s EXCEPT !.idx = [i \in Index |-> IF i \in is /\ s.idx[i] # NoFile THEN Once({}) ELSE s.idx[i]],
            !.att = [t \in Table |-> {[o EXCEPT !.alive = @ /\ o.index \notin is] : o \in s.att[t]}]]

\* _undo_record, and _undo_log_record.
UndoRecord(s, r) ==
  CASE ~ s.ok                     -> s
    [] r.op = "ddl_create_table"  -> Dropped(s, r.table)
    [] r.op = "ddl_create_index"  -> IndexDropped(s, r.what)
    [] r.op = "table_insert"      -> RowDeleted(Opened(s, r.table), r.table, r.what)
    [] r.op = "truncate"          -> s

\* Mutant of Undone: the records in the order in which they were written.
UndoneForward(s, lg) == FoldLeft(UndoRecord, s, SubSeq(lg, current, Len(lg)))

\* From the last record of the transaction back to its first.
Undone(s, lg) ==
  LET last == Len(lg)
      undone[n \in 0..(last - current + 1)] ==
        IF n = 0 THEN s ELSE UndoRecord(undone[n - 1], lg[last - n + 1])
  IN  undone[last - current + 1]

\* _undo_physical_record is not seen while the pages are in the pool.  Of those that left
\* it, an index page comes back behind a header of 24 bytes, which is not that of the
\* file, and a file is cut off where the transaction allocated a page, while the heap
\* or the catalog counts on it.
Restored(s, gone) == IF \E f \in gone : f.kind = "heap" THEN Raise(s) ELSE Damaged(s, gone)

\* The files whose pages a record stands for; those of the catalog count as the table's.
Pages(s, r) ==
  CASE r.op = "ddl_create_table"  -> {Heap(r.table)}
    [] r.op = "ddl_create_index"  -> {r.what}
    [] r.op = "table_insert"      -> {Heap(r.table)} \cup Of(r.table, s.idxs)
    [] r.op = "truncate"          -> r.what

\* What the pool may have lost of the pages of the records from the n-th on.
Gone(s, lg, n) ==
  IF "restored" \in Admitted THEN SUBSET UNION {Pages(s, lg[k]) : k \in n..Len(lg)} ELSE {{}}

\* _redo_log_record.
RedoRecord(s, r) ==
  CASE ~ s.ok                     -> s
    [] r.op = "ddl_create_table"  -> IF r.table \in s.tabs THEN s ELSE Created(s, r.table)
    [] r.op = "ddl_create_index"  -> IF r.what \in s.dict THEN s ELSE Built(Opened(s, r.table), r.what)
    [] r.op = "table_insert"      -> RowInserted(Opened(s, r.table), r.table, r.what)

\* The pages come before the records: those of a file that is not there raise, and
\* so does a truncation.
PagesRaise(s, r) == r.op = "truncate" \/ (r.op = "table_insert" /\ s.dat[r.table] = NoFile)

Recovered(s) ==
  LET redone[n \in 0..Len(log)] == IF n = 0 THEN s ELSE RedoRecord(redone[n - 1], log[n])
  IN  IF \E i \in DOMAIN log : PagesRaise(s, log[i]) THEN Raise(s) ELSE redone[Len(log)]

Become(s) ==
  /\ sys_tables' = s.tabs /\ sys_indexes' = s.idxs /\ dat' = s.dat /\ idx' = s.idx
  /\ tables' = s.open /\ attached' = s.att /\ open_indexes' = s.dict /\ raised' = ~ s.ok

-----------------------------------------------------------------------------
(* Statements.                                                             *)

Record(op, t, what) == [op |-> op, table |-> t, what |-> what]
Logged(records) == log' = IF current = 0 THEN log ELSE log \o records
Room == current = 0 \/ Len(log) < MaxLog

\* An index that opening the table builds anew truncates its file first, and in a
\* transaction that is logged.
Opening(t) ==
  LET is == Rebuilt(State, t) IN IF is = {} THEN <<>> ELSE <<Record("truncate", t, is)>>
Openable(t) == current = 0 \/ Opening(t) = <<>> \/ "opened in transaction" \in Admitted

\* ROLLBACK, and the handler of ejecutar.  Nothing reads the records of a transaction
\* that was undone again.
RolledBack(lg) ==
  /\ \E gone \in Gone(State, lg, current) : Become(Restored(Undone(State, lg), gone))
  /\ current' = 0 /\ log' = SubSeq(log, 1, current - 1)
  /\ UNCHANGED promised

\* CREATE TABLE is logged before create_table looks whether the table is there: in a
\* transaction that raises, and the undo drops the table.  Outside of one it raises and
\* changes nothing.
CreateTable(t) ==
  LET record == Record("ddl_create_table", t, t) IN
  /\ t \in sys_tables => current # 0 /\ "table that is there" \in Admitted
  /\ Room
  /\ IF t \in sys_tables THEN RolledBack(Append(log, record))
     ELSE /\ Logged(<<record>>) /\ Become(Created(State, t))
          /\ promised' = IF current = 0 THEN promised \cup {t} ELSE promised
          /\ UNCHANGED current

\* DROP TABLE is not logged, and takes effect at once.
DropTable(t) ==
  /\ t \in sys_tables
  /\ "dropped while logged" \in Admitted \/ \A i \in DOMAIN log : log[i].table # t
  /\ Become(Dropped(State, t)) /\ promised' = promised \ {t}
  /\ UNCHANGED <<log, current>>

\* CREATE INDEX does not look for one of its name.  A new file is truncated, which a
\* transaction logs; two objects with pages for one file may overwrite each other's.
\* A B+ tree whose older file has no page written raises instead; that is left out.
CreateIndex(i) ==
  LET s == Opened(State, i.table) IN
  /\ i.table \in sys_tables /\ Room /\ Openable(i.table)
  /\ current = 0 \/ "index in transaction" \in Admitted
  /\ InTheWay(s, i) => "index again" \in Admitted
  /\ Logged(Opening(i.table) \o <<Record("ddl_create_index", i.table, i)>> \o
            IF InTheWay(s, i) /\ i.kind = "unclustered" THEN <<>> ELSE <<Record("truncate", i.table, {i})>>)
  /\ \E mixed \in SUBSET {j \in {i} : InTheWay(s, j) /\ j.kind = "hash"} : Become(Damaged(Built(s, i), mixed))
  /\ UNCHANGED <<current, promised>>

Insert(t, r) ==
  LET s == Opened(State, t) IN
  /\ t \in sys_tables /\ Room /\ Openable(t)
  /\ r \notin s.dat[t] /\ Become(RowInserted(s, t, r))
  /\ Logged(Append(Opening(t), Record("table_insert", t, r)))
  /\ UNCHANGED <<current, promised>>

\* A row that the log has is not deleted here; RowRecovery has these.
Delete(t, r) ==
  /\ t \in sys_tables /\ current = 0
  /\ ~ \E i \in DOMAIN log : log[i].op = "table_insert" /\ log[i].table = t /\ log[i].what = r
  /\ LET s == Opened(State, t) IN
       r \in s.dat[t] /\ Become(RowDeleted(s, t, r))
  /\ UNCHANGED <<log, current, promised>>

\* Any other statement opens its table.
Use(t) ==
  /\ t \in sys_tables \ tables /\ Openable(t)
  /\ Become(Opened(State, t)) /\ Logged(Opening(t))
  /\ UNCHANGED <<current, promised>>

Begin ==
  /\ current = 0 /\ current' = Len(log) + 1
  /\ UNCHANGED <<sys_tables, sys_indexes, dat, idx, tables, attached, open_indexes, log, raised, promised>>

Commit ==
  /\ current # 0 /\ current' = 0
  /\ promised' = promised \cup {log[i].table : i \in {j \in current..Len(log) : log[j].op = "ddl_create_table"}}
  /\ UNCHANGED <<sys_tables, sys_indexes, dat, idx, tables, attached, open_indexes, log, raised>>

Rollback == current # 0 /\ RolledBack(log)

\* close, with no transaction open, and the next start.  Of the index pages that it redoes,
\* only the header of a bitmap ever matches what the log has of it.
Restart ==
  /\ current = 0
  /\ \E gone \in Gone(State, log, 1) :
       LET closed == [State EXCEPT !.open = {}, !.att = [t \in Table |-> {}], !.dict = {}] IN
       Become(Recovered(Damaged(closed, {f \in gone : f.kind = "bitmap"})))
  /\ UNCHANGED <<log, current, promised>>

Init ==
  /\ sys_tables = {} /\ sys_indexes = {} /\ dat = [t \in Table |-> NoFile] /\ idx = [i \in Index |-> NoFile]
  /\ tables = {} /\ attached = [t \in Table |-> {}] /\ open_indexes = {}
  /\ log = <<>> /\ current = 0 /\ raised = FALSE /\ promised = {}

\* What follows an operation that raised is not explored.
Next ==
  /\ ~ raised
  /\ \/ Begin \/ Commit \/ Rollback \/ Restart
     \/ \E t \in Table : CreateTable(t) \/ DropTable(t) \/ Use(t)
     \/ \E i \in Index : CreateIndex(i)
     \/ \E t \in Table, r \in Tuple : Insert(t, r) \/ Delete(t, r)

Spec == Init /\ [][Next]_vars

-----------------------------------------------------------------------------
(* Properties.                                                             *)

\* While no transaction is open, the tables are those that committed and single
\* statements created and nobody dropped, each with its file, and the catalog has
\* indexes of these only: after rollbacks and any number of starts, none of which
\* raises.
TablesAsPromised ==
  /\ ~ raised
  /\ current = 0 => sys_tables = promised
  /\ \A t \in Table : t \in sys_tables <=> dat[t] # NoFile
  /\ \A i \in sys_indexes : i.table \in sys_tables

\* An open table keeps up to date exactly the indexes that the catalog lists for it:
\* each is open, and has every row once and nothing else.
IndexesCurrent ==
  \A t \in tables :
    /\ {o.index : o \in attached[t]} = Of(t, sys_indexes)
    /\ \A o \in attached[t] : o.alive /\ o.index \in open_indexes /\ idx[o.index] = Once(dat[t])
=============================================================================
