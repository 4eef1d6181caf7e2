# chuta-db in TLA+

chuta-db is a small relational engine in Python: SQL parser and executor,
heap and sequential files, a buffer pool, B+ tree, hash, bitmap and R-tree
indexes, and a transaction layer made of a write-ahead log, a table lock
manager and a recovery step.  This directory holds TLA+ modules that model the
engine, TLC configurations that check them on small instances, and proofs.

The code is the reference: each definition is translated from the lines that
`PROJECT.json` gives for it under `map`.

## 1. The system

| Part | Source | State it keeps | Operations | Modelled in |
|---|---|---|---|---|
| Lock manager | `storage/lock_manager.py` | `_locks` (resource to `_LockEntry`), `_held_by_transaction`, one `Condition` | acquire, release, release_all, held_resources, snapshot | `LockManager` |
| Write-ahead log | `storage/log_manager.py` | append-only file, last LSN per transaction, torn-tail flag | append, force, read_all | `TransactionLog` |
| Transaction manager | `storage/transaction_manager.py` | next id, `Transaction` objects | begin, log_update, commit, rollback, close, reload | `TransactionLog` |
| Recovery | `storage/recovery_manager.py` | none | recover (redo, undo), checkpoint | `TransactionLog` (records), `RowRecovery` (rows), `Catalog` (tables, indexes) |
| Storage manager | `storage/storage_manager.py` | open tables, `current_transaction_id`, the managers | start, close, DDL, undo and redo handlers | `RowRecovery`, `Catalog`; start and close also in `TransactionLog` |
| Executor | `parser/executor.py` | per session: `transaction_id`, `session_id` | one `visit_*` per statement, locking, abort, choice of a plan | statements in `SequentialTable`, `RowRecovery`, `Catalog`; plans in `Planner`; locking and abort as callers in `LockManager` and `TransactionLog` |
| Buffer manager | `storage/buffer_manager.py` | frames, page table, clock hand | fetch, unpin, mark_dirty, flush, restore, close | `BufferManager` |
| File manager | `storage/file_manager.py` | one open file | read, write, allocate, truncate | as the files under `BufferManager` |
| Heap file | `storage/files/heap_file.py`, `pages/variable_page.py` | directory pages, slotted pages | insert, fetch, delete, update, scan, compact | `HeapFile`, `RowStore` |
| Sequential file | `storage/files/sequential_file.py`, `pages/fixed_page.py` | sorted linked records, overflow pages | insert, search, delete, reorganise | `SequentialFile`, `SequentialTable` |
| Table | `storage/table.py`, `constraints_manager.py` | data file, clustered and secondary indexes | insert, delete, update, delete_by_key | `SequentialTable`; rows in `RowRecovery`, indexes in `Catalog` |
| Catalog, index manager | `schema_catalog.py`, `index_manager.py` | catalog tables, open indexes | create, open, drop | `Catalog` |
| Indexes | `indexes/` | B+ trees, extendible hash, bitmap, R-tree | insert, delete, search, range, neighbours | `BPlusTree`, `ExtendibleHash`, `BitmapIndex`, `Bitmaps`, `RTree` over `RowIndex` |
| External sort and hash | `indexes/external_*.py` | run and partition files | sort, join, group | `ExternalSort`, `ExternalHash` |
| SQL front end | `parser/` | none | scan, parse, explain | not modelled |
| Web backend | `web/backend/main.py` | session dictionary | one thread per request | as callers only |

How they interact.  The web backend runs each request in a thread of a pool;
all of them share one `StorageManager` and therefore one lock manager, one log
and one buffer pool.  A session (`ExecuteVisitor`) locks tables through
`_table_locks` with a timeout of 5 seconds, logs a mutation and forces the log
before it touches a page, and releases its locks at the end of the statement
(autocommit) or after COMMIT or ROLLBACK.  The buffer and file managers log
physical changes through a callback into the transaction manager.  At start the
storage manager reads the log, redoes what was committed and rolls back what
was active; close rolls back what is active and writes a checkpoint.

What is hard here: threads that park on a lock entry which another thread
removes; the two critical sections of `rollback`; crashes and torn records at
any point of the log; failures of the disk or of an undo handler in the middle
of an operation; state shared by all sessions (`current_transaction_id`, the
unsynchronised buffer pool); pins that are not given back; index and table
updates that fail half way.  `PROJECT.json` lists them under `hazards`, each at
its line.

What makes each part correct:

* locks: incompatible modes are never held together, no lock is forgotten by
  release_all, no waiter sleeps through its turn, writers do not starve;
* log and transactions: what commit() acknowledged survives, no transaction is
  decided twice, ids are not reused, the log can always be reopened, a rollback
  undoes everything and backwards;
* recovery: the tables end with exactly the committed changes;
* buffer pool: a page is in one frame, a pinned frame is not evicted, no
  modified page is lost, a page is logged before it is written;
* files: a row stays where it was put, and a statement changes the rows its
  WHERE holds for and no other;
* indexes: an index finds what was inserted and not deleted, and a search finds
  what a scan lists;
* catalog: the tables are those created and not dropped, and an open table
  keeps up to date exactly the indexes that the catalog lists;
* queries: whatever indexes there are, the answer is that of a scan.

## 2. The modules

### LockManager, LockTable

`LockManager.tla` models `lock_manager.py` line by line of its control.  One
action is one critical section of the `Condition`'s lock.  `acquire` is
`AcquireAtOnce`, or `AcquirePark` followed by `WakeAndWait` any number of times
and then `WakeAndGrant` or `TimeOut`; `release_all` is a loop over `pc`:
`ReleaseAllList`, `ReleaseAllStep` (a `release`), `ReleaseAllCheck`.  Entries
are objects with an identity (`Entry`): `locks` maps a resource to an identity,
a parked thread keeps the identity it looked up (`req[th].entry`), and an
identity may be used again only when nobody refers to it (`Unreferenced`).
This is what makes the stale entries of `_cleanup` visible.  `notified` is the
set of parked threads that a `notify_all` has marked.  A thread with a timeout
may also wake because its time is up, at any moment.

`LockTable.tla` is the abstract specification: which modes each transaction has
on each resource, changed by `Take` and `Give`.  `ImplementsLockTable` maps the
dictionary to it (`Owners`, the information of `snapshot()`).

`MCLockManager.tla` gives TLC the threads and their transactions: one thread
each, or two requests of one web session that share a transaction id.

### TransactionLog, TransactionOutcome

`TransactionLog.tla` models the log, the transaction manager, the undo half of
recovery, and the sessions, the start and the close that call them.  `file` is
everything written to the log, its first `durable` elements are synced; an LSN
is the number of records before, so that the first record has LSN 0, as in the
code, where 0 also stands for "no previous record".  `append` is `Append1`
(chain check, torn tail cut off first, chain updated) and is not durable until
a force.  `commit` is two steps, `CommitAppend` and `CommitForce` or
`CommitFails`, with the manager's lock held between them (`rolling`); `rollback`
is `Collect` (first critical section), then `WriteAbort`, `UndoNext` once per
update, `RollbackEnd` (second), or `RollbackFails` when append refuses or the
undo handler raises.  `begin` and the append and force of ABORT are one step
each: their lock is held throughout, and a crash between append and force
leaves one of the two states that a crash just before or just after leaves.
`Crash` keeps the synced part and any part of the rest, perhaps with a torn
record at its end; `Open` is what a start reads back.

`trouble` says what else goes wrong in a behaviour: another thread of the same
session logs under a transaction that is rolled back ("threads"), or an fsync
raises ("disk").  The disk alone can refuse the force of a COMMIT, and the
threads alone can add to a chain that is collected, so the two are explored one
at a time; crashes happen under either.  `LogSound` collects the types and the
log's readability and chains, `DecidedOnce` that no transaction is decided
twice, no id used again, and that the chain check is what prevents it.

`TransactionOutcome.tla` is the abstract specification: a transaction is begun
once, decided at most once and for ever, and acknowledged only when committed.
`ImplementsOutcome` maps the forced part of the log to it: the outcome of a
transaction is what a restart would make of it now.

### BufferManager, PageStore

`BufferManager.tla` models the pool of `buffer_manager.py` over files of pages,
and what its callers do: `FetchHit`, `FetchMiss` and the two ways in which a
fetch raises, `Unpin`, `Change` (the caller writes into the `bytearray` of the
frame), `MarkDirty` and `MarkRaises` (the logger raises), `Allocate`,
`Truncate` and `Reinit` for files that grow, are cut off and are built again,
`CloseFile` and `CloseAll` for the two forms of `close`, and `Begin`, `Commit`,
`StartRollback`, `RestorePage`, `EndRollback` for the transaction that the
provider names.  The loop of `_find_victim` is the set `Rounds` of the rounds
in which it could stop; it stops at the first.  A page image is a number, and
`before` remembers for a page that was changed and not yet marked what it was.

A step is one call of the pool.  Calls of several threads interleave, the inside
of a call does not, although the code has no lock there.  A file is what
`write_page` has written: the buffer of the Python file object and crashes are
left out.  Files change their length only outside transactions here; inside one
the file manager logs it, which is in `RowRecovery`.  `FramesSound` says that
frames and table agree, holders are pinned and a victim is found; `ImagesSound`
that before-images are the images before, and nothing is written unlogged.

`PageStore.tla` is the abstract specification: files of pages that only a
change, a cut, or an undo alters.  `ImplementsPageStore` maps what a reader of
each page finds (`Seen`) to it.  Two places need `Unknown`, because the pool
itself does not settle them: a page that was just added, whose number an older
frame may still have, and a page to which an undo was applied on the file only.

`MCBufferManager.tla` has two files, with two pages and one.

### HeapFile, RowStore

`HeapFile.tla` models the heap file over its slotted pages.  Slots grow from the
front of a page and records from its end, dead slots are a list through their
own fields, `Defragmented` moves the live records together; directory pages
keep the free space of each data page and are chained.  `Insert` takes the
first page with room that the directory shows, as the loop of `insert` does, adds
a data page and a directory page when it must, and keeps the entry current; `Delete`, `Update` (in place, of
a record of the same size; of another size the code refuses it and the table
moves the row), `Compact` and `Reopen` follow.  Space is counted in units, a record has as many as `Size` says.

`RowStore.tla` is the abstract specification: rows at addresses, and a step that
puts, replaces or removes the row of one address.  `ImplementsRowStore` maps
what `fetch` finds to it: an insert that recycles a slot or moves records must
not touch another row.  `HeapSound` says that records never overlap, that the
list of dead slots and the directory are exact, that a file opened again is the
same, that a scan lists what fetches find, and what the next insert would do.

### SequentialFile, SequentialTable

`SequentialFile.tla` models the ordered file as operators on the file: pages in
key order as the last reorganisation left them, overflow pages, links through
the records, dead records, counters, the thresholds that trigger a
reorganisation, and the truncation that ends one.  Of the pool it keeps what can
be observed, the frames of truncated pages (`dirty`, `stays`).

`SequentialTable.tla` takes the steps: INSERT, DELETE and UPDATE of the executor
over a table with a secondary index that holds addresses.  A statement collects
its addresses by a scan and then uses them one at a time (`FoldLeft` over the
addresses), which is where a reorganisation may come between.  The index of
`b_plus_unclustered_sequential.py` is a bag of entries, rebuilt at its next use
after the file has moved its rows.  `wrong` remembers whether the last statement
left other rows than its WHERE asks for.

### ExtendibleHash, BPlusTree, BitmapIndex, Bitmaps, RTree, RowIndex

`RowIndex.tla` is what every index promises: a set of pairs of a key and a row,
to which an insert adds one and from which a deletion takes one, or all of a
key.  Each index implements it, `found` being what its searches find.

`ExtendibleHash.tla` has the directory whose entries name the first and the last
page of a bucket, the split of a bucket, the doubling of the directory, overflow
chains at `MaxDepth`, tombstones and their compaction.  `BPlusTree.tla` has both
trees of `b_tree_base.py`: of a primary key (unique keys; deletion with
borrowing and merging, which may lower the tree) and of another column (equal
keys, `delete_ref` along the leaves); pages have room in units, and keys one or
two widths.  `BitmapIndex.tla` has the data pages, spill chains, free list and
the directory in memory, with the ways in which a bitmap that grows moves;
`Bitmaps.tla` the compressed bitmaps themselves with add, discard, intersection,
union, difference and their encoding.  `RTree.tla` has ChooseLeaf, the quadratic split,
CondenseTree and the five searches, on a grid of integers with squared
distances.

### RowRecovery

What becomes of rows.  A change inside a transaction is in the log twice, as a
row by the executor and as a page by the pool, and both are undone and redone by
the handlers of `storage_manager.py`; a change outside of a transaction is not
in the log.  A table is one page of slots; the pool may evict it at any time
(`Evict`), the engine may `Crash` or `Reopen` at any time, and a start runs
`Recovered`: physical redo from the image that the file has, logical redo, and
the undo of what was open.  `good` is the history variable: the rows that the
statements which took effect left.

### Catalog

Tables and indexes as objects: rows of the catalog, files, the cache of open
tables, the index objects that an open table has attached, and the indexes that
the manager has open.  CREATE TABLE, DROP TABLE, INSERT and the first use of a table
run inside and outside of transactions, DELETE outside only, and of rows only that
the log has not got; `Rollback` runs the undo, `Restart` is a clean close and a start
with its redo.  There is one session, tables are USING HEAP, and there are no crashes.  `promised` is the history variable.  Six cases in which
the program loses a table or an index, or the next start raises, are in the actions,
each behind its name in the constant `Admitted`; sections 3 and 5 list them.  The managers' operations are
operators on a record of the state, so that undo and redo, which call them once for
each log record (`Undone`, `Recovered`), are part of one step as in the code.

### Planner, ExternalSort, ExternalHash

`Planner.tla` is the choice of a plan in `visit_select_stmt`: R-tree, bitmaps,
B+ tree, hash or scan for each condition, with what is looked at again after
it; ORDER BY along an index, by neighbours or with the sort; LIMIT.  Indexes
answer as their modules promise.  `Select` computes the answer of a query
against every set of indexes a table may have.

`ExternalSort.tla` models the sorter as a generator: `Take` fills runs of
`Budget` items, `StartMerge` and `Merge` hand out, and the consumer may stop
between any two (`Finish`).  `ExternalHash.tla` deals the items of both sides to
buckets, builds a dictionary for each and probes it, for every hash function.

### MCIndexes, MCFiles, MCEngine

Instances of the modules above (the external hash is with the indexes, the
sort with the engine).  They extend `ExternalHash`, `HeapFile`, and `Catalog` with
`ExternalSort`, whose proofs are about the very definitions that the runs check, and
instantiate the rest.  An initial state picks one part in `part`, and only that part
steps: the states of the parts add up and do not multiply.

### The modules of proofs

`LockManagerProofs`, `TransactionLogProofs`, `BufferManagerProofs`,
`HeapFileProofs`, `CatalogProofs`, `ExternalSortProofs` and `ExternalHashProofs` each
extend the module they are named after.  `DataLemmas` holds what several of them
need: a set of naturals with a bound has a greatest and a least element; induction
up to a bound, that a function defined by recursion over 0..n is what its recursion
says, and that its values stay in sets that each step leads into the next; and
sequences without repetition, what Append, Tail, concatenation and SetToSeq do to
their elements and how many they have.

## 3. What the runs check

| Run | Instance | Shows |
|---|---|---|
| `LockManager_three` | 3 threads and transactions, 1 resource, calls with and without timeout, 1 use | exact count of parked writers, attached writers, writer preference |
| `LockManager_tables` | 2 transactions, 2 resources, 2 uses on one and 1 on the other, 2 entries, fair | entries are not mixed up; a transaction holds what it owns, also on a second resource; every timed acquire returns, also of two mutual upgrades and of a cycle over both resources |
| `LockManager_session` | 2 threads of one transaction and a third of another, 1 resource, 2 uses | types, exclusion under reentrancy, upgrades and partial releases; no lost wake-up of a writer; `release_all` of one thread while the other acquires for the same transaction; refinement of `LockTable` |
| `TransactionLog_crash` | 2 transactions, 2 updates, 1 checkpoint; other threads, or a disk that fails | log readable, chains complete, commits durable, one decision, undo backwards and complete; refinement of `TransactionOutcome` |
| `BufferManager_pool` | 2 frames, 3 pages of 2 files, 2 changes, 2 fetches out, 1 transaction | frames, pins and images; refinement of `PageStore` |
| `Files_all` | heap: 5 pages, 2 entries a directory page, rows of two sizes; sequential: 4 keys, 2 values, 2 records a page, 7 records, with and without index | refinement of `RowStore`, free lists, directory, reopening, links and searches, index against scan, statements of one row |
| `Indexes_all` | hash: 3 keys, depth 1 to 3; bitmap: 3 keys, 4 rows, 4 pages; bitmaps over 2 heap pages with 3 rows; trees: 6 keys, leaves of 4 units, three levels; external hash: 4 items, 2 buckets, 3 keys, every hash function | refinement of `RowIndex` by all, shape of each structure, ranges in order, algebra of bitmaps, pairs and groups complete and once |
| `Engine_all` | rows: 2 tables, 2 keys, 2 values, 2 transactions, 6 log records; catalog: 2 tables, 2 rows, hash and bitmap, 3 log records, `Admitted` empty; planner: 5 rows, 42 sets of indexes, 919 queries, the column of the index numeric or not; sort: 5 items, runs of 2, two keys of equal value; R-tree: 10 points, 2 to 3 entries a node, 2 deletions | rows and tables after any rollbacks, crashes and starts, indexes that are kept up to date, answers equal to a scan's, sort complete and in order wherever the consumer stops, R-tree tight and its searches exact |
| `LockManager_x_alone` | 2 threads, 1 resource | finding 1 |
| `Files_x_statement` | as the sequential part of `Files_all`, statements of two rows | finding 2 |
| `Engine_x_start` | as the rows of `Engine_all`, with truncations in transactions | finding 3 |
| `Engine_x_rollback` | as the catalog of `Engine_all`, with "index in transaction" in `Admitted`, 2 log records | finding 4 |

Bounds.  `MaxUses` bounds the uses, of all modes together, that a transaction has on
each resource; two are enough for "count above one" and for an upgrade, and one for a
cycle of waits.  `Entry` has three identities, or two in the run with liveness: with two
resources and a reader parked on a removed entry it makes no third one then.  Three transactions are the
least for an owner, a parked writer and a newcomer at the same time, and two
resources the least to confuse entries.  `MaxTxn`, `MaxUpdates` and
`MaxCheckpoints` bound the log; two updates give an order of undo, two
transactions interleave, and crashes are not bounded at all: every state may
crash, also in the middle of the recovery after a crash.  Three pages are one
more than the frames, so that every fetch may evict; two fetches that are out
pin one page twice or both frames; `MaxLost` leaves one frame that the sweep can
use, and after a failed logging no more changes are made.

Five heap pages with two entries in a directory page need a second directory
page.  Four keys with two records a page and reorganisation from four records on
make sequential files of several ordered and overflow pages that are
reorganised again and again.  The hash keys h1 and h2 agree in two bits and
differ in the third, so that a split may leave one half empty, double the
directory twice and end in an overflow chain.  Six keys with leaves of four
units, at most two keys each, make B+ trees of three levels, which grow, borrow,
merge and shrink.  Six log records are three changes of rows; with two
transactions one of them is redone over the other.  In the catalog, three records are
a table that is created, its row and another table, in one transaction or in three;
the kinds of index are one that is built anew when its table is opened (hash) and one that
is only opened and may be created again after DROP TABLE (bitmap).  A B+ tree is opened like
the bitmap; that its file survives DROP TABLE matters with "index again" only.  The
proofs are for all kinds.
Ten points make an R-tree of three levels.  The planner's conditions have up to three predicates, all that a
plan treats apart.

Cases left out.  Where the code disagrees with its promise, a flag of the module
says whether the case may happen, so that the runs can check everything else;
section 5 says what the case is.  They are:
`Fresh`, `Emptied`, `Moving`, `MaxStatement` (sequential tables), `Overlap`,
`Mixed`, `Behind`, `Reused`, `DeleteLost`, `Truncating` (rows), the six names of
`Admitted` (catalog: "index in transaction", "index again", "table that is there",
"opened in transaction", "dropped while logged", "restored"), `Twins`, `Wide` (B+ trees), `Lost` (heap).
Allowing one in a configuration shows the case.

Symmetry is used for threads of one kind, and for the tables, keys, values and
rows that no operation compares; never in a run with a liveness property.
Deadlock is checked, except where an acquire without timeout may wait for ever
(`LockManager_three`), where all files may be closed and nothing is left to do
(`BufferManager_pool`), where a sort or a query ends (`Engine_all`), where a join
ends (`Indexes_all`), and in three of the runs that look for a violation.

Fairness.  `FairSpec` of `LockManager` assumes that a notified thread runs, that
a deadline that has passed is noticed (`Condition.wait(remaining)` returns), and
that a thread inside `release_all` goes on.  It does not assume that a caller
ever releases, nor that a thread wins against others: the code has no queue.
Nothing else in the engine waits, so no other module states fairness.

## 4. What is proved

Seven modules are proved about for every value of their constants.  Each proof has
an inductive invariant `IInv`, which was first checked with TLC on the bounds of a
run; a lemma for each action, or group of actions, that the action keeps it; and
the theorems that follow from it.  Assumptions on constants are `ASSUME`d in the
modules and evaluated by the runs; the theorems about the hash, the heap file
and the catalog have hypotheses of their own.

**Locks** (`LockManagerProofs`; threads are finitely many, `None` is nobody's name).
`IInv` is types, `Exclusion`, `References`, `WritersCounted`, `WriterAttached` and
`OwnedIsHeld`.  None of these is inductive alone: that a grant keeps exclusion
needs that the entry tested is the entry updated, that `_cleanup` never detaches a
writer needs that the writers are counted exactly, and counting needs that a reused
entry has no parked thread.  Each part is a theorem.  `WritersAreWoken`, that no
writer sleeps through its turn, is shown from `IInv`: a step opens the way for a
parked writer only if it takes an owner away, and then it notifies.
`ReleaseAllIsComplete` and `WritersGoFirst` are action properties, and
`LockManagerImplementsLockTable` shows that every step is a step of the abstract
table or leaves it alone.  The orphan entries are no obstacle: they are outside the
dictionary, and the table is what the dictionary shows.

**Log and transactions** (`TransactionLogProofs`; the bounds are numbers, at least
one transaction).  What an append does depends on what the process remembers, and
`Open` derives that memory from the log again; so `IInv` has a part for the file,
which a crash keeps because it only looks at records and at what is synced, and a
part for the memory, which `Open` restores.  The file's part is `LogOK`, that a
BEGIN is forced before its id is used, and that an acknowledged COMMIT is synced and
its transaction's last record.  The memory's part is that the dictionary of last
LSNs is that of the file, ids are below the counter, sessions and lock agree, and
for each active transaction what its object knows (`Object`): its last LSN is that
of the chain unless it has a COMMIT, and what is still to undo is older than what is
undone.  Theorems: `LogIsSound`, `CommitIsDurable`, `DecidedAtMostOnce`,
`UndoGoesBackwards`, `RollbackIsComplete` (an action property), and
`OutcomeIsImplemented`: the refinement of `TransactionOutcome`, crashes included.

**Pool** (`BufferManagerProofs`; finitely many files, each with room for a page, at
least one frame, and a name for "no key" that is no key).  `IInv` has a part for each
frame, that the table knows it or that it is clean, not pinned and its file closed,
and one for each page: its frame names it and has as many pins as there are holders;
a change that is not marked is made by a holder under the transaction that the provider still
answers; and whatever image the file or a frame has was logged if a transaction made
it.  The last needs that images are made once (`Earlier`) and that the records of
the log themselves lead back to logged images, because an undo writes these.
Theorems: `TypesHold`, `FramesAreSound` (which has the clock: two rounds find a victim
whenever a frame is not pinned, whatever the reference bits are), `ImagesAreSound`,
and `PageStoreIsImplemented`, the refinement of `PageStore`.

**Heap file** (`HeapFileProofs`).  `HeapIsSound` and `HeapIsRowStore` are everything
that the run checks of the file, for any size of pages, directories and records.
`IInv` is that the file is one (`FileOK`) and that `rows` is what fetch finds in it.
`FileOK` has `Pages`, that the numbers of data and directory pages are those below
the size and that their count is right; `Directory`, that the directory pages are
linked in the order in which memory has them, and the entry of each data page is its
free bytes; and `PageOK` of each page.  That is where the invariant is stronger than
`HeapSound`: records do not overlap and lie behind `offset`; some sequence without
repetition lists the dead slots in the order of their links (`Links`), which
`Recycled` shortens and `DeletedIn` lengthens at its head; and `offset` is at most
`Ends(slots)[Len(slots)]`, the place to which defragmenting would move it: without this a
defragmentation could write over the slots.  A page that is full by `HasSpace`
before and after is never reached, because the directory is exact (`FirstRoomy`).
`Ends`, `PageScan`, `Scan` and `Walk` are recursive functions; what they compute is
shown by induction over 0..n, from the well-foundedness of the finite subsets of an
interval (`BoundedInduction`, `RecursionExists`), which needs no theorem with an
operator for a parameter.  The hypothesis `TRUE \notin Lost` says that a restart reads
the page count it wrote; a crash that takes it back is the disagreement of section 5.
`HeapAssumption`: a record with its slot fits a page, which insert enforces by
`MAX_RECORD_SIZE`, and a directory page has at least two entries (it has 2044); with
one, a new directory page would leave no entry for the page it was added for.

**Catalog** (`CatalogProofs`).  `TablesAreKept` and `IndexesAreKept`, for any tables,
rows, kinds of index and length of the log.  `IInv` says of a state of the managers
that it is `Sound`: a table has a file exactly when the catalog has it; the file of an
index has the rows of its table also while the table is closed, because `open_table`
trusts it unless the index is a hash or an R-tree; and an index is open exactly when
its table is, because `load_indexes_for_table` attaches those only that the manager
has not got.  It says of the log (`LogOK`) what makes undo and redo of it harmless: the
tables and rows of its records are there, no record of a table is older than the
table, and none inserts a row twice.  So the last record can be undone and what is
left of the log is `LogOK` again (`UndoStep`), and redoing a record only opens its
table (`RedoStep`).  That the whole of `Undone` and `Recovered` then is as it should be
follows by `RecursionStays` of `DataLemmas`, a recursive function whose values stay in
given sets.  With `IInv` no CREATE TABLE is undone while the table has rows of a later
record, and `raised` is false.  `NoFileAssumption`: a file that is not there is not a set
of rows.  The hypothesis of both is `Admitted = {}`.  It leaves out the six cases of the catalog in
section 5; under each of them alone TLC finds one of the two properties violated, so
that none can be given up.  What the theorems say of the program is therefore
limited to histories without these cases, with clean starts: in particular, the pages
that a ROLLBACK or a start restores are still in the pool (not "restored"), and a hash
index or an R-tree is opened outside of transactions.

**Sort** (`ExternalSortProofs`).  `SortIsExact`: whenever the consumer stops, what it
has is the beginning of the sorted rows, and no row is lost or doubled.  `IInv` says
that each run is in order behind the one entry that the heap has of it, that buffer
and runs are apart, and that nothing that is left belongs before what is out.  Its
core is `LeastIsFirst`: nothing in the heap precedes the entry chosen, and nothing in
a file the file's entry.  `SortedItems` is shown to be a permutation in order
(`SortedItemsAre`): the places that it gives the items are an injection of 1..n into
itself, and so a bijection.  It rests on `EncodingAssumption`, that
the order of the bytes does not contradict that of the values, though several
encodings may have one value.  The code's encodings of INT, BOOL, FLOAT and strings
are made for that; the two zeros of a FLOAT have two encodings and one value, which
the assumption allows, and NaN, which has no place in any order, it excludes.

**Hash** (`ExternalHashProofs`).  `HashIsExact`: JOIN hands out every pair of rows with
equal keys once, GROUP BY every group once, for every hash function and number of
buckets.  `IInv` says where a row is: in the file of its bucket until the bucket is at
work, then in the dictionary under its value, then nowhere; and that what is handed
out is what the rows that are done give.  That no pair is missed needs that equal keys
go to one bucket, the hypothesis `OneEncoding` of the theorem: equal values have one
code, since the buckets are of bytes and the dictionary of values.  It holds of the
keys of one column type but for the two zeros of a FLOAT, and of INT with FLOAT it
does not: section 5.

Only model-checked, and why:

* liveness (`AcquireReturns`): the prover does not reason about ENABLED;
* the sequential file with its table, the indexes, the recovery of rows and the
  plans.  Much of them is folds over sequences and sets; `FoldLeft` and `FoldSet` take an operator as a parameter, about which no fact can be cited here,
  and the recursive functions among them each need an argument of their own, as for
  the heap file and the catalog.  Their properties, the refinements of `RowIndex`
  among them, are checked on the bounded instances instead.

## 5. Disagreements

Places where the code does something else than a document or comment of the
repository says, or than its own parts rely on.  Four have a run that shows
them.

1. `lock_manager.py:239` removes the entry of a resource when its last owner
   leaves although readers are parked on it.  Such a reader is later granted
   SHARED on the removed object while another transaction takes EXCLUSIVE on a
   new one (`LockManager_x_alone`); its release raises, and its release_all
   loops for ever.
2. `executor.py:325`: DELETE and UPDATE collect the addresses of their rows
   first; on a sequential table the first deletion may reorganise the file, and
   the other addresses are then dead or another row's (`Files_x_statement`).
3. `storage_manager.py:264`: the record of a truncation is taken for a page at
   redo, and the start raises (`Engine_x_start`).  Truncations are what a new index, a
   rebuilt one, or the reorganisation of a sequential file leaves in a transaction.
4. `index_manager.py:364`: the undo of CREATE INDEX leaves the closed index
   attached to its open table (`Engine_x_rollback`).

Locks and transactions, stated in the modules and not run:

* `lock_manager.py:132`: a writer that times out lowers `waiting_writers`
  without notifying; readers that waited only for it sleep on (`ReaderWoken`).
* `transaction_manager.py:71`: ABORT is forced before the undo, and a restart
  takes ABORT as done (`RecoveryComplete`).
* `transaction_manager.py:160`: an update logged between the two critical
  sections of rollback is not undone (`RollbackComplete` excepts it).
* `transaction_manager.py:131`: after a failed force of COMMIT the transaction
  can neither be aborted nor closed.  One whose BEGIN has LSN 0 can: the chain
  check takes its last LSN for "none", and it gets an ABORT after its COMMIT
  (`DecidedOnce` excepts it).
* `transaction_manager.py:170`: a rollback tried again after a failure undoes and
  logs every change again; `UndoBackwards` is stated per attempt.

Pool:

* `storage_manager.py:143`: `restore_page` is called with a new `FileManager`, so
  that the frame of the table's own one keeps the undone change
  (`RestoreIsSeen`).
* `sequential_file.py:555` closes the files of every table when one sequential
  table is closed, although `src/markdown/BUFFER_POOL.md:87` says that all its
  calls pass `self.file_manager` (`CloseAll`).
* a fetch that raises in `read_page` leaves a frame without an entry in the
  table (`FetchRaises`), at which the sweep stops again and again
  (`FetchKeyError`).
* `heap_file.py:229`: an update that does not fit returns without unpinning.

Files and tables:

* `sequential_file.py:313`: page 0 of a new file exists in the pool only, so the
  first allocate_page returns 0 once more and the page is reset: the 11th insert
  of rows of 400 bytes loses the first ten (`Fresh`).
* `sequential_file.py:478`: a reorganisation without live rows keeps the count of
  ordered pages and the contents of page 1, and later inserts are lost
  (`Emptied`).
* `table.py:183`: an update of a table with a secondary index that reorganises
  the file leaves an entry too many in the rebuilt index (`Moving`).
* `table.py:226`: delete_by_key, with which the undo of an insert works, does not
  touch the secondary indexes of sequential and clustered tables.
* a heap file whose `page_count` a crash took back no longer finds its last pages,
  and gives its next page a number that it does not count (`Lost`).

Rows and recovery:

* `storage_manager.py:146`: a rollback undoes a DELETE twice, as a page and as a
  row; when the page had left the pool, the row is already there and its
  restoration raises (`DeleteLost`).
* `storage_manager.py:209`: redo of an update is skipped when the key is there,
  and made when it is not, also when a later record deleted it (`Reused`).
* `storage_manager.py:289`: pages are redone only from an image that the log
  has; an update committed over unlogged changes that never reached the file is
  lost (`Behind`).
* a row that a statement outside of transactions deleted comes back at the next
  start when the log has its insert (`Mixed`), and such a statement is rolled
  back with the transaction of another session (`Overlap`).

Catalog.  Each of the first six is a name in `Admitted`, and breaks `TablesAsPromised`
or `IndexesCurrent` when it is there:

* "index in transaction": number 4 above; and the truncation that a new index file
  logs is number 3 after COMMIT.
* "table that is there": `executor.py:184` logs CREATE TABLE before
  `storage_manager.py:365` looks whether the table exists.  In a transaction the error
  aborts, and the undo drops the table that was there, with its rows.
* "opened in transaction": `index_manager.py:176` truncates the file of a hash index
  when its table is opened, and `r_tree_base.py:38` that of an R-tree.  Inside a
  transaction that is logged, and after COMMIT the next start raises as in number 3.
* "index again": CREATE INDEX does not look for an index of its name
  (`index_manager.py:67`, `:123`).  The catalog then has two rows and the table two
  objects.  A B+ tree adds the rows to the older file once more, or raises when no page
  of that file was written (`b_tree_key_codec.py:42`; not modelled); the two objects
  of a hash index have frames of their own for the same pages, and agree as long as
  these stay in the pool; a bitmap and an R-tree begin a new file.  In a transaction
  the abort drops the index that was there.  After DROP TABLE the same happens to an
  index of an old name: its file and its open object survive.
* "dropped while logged": DROP TABLE is not logged, so the next start brings a logged table
  back or raises (`src/markdown/MEJORAS_PENDIENTES.md:23` lists it as missing).
* "restored": `storage_manager.py:138` restores pages of index files behind a header
  of 24 bytes, whatever header they have, and `:155` undoes an allocation by cutting
  the file off while the heap or the catalog goes on counting the page.  As long as the
  pages are in the pool nobody sees it.  When they have left it, a ROLLBACK of an INSERT
  leaves a B+ tree that finds nothing, a hash index on which a search does not end,
  or a table whose next use raises.  A start redoes index pages behind the same
  header (`:261`); their images hardly ever match there, but the header of a bitmap
  may be put back to an older one.
* `storage_manager.py:410`: a crash with a CREATE TABLE in an open transaction leaves
  its record in the log, but perhaps no row in the catalog; the undo raises KeyError at
  every start.  The catalog here has no crashes.

Indexes:

* equal separators of a B+ tree: a later split may put its half on the wrong side
  of its twin (`Twins`; `TreeInsertKept`), and keys of two widths may not fit
  after a split, whose result is not looked at (`Wide`).
* a bitmap that grows within a full page is written over the slots
  (`BitmapNoOverrun`); the run ends there.
* `b_tree_key_codec.py:40`: FALSE is decoded as TRUE, so `WHERE b = FALSE` over
  a B+ tree finds nothing, although `executor.py:897` says that the index answers
  exactly.  The codec is a constant of `BPlusTree`, the identity in the runs.
* the least distance to a rectangle is planar while distances are on the sphere,
  so neighbours may come in the wrong order.  The R-tree here is planar.

Queries, outside of what `Planner` asks: ORDER BY a POINT column with an R-tree
raises AttributeError (`executor.py:1822`); a JOIN of INT with FLOAT is empty and
GROUP BY tells -0.0 from 0.0, since the hash is of bytes; a search in a hash
index of integers with a float literal raises.

## 6. Not modelled

* The SQL text front end: scanning and parsing are sequential and keep nothing
  but a position.
* Byte layouts of records, keys and pages: room is counted in units, an encoding
  is an order or a constant; CRCs are "complete or torn".
* Distances in real arithmetic, murmurhash3, the web frontend, the benchmarks.
* The inside of one call of the buffer pool, whose callers have no common lock:
  two misses may take one victim there (`buffer_manager.py:111`).
* Tables USING HEAP and CLUSTERED as a whole: the rows, files and indexes of them
  are modelled each on its own.

## 7. Plan

1. Done: locks, log, pool, files, indexes, recovery of rows, catalog, plans, sort
   and hash, each checked; the locks, the log with the transactions, the pool, the heap
   file, the catalog, the sort and the hash proved.
2. Proofs that are left: the partition of pages of `BitmapIndex`, the buckets of
   `ExtendibleHash`, the rows of `RowRecovery`.
3. Composition: heap pages with the pins of the pool; statements with table locks
   and the one `current_transaction_id`, over the abstract specifications.
4. fetch_page in smaller steps, for threads.
