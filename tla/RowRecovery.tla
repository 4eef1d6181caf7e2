---------------------------- MODULE RowRecovery -----------------------------
(***************************************************************************)
(* What becomes of rows: the changes of a transaction are in the log twice, *)
(* as rows (the mutation logger of src/parser/executor.py) and as pages    *)
(* (mark_dirty of the buffer pool), and src/storage/storage_manager.py     *)
(* undoes and redoes both.  Statements outside of a transaction are not in *)
(* the log.  TransactionLog has the records, here are their handlers.      *)
(*                                                                         *)
(* A table has one page of slots <<key, value>>: a new row takes a new slot, *)
(* a deleted row leaves a dead one.                                        *)
(***************************************************************************)
EXTENDS Integers, Sequences, FiniteSets, SequencesExt, FiniteSetsExt

CONSTANTS
  Table, Key, Val,
  MaxTxn, MaxLog,  \* bounds: transactions, and records of the log
  MaxSlots,        \* bound: slots of a page; each start may add some
  MaxAuto,         \* bound: statements outside of transactions
  Overlap,         \* bound: whether they may run while a transaction is open
  Mixed,           \* bound: whether they may change keys that the log has
  DeleteLost,      \* bound: whether a page may leave the pool that an open
                   \* transaction has deleted a row from
  Behind,          \* bound: whether a transaction may update or delete rows of a
                   \* page with unlogged changes that are not in the file
  Reused,          \* bound: whether a row may be updated after the log has a
                   \* delete of its key
  Truncating       \* bound: whether a change in a transaction may cut its file off

VARIABLES
  disk,     \* the page of each table in its file
  frame,    \* the page in the pool, if it is there
  held,     \* tables with a page in the pool
  dirty,    \* tables with a frame to be written
  log,      \* the UPDATE records
  status,   \* of each transaction in the log
  current,  \* the open transaction, or 0
  autos,    \* statements outside of transactions so far
  raised,   \* whether an undo or a start has raised an exception
  good,     \* the rows as the statements that took effect left them
  soft,     \* tables with changes of statements on their own that are not in the file
  behind    \* tables with these or with changes of a rollback that are not

pages == <<disk, frame, held, dirty>>
vars  == <<pages, log, status, current, autos, raised, good, soft, behind>>

Dead == "dead"
Txn  == 1..MaxTxn
Free == <<>>

Has(pg, k)   == \E v \in Val : <<k, v>> \in ToSet(pg)
Value(pg, k) == CHOOSE v \in Val : <<k, v>> \in ToSet(pg)
RowsOf(pg)   == {s \in ToSet(pg) : s[2] # Dead}

-----------------------------------------------------------------------------
(* The handlers take the pages [disk, frame, held, dirty, ok] and give them  *)
(* back.                                                                   *)

Pages      == [disk |-> disk, frame |-> frame, held |-> held, dirty |-> dirty, ok |-> TRUE]
Seen(s, t) == IF t \in s.held THEN s.frame[t] ELSE s.disk[t]
Put(s, t, pg) == [s EXCEPT !.frame[t] = pg, !.held = @ \cup {t}, !.dirty = @ \cup {t}]
Set(s, t, k, v) ==
  LET pg == Seen(s, t) IN Put(s, t, [i \in DOMAIN pg |-> IF pg[i] = <<k, Value(pg, k)>> THEN <<k, v>> ELSE pg[i]])

\* insert, whose primary key constraint may not hold; delete_by_key; update.
InsertRow(s, t, k, v) ==
  IF Has(Seen(s, t), k) THEN [s EXCEPT !.ok = FALSE] ELSE Put(s, t, Append(Seen(s, t), <<k, v>>))
DeleteKey(s, t, k)    == IF Has(Seen(s, t), k) THEN Set(s, t, k, Dead) ELSE s
UpdateRow(s, t, k, v) == IF Has(Seen(s, t), k) THEN Set(s, t, k, v) ELSE InsertRow(DeleteKey(s, t, k), t, k, v)

\* Mutant of UndoRecord: a page is restored in the pool, too, and the logical
\* record not undone once more.
UndoRecordOfPagesOnly(s, r) ==
  IF s.ok /\ r.op = "page" THEN [s EXCEPT !.disk[r.table] = r.before] ELSE s

\* _undo_log_record, and _undo_record of the executor.  The file manager with
\* which a page is restored is a new one, so the pool does not know the page.
\* A truncated file gets its size back, which no page depends on here.
UndoRecord(s, r) ==
  CASE ~ s.ok           -> s
    [] r.op = "page"    -> [s EXCEPT !.disk[r.table] = r.before]
    [] r.op = "cut"     -> s
    [] r.op = "insert"  -> DeleteKey(s, r.table, r.key)
    [] r.op = "delete"  -> InsertRow(s, r.table, r.key, r.before)
    [] r.op = "update"  -> UpdateRow(s, r.table, r.key, r.before)

\* rollback.
Undone(s, t) == FoldLeft(UndoRecord, s, Reverse(SelectSeq(log, LAMBDA r : r.txn = t)))

\* _redo_physical_pages: the images of a page, from the one the file has.
RedoPages(s, t) ==
  LET images == SelectSeq(log, LAMBDA r : r.op = "page" /\ r.table = t /\ status[r.txn] = "committed")
      now    == s.disk[t]
      before == {i \in DOMAIN images : images[i].before = now /\ images[i].after # now}
      after  == {i \in DOMAIN images : images[i].after = now}
      start  == IF before # {} THEN Min(before) ELSE IF after # {} THEN Max(after) + 1 ELSE Len(images) + 1
  IN  IF start > Len(images) THEN s ELSE [s EXCEPT !.disk[t] = images[Len(images)].after]

\* A truncation is in no branch of _redo_physical_pages: its record has no page, and
\* reading that page raises.
RedoCut(s) == [s EXCEPT !.ok = ~ \E i \in DOMAIN log : log[i].op = "cut" /\ status[log[i].txn] = "committed"]

\* _redo_log_record: what is there already stays.
RedoRecord(s, r) ==
  CASE r.op = "insert" -> IF Has(Seen(s, r.table), r.key) THEN s ELSE InsertRow(s, r.table, r.key, r.after)
    [] r.op = "delete" -> DeleteKey(s, r.table, r.key)
    [] r.op = "update" -> IF Has(Seen(s, r.table), r.key) THEN s ELSE InsertRow(s, r.table, r.key, r.after)
    [] OTHER           -> s

\* recover: of the whole log, since no checkpoint ends it.  What raises ends it.
Recovered(s) ==
  LET paged  == RedoCut(FoldLeft(RedoPages, s, SetToSeq(Table)))
      redone == FoldLeft(RedoRecord, paged, SelectSeq(log, LAMBDA r : status[r.txn] = "committed"))
  IN  IF ~ paged.ok THEN paged ELSE IF current = 0 THEN redone ELSE Undone(redone, current)

Become(s) == disk' = s.disk /\ frame' = s.frame /\ held' = s.held /\ dirty' = s.dirty

-----------------------------------------------------------------------------
(* Statements and transactions.                                            *)

Holds(t)   == current # 0 /\ \E i \in DOMAIN log : log[i].txn = current /\ log[i].table = t
Deletes(t) == current # 0 /\ \E i \in DOMAIN log : log[i].txn = current /\ log[i].table = t /\ log[i].op = "delete"

Logged(op, t, k) == \E i \in DOMAIN log : log[i].op = op /\ log[i].table = t /\ log[i].key = k

Changed(op, t, k, v) ==
  CASE op = "insert" -> InsertRow(Pages, t, k, v)
    [] op = "delete" -> DeleteKey(Pages, t, k)
    [] op = "update" -> UpdateRow(Pages, t, k, v)

Possible(op, t, k, v) ==
  IF op = "insert" THEN ~ Has(Seen(Pages, t), k)
  ELSE Has(Seen(Pages, t), k) /\ <<k, v>> \notin RowsOf(Seen(Pages, t))

RowRecord(op, t, k, v) ==
  [txn |-> current, op |-> op, table |-> t, key |-> k,
   before |-> IF op = "insert" THEN Dead ELSE Value(Seen(Pages, t), k), after |-> v]
CutRecord(t)     == [txn |-> current, op |-> "cut", table |-> t, before |-> Free, after |-> Free]
PageRecord(t, s) == [txn |-> current, op |-> "page", table |-> t, before |-> Seen(Pages, t), after |-> Seen(s, t)]

Begin ==
  /\ current = 0
  /\ \E x \in Txn : /\ status[x] = "none" /\ \A y \in Txn : y < x => status[y] # "none"
                    /\ current' = x /\ status' = [status EXCEPT ![x] = "active"]
  /\ UNCHANGED <<pages, log, autos, raised, good, soft, behind>>

\* A statement of the transaction: the row is logged, then the page is changed
\* and logged; when a sequential file or an index is written anew, it is cut off
\* before that.
Write(op, t, k, v) ==
  /\ current # 0 /\ Len(log) + 2 <= MaxLog
  /\ Possible(op, t, k, v) /\ (TRUE \in Behind \/ op = "insert" \/ t \notin behind)
  /\ TRUE \in Reused \/ op # "update" \/ ~ Logged("delete", t, k)
  /\ \E cut \in Truncating, s \in {Changed(op, t, k, v)} :
       /\ log' = log \o <<RowRecord(op, t, k, v)>> \o (IF cut THEN <<CutRecord(t)>> ELSE <<>>) \o <<PageRecord(t, s)>>
       /\ Become(s)
  /\ UNCHANGED <<status, current, autos, raised, good, soft, behind>>

\* A statement of a session without a transaction.  The pool logs its page under
\* the transaction that is open, since current_transaction_id is that of all.
Auto(op, t, k, v) ==
  /\ autos < MaxAuto /\ autos' = autos + 1
  /\ current = 0 \/ (TRUE \in Overlap /\ ~ Holds(t) /\ Len(log) < MaxLog)
  /\ TRUE \in Mixed \/ ~ \E i \in DOMAIN log : log[i].op \notin {"page", "cut"} /\ log[i].table = t /\ log[i].key = k
  /\ Possible(op, t, k, v)
  /\ LET s == Changed(op, t, k, v) IN
       /\ log' = IF current = 0 THEN log ELSE Append(log, PageRecord(t, s))
       /\ Become(s)
       /\ good' = [good EXCEPT ![t] = RowsOf(Seen(s, t))]
  /\ soft' = soft \cup {t} /\ behind' = behind \cup {t}
  /\ UNCHANGED <<status, current, raised>>

Commit ==
  /\ current # 0
  /\ status' = [status EXCEPT ![current] = "committed"]
  /\ good' = [t \in Table |-> IF Holds(t) THEN RowsOf(Seen(Pages, t)) ELSE good[t]]
  /\ current' = 0
  /\ UNCHANGED <<pages, log, autos, raised, soft, behind>>

\* ROLLBACK, whose ABORT is in the log before the undo.
Rollback ==
  /\ current # 0
  /\ \E s \in {Undone(Pages, current)} : Become(s) /\ raised' = ~ s.ok
  /\ status' = [status EXCEPT ![current] = "aborted"]
  /\ current' = 0 /\ behind' = behind \cup {t \in Table : Holds(t)}
  /\ UNCHANGED <<log, autos, good, soft>>

\* The pool takes the frame for another page.
Evict(t) ==
  /\ t \in held /\ (TRUE \in DeleteLost \/ ~ Deletes(t))
  /\ disk' = IF t \in dirty THEN [disk EXCEPT ![t] = frame[t]] ELSE disk
  /\ frame' = [frame EXCEPT ![t] = Free] /\ held' = held \ {t} /\ dirty' = dirty \ {t}
  /\ soft' = soft \ {t} /\ behind' = behind \ {t}
  /\ UNCHANGED <<log, status, current, autos, raised, good>>

Started(files) == [disk |-> files, frame |-> [t \in Table |-> Free], held |-> {}, dirty |-> {}, ok |-> TRUE]

Restarted(s) ==
  /\ \E r \in {Recovered(s)} : /\ \A t \in Table : Len(Seen(r, t)) <= MaxSlots
                               /\ Become(r) /\ raised' = ~ r.ok
  /\ status' = IF current = 0 THEN status ELSE [status EXCEPT ![current] = "aborted"]
  /\ current' = 0 /\ soft' = {} /\ behind' = dirty'
  /\ UNCHANGED <<log, autos, good>>

\* close, with no transaction open, and the next start.
Reopen ==
  /\ current = 0
  /\ Restarted(Started([t \in Table |-> Seen(Pages, t)]))

\* A crash and the next start.  Unlogged changes are promised to nobody until
\* they are in the file.
Crash ==
  /\ soft = {} /\ (TRUE \in DeleteLost \/ \A t \in Table : ~ Deletes(t))
  /\ Restarted(Started(disk))

Init ==
  /\ disk = [t \in Table |-> Free] /\ frame = disk /\ held = {} /\ dirty = {}
  /\ log = <<>> /\ status = [x \in Txn |-> "none"] /\ current = 0 /\ autos = 0
  /\ raised = FALSE /\ soft = {} /\ behind = {}
  /\ good = [t \in Table |-> {}]

\* What follows an undo that raised is not explored.
Next ==
  /\ ~ raised
  /\ \/ Begin \/ Commit \/ Rollback \/ Reopen \/ Crash
     \/ \E t \in Table : \/ Evict(t)
                         \/ \E op \in {"insert", "delete", "update"}, k \in Key, v \in Val \cup {Dead} :
                              (op = "delete" <=> v = Dead) /\ (Write(op, t, k, v) \/ Auto(op, t, k, v))

Spec == Init /\ [][Next]_vars

-----------------------------------------------------------------------------
(* Properties.                                                             *)

\* Only pages in the pool are dirty, no key has two rows, the open transaction
\* is active, and the log knows its transactions.
TypeOK ==
  /\ dirty \subseteq held
  /\ \A t \in Table : frame[t] # Free => t \in held
  /\ \A t \in Table, v, w \in Val, k \in Key : {<<k, v>>, <<k, w>>} \subseteq RowsOf(Seen(Pages, t)) => v = w
  /\ current # 0 => status[current] = "active"
  /\ \A i \in DOMAIN log : status[log[i].txn] # "none"

\* While no transaction is open a table has the rows that committed transactions
\* and statements on their own left it with: rollback, a crash at any point and
\* any number of starts take back and bring back nothing else.
RowsAsPromised ==
  current = 0 /\ ~ raised => \A t \in Table : RowsOf(Seen(Pages, t)) = good[t]

\* No undo and no redo raises, so that a rollback always ends and the engine always
\* starts.
RecoveryNeverRaises == ~ raised
=============================================================================
