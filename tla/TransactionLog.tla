--------------------------- MODULE TransactionLog ---------------------------
(***************************************************************************)
(* The write-ahead log and the transactions recorded in it:                *)
(* src/storage/log_manager.py, transaction_manager.py and the undo half of *)
(* recovery_manager.py, with the sessions of parser/executor.py that call  *)
(* them, crashes, and the start and the shutdown of StorageManager.        *)
(*                                                                         *)
(* An LSN is the offset at which a record starts; offsets are abstracted   *)
(* to the number of records before it, so the first record has LSN 0,      *)
(* which prev_lsn also uses for "none".  The file is the sequence of what  *)
(* was written, of which the first `durable' elements were synced.         *)
(***************************************************************************)
EXTENDS Integers, Sequences, FiniteSets

CONSTANTS
  MaxTxn,          \* bound: transactions ever begun
  MaxUpdates,      \* bound: UPDATE records in the log
  MaxCheckpoints,  \* bound: CHECKPOINT records in the log
  Troubles         \* what may go wrong besides crashes, one thing in a behaviour

ASSUME LogAssumption == /\ MaxTxn \in Nat \ {0}
                        /\ MaxUpdates \in Nat
                        /\ MaxCheckpoints \in Nat
                        /\ Troubles \subseteq {"threads", "disk"}

Id == 1..MaxTxn

VARIABLES
  file,      \* the log file: records, and possibly a torn one at the end
  durable,   \* how many elements of file were forced to disk
  torn,      \* _has_truncated_tail of the LogManager
  lastOf,    \* _last_lsn_by_transaction
  nextId,    \* _next_transaction_id
  status,    \* status of each Transaction object, "none" if there is none
  last,      \* last_lsn of each Transaction object
  rolling,   \* the transaction whose commit or rollback is in the middle of
             \* its critical section, and holds the manager's lock; or 0
  toUndo,    \* LSNs of the UPDATE records that a rollback has still to undo
  sess,      \* what the session of a transaction is doing
  phase,     \* of the process: down, recovering, running, closing
  acked,     \* history: transactions whose commit() has returned
  trouble    \* "threads": another thread may log under a transaction while its
             \* session is about to roll it back; "disk": the fsync of a COMMIT
             \* may raise an error

mem  == <<torn, lastOf, nextId, status, last, rolling, toUndo, sess>>
vars == <<file, durable, mem, phase, acked, trouble>>

Type   == {"BEGIN", "UPDATE", "COMMIT", "ABORT", "CLR", "CHECKPOINT", "TORN"}
Status == {"none", "active", "committed", "aborted"}
Phase  == {"down", "recovering", "running", "closing"}

\* "commit" has appended COMMIT.  "rollback" and "abort" have collected the
\* records to undo: the first for an explicit ROLLBACK.  The error handler of
\* ejecutar is about to abort the transaction of a statement that raised
\* ("retry"); when that abort fails too, the session has left.
Sess   == {"none", "open", "commit", "rollback", "retry", "abort", "left"}

Record == [type : Type, txn : 0..MaxTxn, prev : Nat, undoes : Nat]

Fragment == [type |-> "TORN", txn |-> 0, prev |-> 0, undoes |-> 0]

-----------------------------------------------------------------------------
(* LogManager                                                              *)

\* read_all reads up to the first incomplete record.
Readable(f) == LET bad == {i \in DOMAIN f : f[i].type = "TORN"}
               IN  IF bad = {} THEN f
                   ELSE SubSeq(f, 1, (CHOOSE i \in bad : \A j \in bad : i <= j) - 1)

\* LSNs of the records of transaction t in f with one of the given types.
LsnsOf(f, t, types) == {i \in 0..(Len(f) - 1) : f[i+1].txn = t /\ f[i+1].type \in types}

Latest(lsns) == IF lsns = {} THEN 0 ELSE CHOOSE i \in lsns : \A j \in lsns : j <= i

\* What append writes to: a torn tail is cut off first.
Base == IF torn THEN Readable(file) ELSE file

\* append: prev = 0 stands for the transaction's last record; any other value
\* must agree with it, or ValueError is raised.
Accepts(t, prev) == prev \in {0, lastOf[t]}

\* mutant: linked to the last record of the log (_last_lsn)
AppendGlobal(type, t, prev, undoes) ==
  /\ Accepts(t, prev)
  /\ file' = Append(Base, [type |-> type, txn |-> t, prev |-> Latest(0..(Len(Base) - 1)),
                           undoes |-> undoes])
  /\ lastOf' = [lastOf EXCEPT ![t] = Len(Base)]
  /\ torn' = FALSE

Append1(type, t, prev, undoes) ==
  /\ Accepts(t, prev)
  /\ file' = Append(Base, [type |-> type, txn |-> t,
                           prev |-> lastOf[t], undoes |-> undoes])
  /\ lastOf' = [lastOf EXCEPT ![t] = Len(Base)]
  /\ torn' = FALSE

Forced   == durable' = Len(file')
Unforced == durable' = IF durable > Len(Base) THEN Len(Base) ELSE durable

-----------------------------------------------------------------------------
(* TransactionManager: begin, log_update, commit, rollback                 *)

\* The first start of the engine, on an empty log.
Init ==
  /\ file = <<>> /\ durable = 0 /\ torn = FALSE
  /\ lastOf = [t \in 0..MaxTxn |-> 0]
  /\ nextId = 1
  /\ status = [t \in Id |-> "none"]
  /\ last   = [t \in Id |-> 0]
  /\ rolling = 0
  /\ toUndo = [t \in Id |-> {}]
  /\ sess   = [t \in Id |-> "none"]
  /\ phase = "recovering"
  /\ acked = {} /\ trouble \in Troubles

Active == {t \in Id : status[t] = "active"}

\* begin: the BEGIN record is on disk before the id is given out.
Begin ==
  LET t == nextId IN
  /\ phase = "running" /\ rolling = 0 /\ t <= MaxTxn
  /\ Append1("BEGIN", t, 0, 0) /\ Forced
  /\ nextId' = t + 1
  /\ status' = [status EXCEPT ![t] = "active"]
  /\ last'   = [last EXCEPT ![t] = Len(Base)]
  /\ sess'   = [sess EXCEPT ![t] = "open"]
  /\ UNCHANGED <<rolling, toUndo, phase, acked>>

\* log_update, not forced: its callers force before they touch a page.
LogUpdate(t) ==
  /\ phase = "running" /\ rolling = 0
  /\ t \in Active
  /\ \/ sess[t] = "open"
     \/ trouble = "threads" /\ sess[t] \in {"rollback", "abort"}
  /\ Cardinality({i \in DOMAIN file : file[i].type = "UPDATE"}) < MaxUpdates
  /\ Append1("UPDATE", t, 0, 0) /\ Unforced
  /\ last' = [last EXCEPT ![t] = Len(Base)]
  /\ UNCHANGED <<nextId, status, rolling, toUndo, sess, phase, acked>>

\* force, by the mutation logger and by the hooks of the buffer and file managers.
ForceLog ==
  /\ phase = "running"
  /\ durable < Len(file)
  /\ durable' = Len(file)
  /\ UNCHANGED <<file, mem, phase, acked>>

\* commit, first half: COMMIT is appended, with the manager's lock held.
CommitAppend(t) ==
  /\ phase = "running" /\ rolling = 0
  /\ sess[t] = "open" /\ t \in Active
  /\ Append1("COMMIT", t, last[t], 0) /\ Unforced
  /\ rolling' = t
  /\ sess' = [sess EXCEPT ![t] = "commit"]
  /\ UNCHANGED <<nextId, status, last, toUndo, phase, acked>>

\* mutant: no force before COMMITTED
CommitUnforced(t) ==
  /\ phase = "running" /\ rolling = t /\ sess[t] = "commit"
  /\ last'    = [last EXCEPT ![t] = lastOf[t]]
  /\ status'  = [status EXCEPT ![t] = "committed"]
  /\ rolling' = 0
  /\ sess'    = [sess EXCEPT ![t] = "none"]
  /\ acked'   = acked \cup {t}
  /\ UNCHANGED <<file, durable, torn, lastOf, nextId, toUndo, phase>>

\* Second half: only after the force is it COMMITTED, and the caller told so.
CommitForce(t) ==
  /\ phase = "running" /\ rolling = t /\ sess[t] = "commit"
  /\ durable' = Len(file)
  /\ last'    = [last EXCEPT ![t] = lastOf[t]]
  /\ status'  = [status EXCEPT ![t] = "committed"]
  /\ rolling' = 0
  /\ sess'    = [sess EXCEPT ![t] = "none"]
  /\ acked'   = acked \cup {t}
  /\ UNCHANGED <<file, torn, lastOf, nextId, toUndo, phase>>

\* The force raises: last_lsn and the status are not assigned, and ejecutar
\* is about to abort the transaction.
CommitFails(t) ==
  /\ trouble = "disk"
  /\ phase = "running" /\ rolling = t /\ sess[t] = "commit"
  /\ rolling' = 0
  /\ sess' = [sess EXCEPT ![t] = "retry"]
  /\ UNCHANGED <<file, durable, torn, lastOf, nextId, status, last, toUndo, phase, acked>>

\* rollback's first critical section: the UPDATE records are collected.  The
\* caller is ROLLBACK, the error handler of a session, recovery or close.
Busy == \E t \in Id : sess[t] \in {"rollback", "retry", "abort"}

\* mutant: the records are read without flushing what append wrote
CollectDurable(t, how) ==
  /\ t \in Active /\ rolling = 0
  /\ \/ /\ phase = "running"
        /\ \/ sess[t] = "open"
           \/ sess[t] = "retry" /\ how = "abort"
     \/ /\ phase \in {"recovering", "closing"} /\ how = "abort"
        /\ ~ Busy /\ \A u \in Active : t <= u
  /\ toUndo' = [toUndo EXCEPT ![t] = LsnsOf(SubSeq(file, 1, durable), t, {"UPDATE"})]
  /\ sess'   = [sess EXCEPT ![t] = how]
  /\ UNCHANGED <<file, durable, torn, lastOf, nextId, status, last, rolling, phase, acked>>

Collect(t, how) ==
  /\ t \in Active /\ rolling = 0
  /\ \/ /\ phase = "running"
        /\ \/ sess[t] = "open"
           \/ sess[t] = "retry" /\ how = "abort"
     \/ /\ phase \in {"recovering", "closing"} /\ how = "abort"
        /\ ~ Busy /\ \A u \in Active : t <= u
  /\ toUndo' = [toUndo EXCEPT ![t] = LsnsOf(file, t, {"UPDATE"})]
  /\ sess'   = [sess EXCEPT ![t] = how]
  /\ UNCHANGED <<file, durable, torn, lastOf, nextId, status, last, rolling, phase, acked>>

\* The second critical section begins: ABORT, forced; the lock is kept.
WriteAbort(t) ==
  /\ phase # "down" /\ rolling = 0
  /\ sess[t] \in {"rollback", "abort"} /\ t \in Active
  /\ Append1("ABORT", t, last[t], 0) /\ Forced
  /\ last' = [last EXCEPT ![t] = Len(Base)]
  /\ rolling' = t
  /\ UNCHANGED <<nextId, status, toUndo, sess, phase, acked>>

\* mutant: the oldest change first
UndoOldest(t) ==
  LET u == CHOOSE i \in toUndo[t] : \A j \in toUndo[t] : i <= j IN
  /\ phase # "down" /\ rolling = t /\ sess[t] # "commit" /\ toUndo[t] # {}
  /\ Append1("CLR", t, last[t], u) /\ Unforced
  /\ last'   = [last EXCEPT ![t] = Len(Base)]
  /\ toUndo' = [toUndo EXCEPT ![t] = @ \ {u}]
  /\ UNCHANGED <<nextId, status, rolling, sess, phase, acked>>

\* undo_handler has restored the newest collected change: its CLR, not forced.
UndoNext(t) ==
  LET u == Latest(toUndo[t]) IN
  /\ phase # "down" /\ rolling = t /\ sess[t] # "commit" /\ toUndo[t] # {}
  /\ Append1("CLR", t, last[t], u) /\ Unforced
  /\ last'   = [last EXCEPT ![t] = Len(Base)]
  /\ toUndo' = [toUndo EXCEPT ![t] = @ \ {u}]
  /\ UNCHANGED <<nextId, status, rolling, sess, phase, acked>>

\* Everything is undone.
RollbackEnd(t) ==
  /\ phase # "down" /\ rolling = t /\ sess[t] # "commit" /\ toUndo[t] = {}
  /\ durable' = Len(file)
  /\ status'  = [status EXCEPT ![t] = "aborted"]
  /\ rolling' = 0
  /\ sess'    = [sess EXCEPT ![t] = "none"]
  /\ UNCHANGED <<file, torn, lastOf, nextId, last, toUndo, phase, acked>>

\* rollback raises, and the transaction is still ACTIVE: append refuses the
\* ABORT, or undo_handler raises.  ejecutar tries a failed ROLLBACK once more; a
\* failed abort ends the session.  In recovery and in close the process stops.
RollbackFails(t) ==
  /\ phase # "down" /\ sess[t] \in {"rollback", "abort"}
  /\ \/ rolling = 0 /\ t \in Active /\ ~ Accepts(t, last[t])
     \/ rolling = t /\ toUndo[t] # {}
  /\ rolling' = 0
  /\ toUndo'  = [toUndo EXCEPT ![t] = {}]
  /\ sess'    = [sess EXCEPT ![t] = IF @ = "rollback" THEN "retry" ELSE "left"]
  /\ phase'   = IF phase = "running" THEN phase ELSE "down"
  /\ UNCHANGED <<file, durable, torn, lastOf, nextId, status, last, acked>>

-----------------------------------------------------------------------------
(* StorageManager: recovery at start, close; and crashes                   *)

\* recover has rolled back every active transaction.
RecoverEnd ==
  /\ phase = "recovering" /\ Active = {}
  /\ phase' = "running"
  /\ UNCHANGED <<file, durable, mem, acked>>

CloseStart ==
  /\ phase = "running" /\ rolling = 0 /\ ~ Busy
  /\ phase' = "closing"
  /\ UNCHANGED <<file, durable, mem, acked>>

\* After the rollbacks: checkpoint, forced, and the file is closed.
CloseEnd ==
  /\ phase = "closing" /\ Active = {}
  /\ Cardinality({i \in DOMAIN file : file[i].type = "CHECKPOINT"}) < MaxCheckpoints
  /\ Append1("CHECKPOINT", 0, 0, 0) /\ Forced
  /\ phase' = "down"
  /\ UNCHANGED <<nextId, status, last, rolling, toUndo, sess, acked>>

\* A crash keeps what was forced, and any part of the rest: whole records and
\* perhaps the beginning of the next one.  Memory means nothing until Open.
Crash ==
  /\ phase # "down"
  /\ \E n \in durable..Len(file) :
       LET kept == SubSeq(file, 1, n) IN
       /\ file' = kept \/ (Readable(kept) = kept /\ file' = Append(kept, Fragment))
       /\ durable' = Len(file')
  /\ phase' = "down"
  /\ UNCHANGED <<mem, acked>>

\* The transactions that _load_log_state finds: CHECKPOINT and CLR are skipped.
Skipped      == {"CHECKPOINT", "CLR"}
Outcomes     == {"COMMIT", "ABORT"}
Seen(f)      == {f[i].txn : i \in {j \in DOMAIN f : f[j].type \notin Skipped}}

\* mutant: COMMIT is not taken into account
LoadedUncommitted(f, t) == IF t \notin Seen(f) THEN "none"
                           ELSE IF LsnsOf(f, t, {"ABORT"}) # {} THEN "aborted" ELSE "active"

Loaded(f, t) == LET ends == LsnsOf(f, t, Outcomes)
                IN  IF ends # {}
                    THEN IF f[Latest(ends) + 1].type = "COMMIT" THEN "committed" ELSE "aborted"
                    ELSE IF t \in Seen(f) THEN "active" ELSE "none"

\* mutant: the id after the active transactions
NextIdOfActive(f)  == Latest({t \in Id : Loaded(f, t) = "active"} \cup {0}) + 1

NextId(f) == Latest(Seen(f) \cup {0}) + 1

\* last_lsn of the Transaction object, and the chain that LogManager keeps.
ObjectLast(f, t) == Latest(LsnsOf(f, t, Type \ Skipped))
ChainLast(f, t)  == Latest(LsnsOf(f, t, Type))

\* read_all's validation: a prev_lsn other than 0 is the LSN of a record read.
Valid(f) == \A i \in DOMAIN f : f[i].prev < i

\* The process starts: LogManager and TransactionManager read the log.
Open ==
  LET f == Readable(file) IN
  /\ phase = "down" /\ Valid(f)
  /\ torn'   = (f # file)
  /\ lastOf' = [t \in 0..MaxTxn |-> ChainLast(f, t)]
  /\ status' = [t \in Id |-> Loaded(f, t)]
  /\ last'   = [t \in Id |-> ObjectLast(f, t)]
  /\ nextId' = NextId(f)
  /\ rolling' = 0
  /\ toUndo' = [t \in Id |-> {}]
  /\ sess'   = [t \in Id |-> "none"]
  /\ phase'  = "recovering"
  /\ UNCHANGED <<file, durable, acked>>

-----------------------------------------------------------------------------
Next ==
  /\ UNCHANGED trouble
  /\ \/ Begin \/ ForceLog
     \/ \E t \in Id :
          \/ LogUpdate(t)
          \/ CommitAppend(t) \/ CommitForce(t) \/ CommitFails(t)
          \/ \E how \in {"rollback", "abort"} : Collect(t, how)
          \/ WriteAbort(t) \/ UndoNext(t) \/ RollbackEnd(t) \/ RollbackFails(t)
     \/ RecoverEnd \/ CloseStart \/ CloseEnd \/ Crash \/ Open

Spec == Init /\ [][Next]_vars

-----------------------------------------------------------------------------
(* What must hold.                                                         *)

Types ==
  /\ file \in Seq(Record)
  /\ durable \in 0..Len(file)
  /\ torn \in BOOLEAN
  /\ lastOf \in [0..MaxTxn -> Nat]
  /\ nextId \in 1..(MaxTxn + 1)
  /\ status \in [Id -> Status]
  /\ last \in [Id -> Nat]
  /\ rolling \in 0..MaxTxn
  /\ toUndo \in [Id -> SUBSET Nat]
  /\ sess \in [Id -> Sess]
  /\ phase \in Phase
  /\ acked \subseteq Id

\* Whatever a crash left, the readable part of the log passes read_all's
\* validation, and while the process runs no record lies beyond a torn one.
LogReadable ==
  /\ Valid(Readable(file))
  /\ phase # "down" /\ ~ torn => Readable(file) = file

\* prev_lsn links the records of each transaction, oldest last: each names the
\* record before it of its transaction.
ChainComplete ==
  \A i \in DOMAIN Readable(file) :
    file[i].prev = Latest(LsnsOf(SubSeq(file, 1, i - 1), file[i].txn, Type))

\* commit, rollback and the CLRs pass the last_lsn of the Transaction object,
\* which append compares with its own chain: they agree, so append never refuses
\* the end of an active transaction, unless the force of its COMMIT has failed.
ChainAgrees ==
  trouble # "disk" /\ phase # "down" /\ rolling = 0 => \A t \in Active : Accepts(t, last[t])

\* The log can always be reopened and continued, through any number of crashes
\* and restarts: nothing a later start would need lies behind a torn record, each
\* transaction's records are linked, and append goes on where the links end.
LogSound == Types /\ LogReadable /\ ChainComplete /\ ChainAgrees

\* A commit() that has returned survives every crash: its COMMIT is in the
\* forced part of the log, and while the process is up it is COMMITTED.
CommitDurable ==
  \A t \in acked :
    /\ LsnsOf(Readable(SubSeq(file, 1, durable)), t, {"COMMIT"}) # {}
    /\ phase # "down" => status[t] = "committed"

\* A COMMIT whose force fails leaves last_lsn behind the chain, and append then
\* refuses the ABORT of the error handler and of close, save for the transaction
\* whose BEGIN has LSN 0, which looks like "none".
Protected(t) == trouble # "disk" \/ LsnsOf(file, t, {"BEGIN"}) # {0}

\* An id is begun once in the life of the log, before anything else is
\* recorded under it, and nothing is recorded after its COMMIT.
IdUsedOnce ==
  \A i, j \in DOMAIN file :
    i < j /\ file[i].txn = file[j].txn /\ file[i].txn # 0 /\ Protected(file[i].txn) =>
      file[j].type # "BEGIN" /\ file[i].type # "COMMIT"

\* No transaction both commits and aborts, whoever ends it: its session, the
\* error handler, close or recovery after a crash in the middle; nor is its id
\* given to another one after a restart.
DecidedOnce ==
  /\ \A t \in Id : Protected(t) => LsnsOf(file, t, {"COMMIT"}) = {} \/ LsnsOf(file, t, {"ABORT"}) = {}
  /\ IdUsedOnce

\* Undo goes backwards: between two CLRs of a transaction there is an ABORT
\* that starts a rollback again, or the later one undoes an older change.
UndoBackwards ==
  \A i, j \in DOMAIN file :
    /\ i < j /\ file[i].txn = file[j].txn
    /\ file[i].type = "CLR" /\ file[j].type = "CLR"
    /\ \A k \in i..j : file[k].txn = file[i].txn => file[k].type # "ABORT"
    => file[j].undoes < file[i].undoes

Undone(t)  == {file[i].undoes : i \in {j \in DOMAIN file : file[j].txn = t /\ file[j].type = "CLR"}}

\* A rollback that ends has a CLR for every UPDATE of its transaction, if no other
\* thread logs under it meanwhile.
RollbackComplete ==
  [][trouble # "threads" => \A t \in Id :
       phase # "down" /\ status[t] = "active" /\ status'[t] = "aborted" =>
         LsnsOf(file, t, {"UPDATE"}) \subseteq Undone(t)]_vars

\* What a restart would make of each transaction from what is on disk now
\* goes through the states that TransactionOutcome allows, and commit() has
\* returned only to those whose outcome is already "committed": of the protected
\* ones.  (A torn record
\* belongs to no transaction, so it need not be cut off first.)
Decision == INSTANCE TransactionOutcome WITH
  outcome <- [t \in Id |-> IF Protected(t) THEN Loaded(SubSeq(file, 1, durable), t) ELSE "none"],
  acked   <- {t \in acked : Protected(t)}

ImplementsOutcome == Decision!Spec

-----------------------------------------------------------------------------
(* What the documentation promises and the code does not keep.             *)

\* Recovery reverts every transaction without COMMIT before sessions are
\* accepted: each of its changes has been undone.
RecoveryComplete ==
  phase = "running" => \A t \in Id : status[t] = "aborted" =>
    LsnsOf(file, t, {"UPDATE"}) \subseteq Undone(t)
=============================================================================
