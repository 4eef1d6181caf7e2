--------------------------- MODULE BufferManager ---------------------------
(***************************************************************************)
(* The buffer pool of src/storage/buffer_manager.py over the paged files   *)
(* of file_manager.py, with what its callers do to it: heap and sequential *)
(* files and indexes that fetch, change, mark and unpin pages, extend,     *)
(* shorten and rebuild their files and close them, and transactions whose  *)
(* changes mark_dirty logs and whose rollback writes page images back.     *)
(*                                                                         *)
(* A step is one call: calls of different sessions interleave, the inside  *)
(* of a call does not.  A page image is a number, and every change of a    *)
(* page makes a new one.                                                   *)
(***************************************************************************)
EXTENDS Integers, Sequences, FiniteSets

CONSTANTS
  Manager,     \* FileManager objects of tables and indexes, one per file
  None,        \* Python's None
  MaxFrames,   \* max_frames
  MaxPages,    \* bound: pages of each file
  MaxChanges,  \* bound: changes of pages
  MaxPins,     \* bound: fetches that are not given back
  MaxTxn,      \* bound: transactions
  MaxLost      \* bound: frames lost to a fetch from a closed file

ASSUME PoolAssumption == /\ IsFiniteSet(Manager) /\ MaxFrames \in Nat \ {0}
                         /\ MaxPages \in [Manager -> Nat \ {0}] /\ MaxChanges \in Nat
                         /\ MaxPins \in Nat \ {0} /\ MaxTxn \in Nat /\ MaxLost \in Nat

VARIABLES
  frames,      \* the frames; key is None where phys_page_id is -1
  pageTable,   \* page_table: the frame of a key, or Absent
  clockHand,   \* clock_hand
  state,       \* of each file manager: "open" or "closed"
  size,        \* pages in each file
  disk,        \* the image of each page in its file
  next,        \* the image that the next change will make
  holds,       \* fetches of each page that its callers have not given back
  before,      \* the image a page had before a change that is not yet marked
  txn,         \* what the transaction id provider answers; 0 for None
  log,         \* the page records that the WAL logger was given
  rolling,     \* the transaction whose page records are being undone, or 0
  pos,         \* the record that the rollback undoes next, or 0
  owed,        \* history: images made under a transaction
  tainted      \* history: pages for which mark_dirty raised

pool  == <<frames, pageTable, clockHand>>
files == <<state, size, disk>>
trans == <<txn, rolling, pos>>
hist  == <<owed, tainted>>
vars  == <<pool, files, trans, next, holds, before, log, hist>>

FrameId == 0..(MaxFrames - 1)
Absent  == -1
Key     == UNION {{m} \X (0..(MaxPages[m] - 1)) : m \in Manager}
Image   == 0..MaxChanges       \* 0 is the page of zeros
NoPage  == [key |-> None, bin |-> None, orig |-> None,
            pin |-> 0, dirty |-> FALSE, ref |-> FALSE]

ASSUME NoneAssumption == None \notin Key \cup Image \cup {Absent}

InFile(k)  == state[k[1]] = "open" /\ k[2] < size[k[1]]
Cached(k)  == pageTable[k] # Absent
FrameOf(k) == frames[pageTable[k]]
Changing   == {k \in Key : before[k] # None}

\* What a caller that reads the page finds.
Seen(k) == IF Cached(k) THEN FrameOf(k).bin ELSE disk[k]

\* An empty pool over files that exist.
Init ==
  /\ frames    = [f \in FrameId |-> NoPage]
  /\ pageTable = [k \in Key |-> Absent]
  /\ clockHand = 0
  /\ state     = [m \in Manager |-> "open"]
  /\ size      = MaxPages
  /\ disk      = [k \in Key |-> 0]
  /\ next      = 1
  /\ holds     = [k \in Key |-> 0]
  /\ before    = [k \in Key |-> None]
  /\ txn = 0 /\ rolling = 0 /\ pos = 0
  /\ log = <<>>
  /\ owed = {} /\ tainted = {}

-----------------------------------------------------------------------------
(* The clock sweep.                                                        *)

\* The frame that the loop of _find_victim looks at in its round i.
Nth(i) == (clockHand + i) % MaxFrames

\* Mutant of Stops: pins are ignored.
StopsAtPinned(i) == LET fr == frames[Nth(i)] IN fr.key = None \/ (fr.ref => i >= MaxFrames)

\* The loop ends at an empty frame, or at one without pins whose reference bit
\* is not set or was cleared one turn before.
Stops(i) == LET fr == frames[Nth(i)] IN
            fr.key = None \/ (fr.pin = 0 /\ (fr.ref => i >= MaxFrames))

Rounds   == {i \in 0..(2 * MaxFrames - 1) : Stops(i)}
StopAt   == CHOOSE i \in Rounds : \A j \in Rounds : i <= j

\* A frame whose dirty page has just been written to its file.
Clean(fr) == IF fr.dirty THEN [fr EXCEPT !.dirty = FALSE, !.orig = fr.bin] ELSE fr

\* The frames after a sweep of so many rounds: references cleared on the way,
\* victim clean.
Swept(last) ==
  LET passed == {Nth(j) : j \in 0..last} IN
  [f \in FrameId |->
     LET fr == IF f \in passed /\ frames[f].key # None /\ frames[f].pin = 0
               THEN [frames[f] EXCEPT !.ref = FALSE] ELSE frames[f]
     IN  IF f = Nth(last) THEN Clean(fr) ELSE fr]

\* Mutant of Written: a dirty page whose original image is the page itself,
\* as mark_dirty leaves it, is taken for clean.
WrittenIfDiffers(fs) ==
  [k \in Key |-> LET dirty == {f \in fs : /\ frames[f].key = k /\ frames[f].dirty
                                          /\ frames[f].bin # frames[f].orig}
                 IN  IF dirty = {} THEN disk[k] ELSE frames[CHOOSE f \in dirty : TRUE].bin]

\* The files after the dirty pages of the frames in fs were written.
Written(fs) == LET dirty == {f \in fs : frames[f].dirty} IN
               [k \in Key |-> IF \E f \in dirty : frames[f].key = k
                              THEN frames[CHOOSE f \in dirty : frames[f].key = k].bin ELSE disk[k]]

-----------------------------------------------------------------------------
(* fetch_page and unpin_page.                                              *)

\* The bound on fetches.
MayFetch == Cardinality({h \in Key \X (1..MaxPins) : h[2] <= holds[h[1]]}) < MaxPins

SweptTo(v) == clockHand' = (v + 1) % MaxFrames

FetchHit(k) ==
  /\ Cached(k) /\ InFile(k) /\ MayFetch
  /\ frames' = [frames EXCEPT ![pageTable[k]].pin = @ + 1, ![pageTable[k]].ref = TRUE]
  /\ holds' = [holds EXCEPT ![k] = @ + 1]
  /\ UNCHANGED <<pageTable, clockHand, files, trans, next, before, log, hist>>

\* The page table after the victim's entry was deleted.
Forget(v) == [k \in Key |-> IF k = frames[v].key THEN Absent ELSE pageTable[k]]

\* "del self.page_table[...]" finds the entry that it deletes.
Listed(v) == frames[v].key # None => Cached(frames[v].key)

\* A page is in no frame and a victim is found for it.
Misses(k) == ~ Cached(k) /\ Rounds # {} /\ MayFetch

FetchMiss(k) ==
  LET last == StopAt  v == Nth(last)  d == Written({v}) IN
  /\ Misses(k) /\ InFile(k) /\ Listed(v)
  /\ disk' = d
  /\ frames' = [Swept(last) EXCEPT ![v] = [key |-> k, bin |-> d[k], orig |-> d[k], pin |-> 1,
                                     dirty |-> FALSE, ref |-> TRUE]]
  /\ pageTable' = [Forget(v) EXCEPT ![k] = v]
  /\ SweptTo(v)
  /\ holds' = [holds EXCEPT ![k] = @ + 1]
  /\ UNCHANGED <<state, size, trans, next, before, log, hist>>

\* Frames that have a page's name and no entry in the table.
Lost == {f \in FrameId : frames[f].key # None /\ ~ Cached(frames[f].key)}

\* The file was closed meanwhile and read_page raises: the frame has lost its
\* old page, has the new page's name, and no entry.
FetchRaises(k) ==
  LET last == StopAt  v == Nth(last) IN
  /\ Misses(k) /\ state[k[1]] = "closed" /\ Listed(v)
  /\ Cardinality(Lost) < MaxLost
  /\ disk' = Written({v})
  /\ frames' = [Swept(last) EXCEPT ![v].key = k]
  /\ pageTable' = Forget(v)
  /\ SweptTo(v)
  /\ UNCHANGED <<state, size, trans, next, holds, before, log, hist>>

\* The victim is such a frame: KeyError, and it stays as it is.
FetchKeyError(k) ==
  LET last == StopAt  v == Nth(last) IN
  /\ Misses(k) /\ (InFile(k) \/ state[k[1]] = "closed")
  /\ ~ Listed(v)
  /\ disk' = Written({v})
  /\ frames' = Swept(last)
  /\ SweptTo(v)
  /\ UNCHANGED <<pageTable, state, size, trans, next, holds, before, log, hist>>

\* unpin_page.  Whoever changed a page marks it before.
Unpin(k) ==
  /\ holds[k] > 0 /\ Cached(k) /\ FrameOf(k).pin > 0
  /\ before[k] # None => holds[k] > 1
  /\ holds' = [holds EXCEPT ![k] = @ - 1]
  /\ frames' = [frames EXCEPT ![pageTable[k]].pin = @ - 1]
  /\ UNCHANGED <<pageTable, clockHand, files, trans, next, before, log, hist>>

-----------------------------------------------------------------------------
(* Changing a page: the caller writes into the frame's bytearray and calls *)
(* mark_dirty.                                                             *)

Change(k) ==
  /\ holds[k] > 0 /\ Cached(k) /\ InFile(k)
  /\ next <= MaxChanges /\ tainted = {}    \* bounds
  /\ frames' = [frames EXCEPT ![pageTable[k]].bin = next]
  /\ next' = next + 1
  /\ before' = [before EXCEPT ![k] = IF @ = None THEN FrameOf(k).bin ELSE @]
  /\ owed' = IF txn # 0 THEN owed \cup {next} ELSE owed
  /\ UNCHANGED <<pageTable, clockHand, files, trans, holds, log, tainted>>

Logs(k) == txn # 0 /\ FrameOf(k).bin # FrameOf(k).orig

\* The record that the logger is given.
PageRecord(k) == [txn |-> txn, key |-> k, before |-> FrameOf(k).orig, after |-> FrameOf(k).bin]

\* Mutant of MarkDirty: a page that is dirty already is not logged again.
MarkDirtyOnce(k) ==
  LET f == pageTable[k] IN
  /\ before[k] # None /\ Cached(k)
  /\ frames' = [frames EXCEPT ![f].dirty = TRUE, ![f].orig = frames[f].bin]
  /\ log' = IF Logs(k) /\ ~ frames[f].dirty THEN Append(log, PageRecord(k)) ELSE log
  /\ before' = [before EXCEPT ![k] = None]
  /\ UNCHANGED <<pageTable, clockHand, files, trans, next, holds, hist>>

\* Under a transaction a change is logged with both images.
MarkDirty(k) ==
  LET f == pageTable[k] IN
  /\ before[k] # None /\ Cached(k)
  /\ frames' = [frames EXCEPT ![f].dirty = TRUE,
                              ![f].orig = IF txn = 0 \/ Logs(k) THEN frames[f].bin ELSE @]
  /\ log' = IF Logs(k) THEN Append(log, PageRecord(k)) ELSE log
  /\ before' = [before EXCEPT ![k] = None]
  /\ UNCHANGED <<pageTable, clockHand, files, trans, next, holds, hist>>

\* The last record of t among the first i, or 0.
Preceding(t, i) == LET own == {j \in 1..i : log[j].txn = t}
                   IN  IF own = {} THEN 0 ELSE CHOOSE j \in own : \A h \in own : h <= j

\* What a rollback does first.
RollsBack == /\ rolling = 0
             /\ rolling' = txn
             /\ pos' = Preceding(txn, Len(log))
             /\ txn' = 0

\* The logger raises and has appended nothing: the frame is dirty already, and
\* the statement's error handler aborts the transaction.
MarkRaises(k) ==
  /\ Changing = {k} /\ Cached(k) /\ Logs(k)
  /\ frames' = [frames EXCEPT ![pageTable[k]].dirty = TRUE]
  /\ before' = [before EXCEPT ![k] = None]
  /\ tainted' = tainted \cup {k}
  /\ RollsBack
  /\ UNCHANGED <<pageTable, clockHand, files, next, holds, log, owed>>

-----------------------------------------------------------------------------
(* Files.                                                                  *)

\* Whoever shortens, rebuilds or closes a file has its table to himself: no
\* change of it is half made, and no transaction under way has changed it.
Quiet(m) == /\ \A k \in Changing : k[1] # m
            /\ \A i \in DOMAIN log : log[i].key[1] = m => log[i].txn \notin {txn, rolling}

FramesOf(m) == {f \in FrameId : frames[f].key # None /\ frames[f].key[1] = m}

\* allocate_page, outside transactions.  A frame of an earlier page of that
\* number may still be there.
Allocate(m) ==
  /\ state[m] = "open" /\ size[m] < MaxPages[m] /\ txn = 0
  /\ size' = [size EXCEPT ![m] = @ + 1]
  /\ UNCHANGED <<pool, state, disk, trans, next, holds, before, log, hist>>

Flushed(fs) == [f \in FrameId |-> IF f \in fs THEN Clean(frames[f]) ELSE frames[f]]

\* SequentialFile._truncate: flush_file, then truncate to n pages.
Truncate(m, n) ==
  /\ state[m] = "open" /\ n < size[m] /\ txn = 0
  /\ Quiet(m)
  /\ \A k \in Key : k[1] = m /\ k[2] >= n => holds[k] = 0
  /\ frames' = Flushed(FramesOf(m))
  /\ disk' = [k \in Key |-> IF k[1] = m /\ k[2] >= n THEN 0 ELSE Written(FramesOf(m))[k]]
  /\ size' = [size EXCEPT ![m] = n]
  /\ UNCHANGED <<pageTable, clockHand, state, trans, next, holds, before, log, hist>>

\* Mutant of Dropped: the frame is only unnamed.
DroppedUnnamed(fs) == [f \in FrameId |-> IF f \in fs THEN [frames[f] EXCEPT !.key = None]
                                        ELSE frames[f]]

Dropped(fs) == [f \in FrameId |-> IF f \in fs THEN NoPage ELSE frames[f]]

Unlisted(m) == [k \in Key |-> IF k[1] = m THEN Absent ELSE pageTable[k]]

\* An index is built again: invalidate_all, truncate, allocate_page.  That its
\* root page is then saved are calls like any others.
Reinit(m) ==
  /\ state[m] = "open" /\ txn = 0
  /\ Quiet(m) /\ \A k \in Key : k[1] = m => holds[k] = 0
  /\ frames' = Dropped(FramesOf(m))
  /\ pageTable' = Unlisted(m)
  /\ disk' = [k \in Key |-> IF k[1] = m THEN 0 ELSE disk[k]]
  /\ size' = [size EXCEPT ![m] = 1]
  /\ UNCHANGED <<clockHand, state, trans, next, holds, before, log, hist>>

\* What close has to do: to close once more changes nothing.
Closable(m) == state[m] = "open" \/ FramesOf(m) # {}

\* close(file_manager): pins are dropped with the frames, and a later
\* unpin_page of one of these pages finds no entry and does nothing.
CloseFile(m) ==
  /\ Closable(m) /\ Quiet(m)
  /\ disk' = IF state[m] = "open" THEN Written(FramesOf(m)) ELSE disk
  /\ frames' = Dropped(FramesOf(m))
  /\ pageTable' = Unlisted(m)
  /\ holds' = [k \in Key |-> IF k[1] = m THEN 0 ELSE holds[k]]
  /\ state' = [state EXCEPT ![m] = "closed"]
  /\ UNCHANGED <<clockHand, size, trans, next, before, log, hist>>

\* close(), which SequentialFile.close calls: every file that is open.
CloseAll ==
  /\ \E m \in Manager : state[m] = "open"
  /\ Changing = {}
  /\ disk' = Written({f \in FrameId : frames[f].key # None /\ state[frames[f].key[1]] = "open"})
  /\ frames' = [f \in FrameId |-> NoPage]
  /\ pageTable' = [k \in Key |-> Absent]
  /\ holds' = [k \in Key |-> 0]
  /\ state' = [m \in Manager |-> "closed"]
  /\ UNCHANGED <<clockHand, size, trans, next, before, log, hist>>

-----------------------------------------------------------------------------
(* Transactions, as far as pages see them.  The provider's answer changes  *)
(* between statements: no page change is half made.  The lock that keeps   *)
(* other sessions from logging during a rollback is left to TransactionLog. *)

Begin(t) ==
  /\ txn = 0 /\ Changing = {}
  /\ t # rolling /\ \A i \in DOMAIN log : log[i].txn # t
  /\ txn' = t
  /\ UNCHANGED <<pool, files, rolling, pos, next, holds, before, log, hist>>

Commit ==
  /\ txn # 0 /\ Changing = {}
  /\ txn' = 0
  /\ UNCHANGED <<pool, files, rolling, pos, next, holds, before, log, hist>>

StartRollback ==
  /\ txn # 0 /\ Changing = {}
  /\ RollsBack
  /\ UNCHANGED <<pool, files, next, holds, before, log, hist>>

\* restore_page, called with a file manager that was made for this record:
\* no frame has that key, so the image is written to the file, and the frame
\* of the table's own file manager, if there is one, is left alone.
RestorePage ==
  /\ pos # 0
  /\ disk' = [disk EXCEPT ![log[pos].key] = log[pos].before]
  /\ pos' = Preceding(rolling, pos - 1)
  /\ UNCHANGED <<pool, state, size, txn, rolling, next, holds, before, log, hist>>

EndRollback ==
  /\ rolling # 0 /\ pos = 0 /\ Changing = {}
  /\ rolling' = 0 /\ txn' = 0
  /\ UNCHANGED <<pool, files, pos, next, holds, before, log, hist>>

Next ==
  \/ \E k \in Key : \/ FetchHit(k) \/ FetchMiss(k) \/ FetchRaises(k) \/ FetchKeyError(k)
                    \/ Unpin(k) \/ Change(k) \/ MarkDirty(k) \/ MarkRaises(k)
  \/ \E m \in Manager : \/ Allocate(m) \/ Reinit(m) \/ CloseFile(m)
                        \/ \E n \in 1..MaxPages[m] : Truncate(m, n)
  \/ CloseAll
  \/ \E t \in 1..MaxTxn : Begin(t)
  \/ Commit \/ StartRollback \/ RestorePage \/ EndRollback

Spec == Init /\ [][Next]_vars

-----------------------------------------------------------------------------
(* What must hold.                                                         *)

FrameRecord == [key : Key \cup {None}, bin : Image \cup {None}, orig : Image \cup {None},
                pin : Nat, dirty : BOOLEAN, ref : BOOLEAN]

LogRecord == [txn : 1..MaxTxn, key : Key, before : Image, after : Image]

\* Type invariant; a frame that is dirty or pinned has a page.
TypeOK ==
  /\ frames \in [FrameId -> FrameRecord]
  /\ \A f \in FrameId : frames[f].dirty \/ frames[f].pin > 0 => frames[f].key # None
  /\ pageTable \in [Key -> FrameId \cup {Absent}]
  /\ clockHand \in FrameId
  /\ state \in [Manager -> {"open", "closed"}]
  /\ size \in [Manager -> Nat] /\ \A m \in Manager : size[m] <= MaxPages[m]
  /\ disk \in [Key -> Image]
  /\ next \in 1..(MaxChanges + 1)
  /\ holds \in [Key -> 0..MaxPins]
  /\ before \in [Key -> Image \cup {None}]
  /\ txn \in 0..MaxTxn /\ rolling \in 0..MaxTxn
  /\ log \in Seq(LogRecord) /\ pos \in 0..Len(log)
  /\ owed \subseteq Image /\ tainted \subseteq Key

\* A page is in one frame at most, and the table knows which: every entry
\* leads to a frame with that page, and a frame with a page that is not in the
\* table belongs to a file that is closed.
OneFrame ==
  /\ \A k \in Key : Cached(k) => FrameOf(k).key = k
  /\ \A f \in FrameId : frames[f].key # None =>
       pageTable[frames[f].key] = f \/ (/\ ~ Cached(frames[f].key)
                                        /\ state[frames[f].key[1]] = "closed")

\* As long as its file is open, a page that callers have fetched and not given
\* back is in the pool, with as many pins as there are such callers: it is not
\* evicted under them, and no pin is left behind.
HoldersPinned ==
  \A k \in Key : state[k[1]] = "open" =>
    /\ holds[k] > 0 => Cached(k)
    /\ Cached(k) => FrameOf(k).pin = holds[k]

\* The loop of _find_victim gives up only when every frame is pinned.
VictimFound == (\E f \in FrameId : frames[f].pin = 0) => Rounds # {}

\* Frames, table and pins agree, no page is taken from those who hold it, and a
\* frame is found for a new one whenever nobody holds all of them.
FramesSound == OneFrame /\ HoldersPinned /\ VictimFound

\* The original image of a frame is the image before the change that is being
\* made, or the page itself when none is: what mark_dirty will log as the
\* image to go back to.  Pages whose logging failed are excepted.
OriginalIsBefore ==
  \A k \in Key \ tainted : Cached(k) =>
    FrameOf(k).orig = IF before[k] = None THEN FrameOf(k).bin ELSE before[k]

\* The write-ahead rule: an image that was made under a transaction is in no
\* file unless the WAL has its record, whatever evicts, flushes or closes.
\* The exception is a page whose logging failed: it was dirty already.
LoggedBeforeWritten ==
  \A k \in Key \ tainted : disk[k] \in owed =>
    \E i \in DOMAIN log : log[i].key = k /\ log[i].after = disk[k]

\* Rollback has what it needs: what a file may hold was logged, with the image that
\* was there before.
ImagesSound == OriginalIsBefore /\ LoggedBeforeWritten

\* The pool is transparent: fetching, evicting, flushing and closing change
\* what no page contains.
Stale(k) == Cached(k) /\ ~ FrameOf(k).dirty /\ before[k] = None /\ FrameOf(k).bin # disk[k]

Store == INSTANCE PageStore WITH
  Gone    <- None,
  Unknown <- Absent,
  pages   <- [k \in Key |-> IF k[2] >= size[k[1]] THEN None
                            ELSE IF Stale(k) THEN Absent ELSE Seen(k)],
  undoing <- pos

ImplementsPageStore == Store!Spec

-----------------------------------------------------------------------------
(* What restore_page promises and does not do for the pages of open tables *)

\* After a page record is undone, who reads the page finds the old image.
RestoreIsSeen ==
  [][\A k \in Key : pos # 0 /\ pos' # pos /\ k = log[pos].key => Seen(k)' = log[pos].before]_vars
=============================================================================
