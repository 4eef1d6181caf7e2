---------------------------- MODULE LockManager ----------------------------
(***************************************************************************)
(* The table lock manager of src/storage/lock_manager.py: SHARED, UREAD    *)
(* and EXCLUSIVE locks over named resources, kept in a dictionary of       *)
(* _LockEntry objects and guarded by one Condition.                        *)
(*                                                                         *)
(* Every action is one critical section of the Condition's RLock.  A       *)
(* thread that cannot be granted a lock parks in Condition.wait, which     *)
(* releases the RLock; notify_all marks every parked thread, and each of   *)
(* them later re-enters the monitor on its own.  An entry is an OBJECT: a  *)
(* parked thread keeps the reference it took when it called acquire, even  *)
(* if _cleanup has removed that object from the dictionary since.          *)
(***************************************************************************)
EXTENDS Integers, FiniteSets

CONSTANTS
  Thread,     \* the threads that call the lock manager
  Txn,        \* transaction ids and session ids: the owners of locks
  Resource,   \* what is locked: ("table", name)
  Entry,      \* identities of _LockEntry objects (an unreferenced one is reused)
  None,       \* Python's None
  TxnOf,      \* the transaction on whose behalf a thread calls
  Timed,      \* whether callers pass a timeout: a set of booleans
  MaxUses     \* bound: the uses of all modes that one transaction has on each resource

Mode   == {"SHARED", "UREAD", "EXCLUSIVE"}
Writer == {"UREAD", "EXCLUSIVE"}

ASSUME ThreadAssumption == IsFiniteSet(Thread) /\ TxnOf \in [Thread -> Txn]
ASSUME NoneAssumption   == None \notin Txn \cup Resource \cup Entry \cup Mode
ASSUME TimedAssumption  == Timed \subseteq BOOLEAN
ASSUME BoundAssumption  == MaxUses \in [Resource -> Nat \ {0}]

VARIABLES
  locks,      \* _locks: the entry of each resource, None when it has none
  entry,      \* the fields of each _LockEntry object
  held,       \* _held_by_transaction: the last mode granted, None when absent
  pc,         \* what each thread is doing in the lock manager
  req,        \* the request of a parked thread
  notified,   \* parked threads that a notify_all has woken
  todo,       \* resources that a thread's release_all has still to visit
  cur         \* the resource that release_all is in the middle of

vars == <<locks, entry, held, pc, req, notified, todo, cur>>

LockEntry == [ shared         : [Txn -> Nat],
               updateOwner    : Txn \cup {None},
               updateCount    : Nat,
               exclusiveOwner : Txn \cup {None},
               exclusiveCount : Nat,
               waitingWriters : Int ]

Request == [ resource : Resource \cup {None}, mode : Mode \cup {None},
             entry : Entry \cup {None}, timed : BOOLEAN ]

EmptyEntry == [ shared         |-> [t \in Txn |-> 0],
                updateOwner    |-> None, updateCount    |-> 0,
                exclusiveOwner |-> None, exclusiveCount |-> 0,
                waitingWriters |-> 0 ]

NoRequest == [resource |-> None, mode |-> None, entry |-> None, timed |-> FALSE]

Init ==
  /\ locks    = [r \in Resource |-> None]
  /\ entry    = [e \in Entry |-> EmptyEntry]
  /\ held     = [t \in Txn |-> [r \in Resource |-> None]]
  /\ pc       = [th \in Thread |-> "idle"]
  /\ req      = [th \in Thread |-> NoRequest]
  /\ notified = {}
  /\ todo     = [th \in Thread |-> {}]
  /\ cur      = [th \in Thread |-> None]

-----------------------------------------------------------------------------
(* Compatibility, over the fields of one entry.                            *)

Free(owner, t) == owner \in {None, t}

CanShare(e, t)   == Free(e.exclusiveOwner, t)
CanUpdate(e, t)  == Free(e.exclusiveOwner, t) /\ Free(e.updateOwner, t)
CanExclude(e, t) == /\ CanUpdate(e, t)
                    /\ \A u \in Txn \ {t} : e.shared[u] = 0

Owns(e, t) == t = e.exclusiveOwner \/ t = e.updateOwner \/ e.shared[t] > 0

\* Mutant of CanAcquire: readers do not yield to waiting writers.
CanAcquireUnfair(e, t, m) ==
  \/ m = "SHARED"    /\ CanShare(e, t)
  \/ m = "UREAD"     /\ CanUpdate(e, t)
  \/ m = "EXCLUSIVE" /\ CanExclude(e, t)

\* The test of the loop in acquire.  A reader yields to waiting writers
\* unless its transaction is already in.
CanAcquire(e, t, m) ==
  \/ m = "SHARED"    /\ CanShare(e, t) /\ (e.waitingWriters = 0 \/ Owns(e, t))
  \/ m = "UREAD"     /\ CanUpdate(e, t)
  \/ m = "EXCLUSIVE" /\ CanExclude(e, t)

\* Mutant of Granted: an upgrade keeps its SHARED count.
GrantedKeepingShared(e, t, m) ==
  CASE m = "SHARED" -> [e EXCEPT !.shared[t] = @ + 1]
    [] m = "UREAD" ->
         [e EXCEPT !.updateOwner = t,
                   !.updateCount = IF e.updateOwner = t THEN @ + 1 ELSE 1]
    [] m = "EXCLUSIVE" ->
         [e EXCEPT !.exclusiveOwner = t,
                   !.exclusiveCount = IF e.exclusiveOwner = t THEN @ + 1 ELSE 1]

\* _grant: an upgrade to EXCLUSIVE forgets the SHARED count, and a SHARED
\* granted to the EXCLUSIVE owner is not counted.
Granted(e, t, m) ==
  CASE m = "SHARED" ->
         IF e.exclusiveOwner = t THEN e ELSE [e EXCEPT !.shared[t] = @ + 1]
    [] m = "UREAD" ->
         [e EXCEPT !.updateOwner = t,
                   !.updateCount = IF e.updateOwner = t THEN @ + 1 ELSE 1]
    [] m = "EXCLUSIVE" ->
         [e EXCEPT !.shared[t] = 0, !.exclusiveOwner = t,
                   !.exclusiveCount = IF e.exclusiveOwner = t THEN @ + 1 ELSE 1]

\* Mutants of Released: the weakest mode goes first, whether or not it is
\* owned; everything the transaction has goes at once.
ReleasedSharedFirst(e, t) == [e EXCEPT !.shared[t] = @ - 1]

ReleasedEverything(e, t) ==
  [e EXCEPT !.shared[t] = 0,
            !.updateOwner = IF @ = t THEN None ELSE @,
            !.exclusiveOwner = IF @ = t THEN None ELSE @]

\* The body of release: the strongest mode that is owned loses one use.
Released(e, t) ==
  CASE e.exclusiveOwner = t ->
         [e EXCEPT !.exclusiveCount = @ - 1,
                   !.exclusiveOwner = IF e.exclusiveCount = 1 THEN None ELSE @]
    [] e.exclusiveOwner # t /\ e.updateOwner = t ->
         [e EXCEPT !.updateCount = @ - 1,
                   !.updateOwner = IF e.updateCount = 1 THEN None ELSE @]
    [] OTHER -> [e EXCEPT !.shared[t] = @ - 1]

\* Mutant of Unused: waiting writers do not keep an entry.
UnusedByOwners(e) ==
  /\ \A t \in Txn : e.shared[t] = 0
  /\ e.updateOwner = None /\ e.exclusiveOwner = None

\* _cleanup's condition: parked readers are not counted.
Unused(e) ==
  /\ \A t \in Txn : e.shared[t] = 0
  /\ e.updateOwner = None /\ e.exclusiveOwner = None
  /\ e.waitingWriters = 0

Uses(e, t) == e.shared[t] + (IF e.updateOwner = t THEN e.updateCount ELSE 0)
                          + (IF e.exclusiveOwner = t THEN e.exclusiveCount ELSE 0)

AddWriter(e, m, n) ==
  IF m \in Writer THEN [e EXCEPT !.waitingWriters = @ + n] ELSE e

-----------------------------------------------------------------------------
(* acquire                                                                 *)

Waiting == {th \in Thread : pc[th] = "waiting"}

\* Nobody can reach the object: a _LockEntry() created now may be this one.
Unreferenced(e) == /\ \A r \in Resource : locks[r] # e
                   /\ \A th \in Waiting : req[th].entry # e

OwnsIn(r, t) == locks[r] # None /\ Owns(entry[locks[r]], t)
Within(r, t) == locks[r] # None => Uses(entry[locks[r]], t) < MaxUses[r]

\* Mutant of EntryOf: setdefault is given the same object every time.
EntryOfDefault(r, e) == e = IF locks[r] = None THEN CHOOSE x \in Entry : TRUE ELSE locks[r]

\* _entry: the entry in the dictionary, or a new one put there.
EntryOf(r, e) == IF locks[r] = None THEN Unreferenced(e) ELSE e = locks[r]
Fields(r, e)  == IF locks[r] = None THEN EmptyEntry ELSE entry[e]

\* Mutant of SetHeld: the dictionary of the transaction is replaced.
SetHeldOnly(t, r, m) ==
  held' = [held EXCEPT ![t] = [s \in Resource |-> IF s = r THEN m ELSE None]]

SetHeld(t, r, m) == held' = [held EXCEPT ![t][r] = m]

\* The loop's first test succeeds.
AcquireAtOnce(th, r, m) ==
  LET t == TxnOf[th] IN
  /\ pc[th] = "idle"
  /\ Within(r, t)
  /\ \E e \in Entry :
       /\ EntryOf(r, e)
       /\ CanAcquire(Fields(r, e), t, m)
       /\ locks' = [locks EXCEPT ![r] = e]
       /\ entry' = [entry EXCEPT ![e] = Granted(Fields(r, e), t, m)]
  /\ SetHeld(t, r, m)
  /\ UNCHANGED <<pc, req, notified, todo, cur>>

\* The first test fails and the thread parks.  A new entry is always
\* grantable, so the entry is one that the dictionary holds.
AcquirePark(th, r, m, timed) ==
  LET t == TxnOf[th]
      e == locks[r] IN
  /\ pc[th] = "idle"
  /\ e # None
  /\ Within(r, t)
  /\ ~ CanAcquire(entry[e], t, m)
  /\ entry' = [entry EXCEPT ![e] = AddWriter(@, m, 1)]
  /\ pc'    = [pc EXCEPT ![th] = "waiting"]
  /\ req'   = [req EXCEPT ![th] =
                 [resource |-> r, mode |-> m, entry |-> e, timed |-> timed]]
  /\ UNCHANGED <<locks, held, notified, todo, cur>>

Grantable(th) == CanAcquire(entry[req[th].entry], TxnOf[th], req[th].mode)

Unpark(th) ==
  /\ pc'       = [pc EXCEPT ![th] = "idle"]
  /\ req'      = [req EXCEPT ![th] = NoRequest]
  /\ notified' = notified \ {th}

\* A parked thread wakes, by notify_all or because its time is up, and the
\* test succeeds.  The entry it tests and updates is the one it parked on.
WakeAndGrant(th) ==
  LET q == req[th] IN
  /\ th \in Waiting
  /\ th \in notified \/ q.timed
  /\ Grantable(th)
  /\ entry' = [entry EXCEPT ![q.entry] =
                 AddWriter(Granted(@, TxnOf[th], q.mode), q.mode, -1)]
  /\ SetHeld(TxnOf[th], q.resource, q.mode)
  /\ Unpark(th)
  /\ UNCHANGED <<locks, todo, cur>>

\* A notified thread finds the test still false and waits again.
WakeAndWait(th) ==
  /\ th \in Waiting \cap notified
  /\ ~ Grantable(th)
  /\ notified' = notified \ {th}
  /\ UNCHANGED <<locks, entry, held, pc, req, todo, cur>>

\* Mutants of TimeOut: the finally clause is missing; the deadline is looked
\* at only after a notification.
TimeOutStillCounted(th) ==
  /\ th \in Waiting
  /\ req[th].timed
  /\ ~ Grantable(th)
  /\ Unpark(th)
  /\ UNCHANGED <<locks, entry, held, todo, cur>>

TimeOutNotified(th) ==
  LET q == req[th] IN
  /\ th \in Waiting \cap notified
  /\ q.timed
  /\ ~ Grantable(th)
  /\ entry' = [entry EXCEPT ![q.entry] = AddWriter(@, q.mode, -1)]
  /\ Unpark(th)
  /\ UNCHANGED <<locks, held, todo, cur>>

\* LockTimeoutError.  The finally clause neither notifies nor cleans up.
TimeOut(th) ==
  LET q == req[th] IN
  /\ th \in Waiting
  /\ q.timed
  /\ ~ Grantable(th)
  /\ entry' = [entry EXCEPT ![q.entry] = AddWriter(@, q.mode, -1)]
  /\ Unpark(th)
  /\ UNCHANGED <<locks, held, todo, cur>>

-----------------------------------------------------------------------------
(* release and release_all                                                 *)

\* _cleanup: an entry without owners or waiting writers leaves the dictionary.
LocksAfter(r, e) == IF Unused(e) THEN [locks EXCEPT ![r] = None] ELSE locks

\* Mutant of HeldAfter: the resource is forgotten with its first use.
HeldAfterFirst(t, r, e) == [held EXCEPT ![t][r] = None]

\* _remove_held_reference: the last use gone, the resource is not held.
HeldAfter(t, r, e) == IF Owns(e, t) THEN held ELSE [held EXCEPT ![t][r] = None]

\* Mutant of ReleaseOne: notify instead of notify_all.
ReleaseOneNotify(t, r) ==
  LET e == Released(entry[locks[r]], t) IN
  /\ OwnsIn(r, t)
  /\ entry'    = [entry EXCEPT ![locks[r]] = e]
  /\ locks'    = LocksAfter(r, e)
  /\ held'     = HeldAfter(t, r, e)
  /\ \/ Waiting = notified /\ notified' = notified
     \/ \E w \in Waiting \ notified : notified' = notified \cup {w}

\* release, for a transaction that owns the resource's entry.
ReleaseOne(t, r) ==
  LET e == Released(entry[locks[r]], t) IN
  /\ OwnsIn(r, t)
  /\ entry'    = [entry EXCEPT ![locks[r]] = e]
  /\ locks'    = LocksAfter(r, e)
  /\ held'     = HeldAfter(t, r, e)
  /\ notified' = Waiting

\* A caller's release; without ownership it raises LockError and changes nothing.
Release(th, r) ==
  /\ pc[th] = "idle"
  /\ ReleaseOne(TxnOf[th], r)
  /\ UNCHANGED <<pc, req, todo, cur>>

HeldBy(t) == {r \in Resource : held[t][r] # None}

\* release_all copies the list of held resources: on entry and again after
\* every pass over it, until the list is empty.
ReleaseAllList(th) ==
  LET rs == HeldBy(TxnOf[th]) IN
  /\ pc[th] \in {"idle", "listing"}
  /\ pc'   = [pc EXCEPT ![th] = IF rs = {} THEN "idle" ELSE "releasing"]
  /\ todo' = [todo EXCEPT ![th] = rs]
  /\ UNCHANGED <<locks, entry, held, req, notified, cur>>

\* The inner loop is done with resource r.
NextResource(th, r) ==
  /\ todo' = [todo EXCEPT ![th] = @ \ {r}]
  /\ cur'  = [cur EXCEPT ![th] = None]
  /\ pc'   = [pc EXCEPT ![th] = IF todo[th] \subseteq {r} THEN "listing"
                                                          ELSE "releasing"]

\* The inner loop's call of release: it succeeds, or LockError ends the loop.
ReleaseAllStep(th, r) ==
  LET t == TxnOf[th] IN
  /\ pc[th] = "releasing"
  /\ r \in todo[th]
  /\ cur[th] \in {None, r}
  /\ \/ /\ ReleaseOne(t, r)
        /\ pc'  = [pc EXCEPT ![th] = "checking"]
        /\ cur' = [cur EXCEPT ![th] = r]
        /\ UNCHANGED <<req, todo>>
     \/ /\ ~ OwnsIn(r, t)
        /\ NextResource(th, r)
        /\ UNCHANGED <<locks, entry, held, req, notified>>

\* The inner loop's second critical section: is r still owned?
ReleaseAllCheck(th) ==
  /\ pc[th] = "checking"
  /\ IF OwnsIn(cur[th], TxnOf[th])
       THEN pc' = [pc EXCEPT ![th] = "releasing"] /\ UNCHANGED <<todo, cur>>
       ELSE NextResource(th, cur[th])
  /\ UNCHANGED <<locks, entry, held, req, notified>>

-----------------------------------------------------------------------------
Acquire(th) == \E r \in Resource, m \in Mode :
                 \/ AcquireAtOnce(th, r, m)
                 \/ \E timed \in Timed : AcquirePark(th, r, m, timed)

ReleaseAllGoesOn(th) == \/ pc[th] = "listing" /\ ReleaseAllList(th)
                        \/ \E r \in Resource : ReleaseAllStep(th, r)
                        \/ ReleaseAllCheck(th)

Next == \E th \in Thread :
          \/ Acquire(th)
          \/ WakeAndGrant(th)
          \/ WakeAndWait(th)
          \/ TimeOut(th)
          \/ \E r \in Resource : Release(th, r)
          \/ ReleaseAllList(th)
          \/ \E r \in Resource : ReleaseAllStep(th, r)
          \/ ReleaseAllCheck(th)

Spec == Init /\ [][Next]_vars

\* The operating system runs a notified thread, the clock reaches a parked
\* thread's deadline, and a thread inside release_all keeps going.  Nothing
\* obliges an idle caller to call.
Fairness ==
  \A th \in Thread :
    /\ WF_vars(WakeAndGrant(th) \/ WakeAndWait(th) \/ TimeOut(th))
    /\ WF_vars(WakeAndGrant(th) \/ TimeOut(th))
    /\ WF_vars(ReleaseAllGoesOn(th))

FairSpec == Spec /\ Fairness
-----------------------------------------------------------------------------
(* What must hold.                                                         *)

\* Type invariant: a parked thread's request is complete, and a thread
\* between release and its check knows the resource.
TypeOK ==
  /\ locks    \in [Resource -> Entry \cup {None}]
  /\ entry    \in [Entry -> LockEntry]
  /\ held     \in [Txn -> [Resource -> Mode \cup {None}]]
  /\ pc       \in [Thread -> {"idle", "waiting", "listing", "releasing", "checking"}]
  /\ req      \in [Thread -> Request]
  /\ notified \subseteq Thread
  /\ todo     \in [Thread -> SUBSET Resource]
  /\ cur      \in [Thread -> Resource \cup {None}]
  /\ \A th \in Waiting : /\ req[th].resource \in Resource
                         /\ req[th].mode \in Mode
                         /\ req[th].entry \in Entry
  /\ \A th \in Thread : pc[th] = "checking" => cur[th] \in Resource

\* An EXCLUSIVE owner is the only owner, and an owner has a use left.
Coherent(e) ==
  \A t, u \in Txn :
    /\ e.exclusiveOwner = t => /\ e.exclusiveCount > 0
                               /\ e.shared[u] = 0
                               /\ e.updateOwner \in {None, t}
    /\ e.updateOwner = t => e.updateCount > 0

\* The compatibility table, for every entry object: an EXCLUSIVE owner shares
\* it with nobody and an owner always has a use left to release, whatever the
\* order of upgrades, reentrant acquisitions and partial releases so far.
Exclusion == \A e \in Entry : Coherent(entry[e])

\* Two resources never share an entry, and an entry that some thread is
\* parked on is in the dictionary under that thread's resource or not at all:
\* setdefault never hands out an object that is still referred to.
References ==
  /\ \A r, s \in Resource : locks[r] # None /\ locks[r] = locks[s] => r = s
  /\ \A th \in Waiting, r \in Resource :
       locks[r] = req[th].entry => r = req[th].resource

WritersAt(e) == {th \in Waiting : req[th].entry = e /\ req[th].mode \in Writer}

\* waiting_writers counts the parked writers exactly, through grants, timeouts
\* and several threads of one transaction: readers yield to it and _cleanup
\* relies on it.
WritersCounted ==
  \A e \in Entry : entry[e].waitingWriters = Cardinality(WritersAt(e))

\* A parked writer is parked on the entry that new callers find: _cleanup
\* never takes away the entry from under it.
WriterAttached ==
  \A th \in Waiting : req[th].mode \in Writer => locks[req[th].resource] = req[th].entry

\* What release_all visits, _held_by_transaction, misses no lock of the table.
OwnedIsHeld ==
  \A r \in Resource, t \in Txn : OwnsIn(r, t) => held[t][r] # None

\* No writer sleeps through its turn: one that is parked and not notified
\* could not be granted its lock now.
WriterWoken ==
  \A th \in Waiting : req[th].mode \in Writer /\ Grantable(th) => th \in notified

\* When release_all returns, its transaction owns nothing in the lock table.
ReleaseAllComplete ==
  [][\A th \in Thread, r \in Resource :
       pc[th] = "listing" /\ pc'[th] = "idle" => ~ OwnsIn(r, TxnOf[th])]_vars

\* Writer preference: a transaction that is not in yet becomes no reader of
\* an entry on which some thread is parked for UREAD or EXCLUSIVE.
WriterFirst ==
  [][\A e \in Entry, t \in Txn :
       WritersAt(e) # {} /\ ~ Owns(entry[e], t) => entry'[e].shared[t] = 0]_vars

\* A call of acquire that passes a timeout returns, with the lock or with
\* LockTimeoutError: two upgrades do not wait for each other forever.
AcquireReturns ==
  \A th \in Thread : (pc[th] = "waiting" /\ req[th].timed) ~> (pc[th] = "idle")

-----------------------------------------------------------------------------
(* The abstract lock table that the dictionary implements.                 *)

ModesOf(e, t) ==
  (IF e.shared[t] > 0 THEN {"SHARED"} ELSE {}) \cup
  (IF e.updateOwner = t THEN {"UREAD"} ELSE {}) \cup
  (IF e.exclusiveOwner = t THEN {"EXCLUSIVE"} ELSE {})

Owners == [r \in Resource |-> [t \in Txn |->
             IF locks[r] = None THEN {} ELSE ModesOf(entry[locks[r]], t)]]

Table == INSTANCE LockTable WITH owners <- Owners

\* Every step of the lock manager is a step of the lock table or changes no
\* ownership: a grant never takes what another transaction has, a timeout or
\* a wake-up changes no ownership, removing an entry loses none.
ImplementsLockTable == Table!TableSpec

-----------------------------------------------------------------------------
(* What the documentation promises and the code does not keep: an entry    *)
(* removed by _cleanup lives on in the parked readers that refer to it.    *)

\* A transaction that was granted EXCLUSIVE is alone with the resource.
ExclusiveIsAlone ==
  \A r \in Resource, t, u \in Txn :
    held[t][r] = "EXCLUSIVE" /\ t # u => held[u][r] = None

\* A parked reader that could be granted its lock has been notified.
ReaderWoken ==
  \A th \in Waiting : req[th].mode = "SHARED" /\ Grantable(th) => th \in notified
=============================================================================
