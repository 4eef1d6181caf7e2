------------------------- MODULE LockManagerProofs -------------------------
(***************************************************************************)
(* Proofs about LockManager, for any threads, transactions, resources and  *)
(* entries.  The operators on one entry come first; then the inductive     *)
(* invariant, one lemma per action; then the theorems.                     *)
(***************************************************************************)
EXTENDS LockManager, FiniteSetTheorems, TLAPS

\* A new entry belongs to nobody and is coherent.
LEMMA EmptyEntryOK ==
  /\ EmptyEntry \in LockEntry
  /\ Coherent(EmptyEntry)
  /\ EmptyEntry.waitingWriters = 0
  /\ \A t \in Txn : ~ Owns(EmptyEntry, t)
BY NoneAssumption DEF EmptyEntry, LockEntry, Coherent, Owns

\* Granting a mode that the test admits keeps an entry coherent, leaves its
\* writer count alone and makes only the requester an owner.
LEMMA GrantedOK ==
  ASSUME NEW e \in LockEntry, NEW t \in Txn, NEW m \in Mode,
         Coherent(e), CanAcquire(e, t, m)
  PROVE  /\ Granted(e, t, m) \in LockEntry
         /\ Coherent(Granted(e, t, m))
         /\ Granted(e, t, m).waitingWriters = e.waitingWriters
         /\ \A u \in Txn : Owns(Granted(e, t, m), u) => u = t \/ Owns(e, u)
<1> DEFINE g == Granted(e, t, m)
<1>1. CASE m = "SHARED" /\ e.exclusiveOwner = t
  <2>1. g = e
    BY <1>1 DEF Granted
  <2> QED BY <2>1
<1>2. CASE m = "SHARED" /\ e.exclusiveOwner # t
  <2>1. g = [e EXCEPT !.shared[t] = @ + 1]
    BY <1>2 DEF Granted
  <2>2. e.exclusiveOwner = None
    BY <1>2 DEF CanAcquire, CanShare, Free
  <2> QED BY <2>1, <2>2, NoneAssumption DEF LockEntry, Coherent, Owns
<1>3. CASE m = "UREAD"
  <2>1. g = [e EXCEPT !.updateOwner = t,
                      !.updateCount = IF e.updateOwner = t THEN @ + 1 ELSE 1]
    BY <1>3 DEF Granted
  <2>2. e.exclusiveOwner \in {None, t} /\ e.updateOwner \in {None, t}
    BY <1>3 DEF CanAcquire, CanUpdate, Free
  <2>t. (IF e.updateOwner = t THEN e.updateCount + 1 ELSE 1) \in Nat
    BY DEF LockEntry
  <2>3. g \in LockEntry
    BY <2>t, <2>1, <2>2, NoneAssumption DEF LockEntry, Coherent
  <2>4. Coherent(g)
    BY <2>1, <2>2, NoneAssumption DEF LockEntry, Coherent
  <2>5. g.waitingWriters = e.waitingWriters
    BY <2>1, <2>2, NoneAssumption DEF LockEntry, Coherent
  <2>6. \A u \in Txn : Owns(g, u) => u = t \/ Owns(e, u)
    BY <2>1, <2>2, NoneAssumption DEF LockEntry, Owns
  <2> QED BY <2>3, <2>4, <2>5, <2>6
<1>4. CASE m = "EXCLUSIVE"
  <2>1. g = [e EXCEPT !.shared[t] = 0, !.exclusiveOwner = t,
                !.exclusiveCount = IF e.exclusiveOwner = t THEN @ + 1 ELSE 1]
    BY <1>4 DEF Granted
  <2>2. /\ e.exclusiveOwner \in {None, t} /\ e.updateOwner \in {None, t}
        /\ \A u \in Txn \ {t} : e.shared[u] = 0
    BY <1>4 DEF CanAcquire, CanExclude, CanUpdate, Free
  <2>t. /\ (IF e.exclusiveOwner = t THEN e.exclusiveCount + 1 ELSE 1) \in Nat
        /\ [e.shared EXCEPT ![t] = 0] \in [Txn -> Nat]
    BY DEF LockEntry
  <2>3. g \in LockEntry
    BY <2>t, <2>1, <2>2, NoneAssumption DEF LockEntry, Coherent
  <2>4. Coherent(g)
    BY <2>1, <2>2, NoneAssumption DEF LockEntry, Coherent
  <2>5. g.waitingWriters = e.waitingWriters
    BY <2>1, <2>2, NoneAssumption DEF LockEntry, Coherent
  <2>6. \A u \in Txn : Owns(g, u) => u = t \/ Owns(e, u)
    BY <2>1, <2>2, NoneAssumption DEF LockEntry, Owns
  <2> QED BY <2>3, <2>4, <2>5, <2>6
<1> QED BY <1>1, <1>2, <1>3, <1>4 DEF Mode

\* A release by an owner keeps an entry coherent, leaves its writer count
\* alone and makes nobody an owner.
LEMMA ReleasedOK ==
  ASSUME NEW e \in LockEntry, NEW t \in Txn, Coherent(e), Owns(e, t)
  PROVE  /\ Released(e, t) \in LockEntry
         /\ Coherent(Released(e, t))
         /\ Released(e, t).waitingWriters = e.waitingWriters
         /\ \A u \in Txn : Owns(Released(e, t), u) => Owns(e, u)
<1> DEFINE g == Released(e, t)
<1>1. CASE e.exclusiveOwner = t
  <2>1. g = [e EXCEPT !.exclusiveCount = @ - 1,
               !.exclusiveOwner = IF e.exclusiveCount = 1 THEN None ELSE @]
    BY <1>1 DEF Released
  <2>2. e.exclusiveCount > 0
    BY <1>1 DEF Coherent
  <2>t. /\ (IF e.exclusiveCount = 1 THEN None ELSE e.exclusiveOwner) \in Txn \cup {None}
        /\ e.exclusiveCount - 1 \in Nat
    BY <2>2 DEF LockEntry
  <2>3. g \in LockEntry
    BY <2>t, <1>1, <2>1, <2>2, NoneAssumption DEF LockEntry, Coherent
  <2>4. Coherent(g)
    BY <1>1, <2>1, <2>2, NoneAssumption DEF LockEntry, Coherent
  <2>5. g.waitingWriters = e.waitingWriters
    BY <1>1, <2>1, <2>2, NoneAssumption DEF LockEntry, Coherent
  <2>6. \A u \in Txn : Owns(g, u) => Owns(e, u)
    BY <1>1, <2>1, <2>2, NoneAssumption DEF LockEntry, Owns
  <2> QED BY <2>3, <2>4, <2>5, <2>6
<1>2. CASE e.exclusiveOwner # t /\ e.updateOwner = t
  <2>1. g = [e EXCEPT !.updateCount = @ - 1,
               !.updateOwner = IF e.updateCount = 1 THEN None ELSE @]
    BY <1>2 DEF Released
  <2>2. e.updateCount > 0
    BY <1>2 DEF Coherent
  <2>t. /\ (IF e.updateCount = 1 THEN None ELSE e.updateOwner) \in Txn \cup {None}
        /\ e.updateCount - 1 \in Nat
    BY <2>2 DEF LockEntry
  <2>3. g \in LockEntry
    BY <2>t, <1>2, <2>1, <2>2, NoneAssumption DEF LockEntry, Coherent
  <2>4. Coherent(g)
    BY <1>2, <2>1, <2>2, NoneAssumption DEF LockEntry, Coherent
  <2>5. g.waitingWriters = e.waitingWriters
    BY <1>2, <2>1, <2>2, NoneAssumption DEF LockEntry, Coherent
  <2>6. \A u \in Txn : Owns(g, u) => Owns(e, u)
    BY <1>2, <2>1, <2>2, NoneAssumption DEF LockEntry, Owns
  <2> QED BY <2>3, <2>4, <2>5, <2>6
<1>3. CASE e.exclusiveOwner # t /\ e.updateOwner # t
  <2>1. g = [e EXCEPT !.shared[t] = @ - 1]
    BY <1>3 DEF Released
  <2>2. e.shared[t] > 0
    BY <1>3 DEF Owns
  <2>3. e.exclusiveOwner = None
    BY <2>2 DEF Coherent, LockEntry
  <2> QED BY <1>3, <2>1, <2>2, <2>3, NoneAssumption DEF LockEntry, Coherent, Owns
<1> QED BY <1>1, <1>2, <1>3

\* Counting a parked writer in or out touches nothing else.
LEMMA AddWriterOK ==
  ASSUME NEW e \in LockEntry, NEW m, NEW n \in Int, Coherent(e)
  PROVE  /\ AddWriter(e, m, n) \in LockEntry
         /\ Coherent(AddWriter(e, m, n))
         /\ AddWriter(e, m, n).waitingWriters =
              e.waitingWriters + (IF m \in Writer THEN n ELSE 0)
         /\ \A u \in Txn : Owns(AddWriter(e, m, n), u) <=> Owns(e, u)
BY DEF AddWriter, LockEntry, Coherent, Owns
-----------------------------------------------------------------------------
(* The inductive invariant.  Exclusion alone is not inductive: a release    *)
(* needs positive counts, _cleanup needs the writer count to be exact, and  *)
(* the bookkeeping of held needs entries that no two resources share.       *)

IInv == /\ TypeOK
        /\ Exclusion
        /\ References
        /\ WritersCounted
        /\ WriterAttached
        /\ OwnedIsHeld

\* The initial state satisfies the invariant.
LEMMA InitIInv == Init => IInv
<1> SUFFICES ASSUME Init PROVE IInv
  OBVIOUS
<1> USE DEF Init
<1>1. Waiting = {}
  BY DEF Waiting
<1>2. TypeOK
  BY <1>1, EmptyEntryOK DEF TypeOK, Request, NoRequest
<1>3. Exclusion
  BY EmptyEntryOK DEF Exclusion
<1>4. References
  BY <1>1 DEF References
<1>5. WritersCounted
  <2>1. \A e \in Entry : WritersAt(e) = {}
    BY <1>1 DEF WritersAt
  <2> QED BY <2>1, EmptyEntryOK, FS_EmptySet DEF WritersCounted
<1>6. WriterAttached /\ OwnedIsHeld
  BY <1>1 DEF WriterAttached, OwnedIsHeld, OwnsIn
<1> QED BY <1>2, <1>3, <1>4, <1>5, <1>6 DEF IInv

\* The first test succeeds: the entry is the dictionary's or an unreferenced one.
LEMMA AcquireAtOnceIInv ==
  ASSUME IInv, NEW th \in Thread, NEW r \in Resource, NEW m \in Mode,
         AcquireAtOnce(th, r, m)
  PROVE  IInv'
<1> DEFINE t == TxnOf[th]
<1> USE DEF IInv
<1>1. t \in Txn
  BY ThreadAssumption
<1>2. PICK e \in Entry :
        /\ EntryOf(r, e)
        /\ CanAcquire(Fields(r, e), t, m)
        /\ locks' = [locks EXCEPT ![r] = e]
        /\ entry' = [entry EXCEPT ![e] = Granted(Fields(r, e), t, m)]
  BY DEF AcquireAtOnce
<1> DEFINE f == Fields(r, e)
           g == Granted(f, t, m)
<1>3. /\ held' = [held EXCEPT ![t][r] = m]
      /\ UNCHANGED <<pc, req, notified, todo, cur>>
  BY DEF AcquireAtOnce, SetHeld
<1>4. /\ Waiting' = Waiting
      /\ \A x \in Entry : WritersAt(x)' = WritersAt(x)
  BY <1>3 DEF Waiting, WritersAt
<1>5. f \in LockEntry /\ Coherent(f)
  BY EmptyEntryOK DEF Fields, TypeOK, Exclusion
<1>6. /\ g \in LockEntry
      /\ Coherent(g)
      /\ g.waitingWriters = f.waitingWriters
      /\ \A u \in Txn : Owns(g, u) => u = t \/ Owns(f, u)
  BY <1>1, <1>2, <1>5, GrantedOK
<1>7. /\ \A s \in Resource : locks[s] = e => s = r
      /\ \A w \in Waiting : req[w].entry = e => req[w].resource = r
      /\ e # None
  BY <1>2, NoneAssumption DEF EntryOf, Unreferenced, References
<1> HIDE DEF f, g
<1>8. entry' = [entry EXCEPT ![e] = g] /\ entry' \in [Entry -> LockEntry] /\ entry'[e] = g
  BY <1>2, <1>6 DEF TypeOK, f, g
<1>9. TypeOK'
  BY <1>1, <1>2, <1>3, <1>4, <1>8 DEF TypeOK
<1>10. Exclusion'
  BY <1>6, <1>8 DEF Exclusion, TypeOK
<1>11. References'
  BY <1>2, <1>3, <1>4, <1>7 DEF References, TypeOK
<1>12. WritersCounted'
  <2>1. f.waitingWriters = Cardinality(WritersAt(e))
    <3>1. CASE locks[r] = None
      <4>1. WritersAt(e) = {}
        BY <3>1, <1>2 DEF EntryOf, Unreferenced, WritersAt
      <4> QED BY <3>1, <4>1, EmptyEntryOK, FS_EmptySet DEF f, Fields
    <3>2. CASE locks[r] # None
      BY <3>2 DEF f, Fields, WritersCounted
    <3> QED BY <3>1, <3>2
  <2> QED BY <2>1, <1>4, <1>6, <1>8 DEF WritersCounted, TypeOK
<1>13. WriterAttached'
  <2> SUFFICES ASSUME NEW w \in Waiting, req[w].mode \in Writer
               PROVE  locks'[req[w].resource] = req[w].entry
    BY <1>3, <1>4 DEF WriterAttached
  <2>1. locks[req[w].resource] = req[w].entry /\ req[w].entry \in Entry /\ req[w].resource \in Resource
    BY DEF WriterAttached, TypeOK
  <2>2. req[w].resource = r => e = locks[r]
    BY <2>1, <1>2, NoneAssumption DEF EntryOf
  <2> QED BY <2>1, <2>2, <1>2 DEF TypeOK
<1>14. OwnedIsHeld'
  <2> SUFFICES ASSUME NEW s \in Resource, NEW u \in Txn, OwnsIn(s, u)'
               PROVE  held'[u][s] # None
    BY DEF OwnedIsHeld
  <2>1. CASE s = r
    <3>1. Owns(g, u)
      BY <2>1, <1>2, <1>8 DEF OwnsIn, TypeOK
    <3>2. CASE u = t
      BY <2>1, <3>2, <1>3, NoneAssumption DEF TypeOK
    <3>3. CASE u # t
      <4>1. Owns(f, u)
        BY <3>1, <3>3, <1>6
      <4>2. OwnsIn(r, u)
        BY <4>1, <1>2, EmptyEntryOK DEF f, Fields, EntryOf, OwnsIn
      <4> QED BY <4>2, <2>1, <3>3, <1>1, <1>3 DEF OwnedIsHeld, TypeOK
    <3> QED BY <3>2, <3>3
  <2>2. CASE s # r
    <3>1. locks'[s] = locks[s] /\ (locks[s] # None => locks[s] \in Entry /\ locks[s] # e)
      BY <2>2, <1>2, <1>7 DEF TypeOK
    <3>2. OwnsIn(s, u)
      BY <3>1, <1>8 DEF OwnsIn, TypeOK
    <3> QED BY <3>2, <2>2, <1>1, <1>3 DEF OwnedIsHeld, TypeOK
  <2> QED BY <2>1, <2>2
<1> QED BY <1>9, <1>10, <1>11, <1>12, <1>13, <1>14

\* The first test fails: a parked writer is counted on the dictionary's entry.
LEMMA AcquireParkIInv ==
  ASSUME IInv, NEW th \in Thread, NEW r \in Resource, NEW m \in Mode,
         NEW timed \in Timed, AcquirePark(th, r, m, timed)
  PROVE  IInv'
<1> DEFINE e == locks[r]
           g == AddWriter(entry[e], m, 1)
<1> USE DEF IInv
<1>1. /\ pc[th] = "idle" /\ e \in Entry
      /\ entry' = [entry EXCEPT ![e] = g]
      /\ pc' = [pc EXCEPT ![th] = "waiting"]
      /\ req' = [req EXCEPT ![th] =
                   [resource |-> r, mode |-> m, entry |-> e, timed |-> timed]]
      /\ UNCHANGED <<locks, held, notified, todo, cur>>
  BY DEF AcquirePark, TypeOK
<1>2. entry[e] \in LockEntry /\ Coherent(entry[e])
  BY <1>1 DEF TypeOK, Exclusion
<1>3. /\ g \in LockEntry
      /\ Coherent(g)
      /\ g.waitingWriters = entry[e].waitingWriters + (IF m \in Writer THEN 1 ELSE 0)
      /\ \A u \in Txn : Owns(g, u) <=> Owns(entry[e], u)
  BY <1>2, AddWriterOK
<1>4. /\ th \notin Waiting
      /\ Waiting' = Waiting \cup {th}
      /\ \A w \in Waiting : req'[w] = req[w]
      /\ req'[th].resource = r /\ req'[th].mode = m /\ req'[th].entry = e
  BY <1>1 DEF Waiting, TypeOK
<1> HIDE DEF e, g
<1>5. TypeOK'
  <2>1. /\ entry' \in [Entry -> LockEntry]
        /\ pc' \in [Thread -> {"idle", "waiting", "listing", "releasing", "checking"}]
        /\ req' \in [Thread -> Request]
    BY <1>1, <1>3, TimedAssumption DEF TypeOK, Request
  <2>2. \A w \in Waiting' : /\ req'[w].resource \in Resource
                            /\ req'[w].mode \in Mode
                            /\ req'[w].entry \in Entry
    BY <1>1, <1>4 DEF TypeOK
  <2> QED BY <1>1, <2>1, <2>2 DEF TypeOK
<1>6. Exclusion'
  BY <1>1, <1>3 DEF Exclusion, TypeOK
<1>7. References'
  BY <1>1, <1>4, NoneAssumption DEF References, e
<1>8. WritersCounted'
  <2> SUFFICES ASSUME NEW x \in Entry
               PROVE  entry'[x].waitingWriters = Cardinality(WritersAt(x)')
    BY DEF WritersCounted
  <2>1. IsFiniteSet(WritersAt(x)) /\ th \notin WritersAt(x)
    BY <1>4, ThreadAssumption, FS_Subset DEF WritersAt, Waiting
  <2>2. CASE x = e /\ m \in Writer
    <3>1. WritersAt(x)' = WritersAt(x) \cup {th}
      BY <2>2, <1>4 DEF WritersAt
    <3>2. Cardinality(WritersAt(x)') = Cardinality(WritersAt(x)) + 1
      BY <2>1, <3>1, FS_AddElement
    <3> QED BY <2>2, <3>2, <1>1, <1>3 DEF WritersCounted, TypeOK
  <2>3. CASE ~ (x = e /\ m \in Writer)
    <3>1. WritersAt(x)' = WritersAt(x)
      BY <2>3, <1>4 DEF WritersAt
    <3>2. entry'[x].waitingWriters = entry[x].waitingWriters
      BY <2>3, <1>1, <1>3 DEF TypeOK, LockEntry
    <3> QED BY <3>1, <3>2 DEF WritersCounted
  <2> QED BY <2>2, <2>3
<1>9. WriterAttached'
  BY <1>1, <1>4 DEF WriterAttached, e
<1>10. OwnedIsHeld'
  BY <1>1, <1>3 DEF OwnedIsHeld, OwnsIn, TypeOK
<1> QED BY <1>5, <1>6, <1>7, <1>8, <1>9, <1>10

\* A parked thread leaves: with the lock (granted) or without it.  Its entry
\* keeps its owners, except that the thread's transaction may have become one,
\* and is recorded as holding the resource if it has.
LEMMA UnparkIInv ==
  ASSUME IInv, NEW th \in Waiting, NEW g \in LockEntry,
         Coherent(g),
         g.waitingWriters = entry[req[th].entry].waitingWriters
                              + (IF req[th].mode \in Writer THEN -1 ELSE 0),
         \A u \in Txn : Owns(g, u) =>
           \/ Owns(entry[req[th].entry], u)
           \/ u = TxnOf[th] /\ held'[u][req[th].resource] # None,
         entry' = [entry EXCEPT ![req[th].entry] = g],
         held' \in [Txn -> [Resource -> Mode \cup {None}]],
         \A u \in Txn, s \in Resource : held[u][s] # None => held'[u][s] # None,
         Unpark(th),
         UNCHANGED <<locks, todo, cur>>
  PROVE  IInv'
<1> DEFINE e == req[th].entry
           r == req[th].resource
           m == req[th].mode
<1> USE DEF IInv
<1>1. th \in Thread /\ e \in Entry /\ r \in Resource /\ m \in Mode
  BY DEF TypeOK, Waiting
<1>2. /\ Waiting' = Waiting \ {th}
      /\ \A w \in Waiting' : req'[w] = req[w]
  BY <1>1 DEF Unpark, Waiting, TypeOK
<1>3. TypeOK'
  BY <1>1, <1>2 DEF TypeOK, Unpark, Request, NoRequest
<1>4. Exclusion'
  BY DEF Exclusion, TypeOK
<1>5. References'
  BY <1>2 DEF References
<1>6. WritersCounted'
  <2> SUFFICES ASSUME NEW x \in Entry
               PROVE  entry'[x].waitingWriters = Cardinality(WritersAt(x)')
    BY DEF WritersCounted
  <2>1. IsFiniteSet(WritersAt(x))
    BY ThreadAssumption, FS_Subset DEF WritersAt, Waiting
  <2>2. CASE x = e /\ m \in Writer
    <3>1. th \in WritersAt(x) /\ WritersAt(x)' = WritersAt(x) \ {th}
      BY <2>2, <1>2 DEF WritersAt
    <3>2. /\ Cardinality(WritersAt(x)') = Cardinality(WritersAt(x)) - 1
          /\ Cardinality(WritersAt(x)) \in Nat
      BY <2>1, <3>1, FS_RemoveElement, FS_CardinalityType
    <3>3. entry'[x].waitingWriters = entry[x].waitingWriters - 1
      BY <2>2, <1>1 DEF TypeOK, LockEntry
    <3> QED BY <3>2, <3>3 DEF WritersCounted
  <2>3. CASE ~ (x = e /\ m \in Writer)
    <3>1. WritersAt(x)' = WritersAt(x)
      BY <2>3, <1>2 DEF WritersAt
    <3>2. entry'[x].waitingWriters = entry[x].waitingWriters
      BY <2>3, <1>1 DEF TypeOK, LockEntry
    <3> QED BY <3>1, <3>2 DEF WritersCounted
  <2> QED BY <2>2, <2>3
<1>7. WriterAttached'
  BY <1>2 DEF WriterAttached
<1>8. OwnedIsHeld'
  <2> SUFFICES ASSUME NEW s \in Resource, NEW u \in Txn, OwnsIn(s, u)'
               PROVE  held'[u][s] # None
    BY DEF OwnedIsHeld
  <2>1. CASE locks[s] = e
    <3>1. s = r
      BY <2>1 DEF References
    <3>2. Owns(g, u)
      BY <2>1, <1>1 DEF OwnsIn, TypeOK
    <3> QED BY <2>1, <3>1, <3>2, NoneAssumption, <1>1 DEF OwnedIsHeld, OwnsIn
  <2>2. CASE locks[s] # e
    <3>1. OwnsIn(s, u)
      BY <2>2, <1>1 DEF OwnsIn, TypeOK
    <3> QED BY <3>1 DEF OwnedIsHeld
  <2> QED BY <2>1, <2>2
<1> QED BY <1>3, <1>4, <1>5, <1>6, <1>7, <1>8

\* A parked thread is granted its lock.
LEMMA WakeAndGrantIInv ==
  ASSUME IInv, NEW th \in Thread, WakeAndGrant(th)
  PROVE  IInv'
<1> DEFINE q == req[th]
           t == TxnOf[th]
           f == entry[q.entry]
           g == Granted(f, t, q.mode)
           h == AddWriter(g, q.mode, -1)
<1> USE DEF IInv
<1>1. /\ th \in Waiting
      /\ q.resource \in Resource /\ q.mode \in Mode /\ q.entry \in Entry
      /\ t \in Txn
  BY ThreadAssumption DEF WakeAndGrant, TypeOK
<1>2. f \in LockEntry /\ Coherent(f) /\ CanAcquire(f, t, q.mode)
  BY <1>1 DEF TypeOK, Exclusion, WakeAndGrant, Grantable
<1>3. /\ g \in LockEntry
      /\ Coherent(g)
      /\ g.waitingWriters = f.waitingWriters
      /\ \A u \in Txn : Owns(g, u) => u = t \/ Owns(f, u)
  BY <1>1, <1>2, GrantedOK
<1>4. /\ h \in LockEntry
      /\ Coherent(h)
      /\ h.waitingWriters = g.waitingWriters + (IF q.mode \in Writer THEN -1 ELSE 0)
      /\ \A u \in Txn : Owns(h, u) <=> Owns(g, u)
  BY <1>3, AddWriterOK
<1>5. /\ entry' = [entry EXCEPT ![q.entry] = h]
      /\ held' = [held EXCEPT ![t][q.resource] = q.mode]
      /\ Unpark(th)
      /\ UNCHANGED <<locks, todo, cur>>
  BY DEF WakeAndGrant, SetHeld
<1>6. /\ held' \in [Txn -> [Resource -> Mode \cup {None}]]
      /\ held'[t][q.resource] # None
      /\ \A u \in Txn, s \in Resource : held[u][s] # None => held'[u][s] # None
  BY <1>1, <1>5, NoneAssumption DEF TypeOK
<1>7. \A u \in Txn : Owns(h, u) =>
        Owns(f, u) \/ (u = t /\ held'[u][q.resource] # None)
  BY <1>3, <1>4, <1>6
<1>8. h.waitingWriters = f.waitingWriters + (IF q.mode \in Writer THEN -1 ELSE 0)
  BY <1>3, <1>4
<1> HIDE DEF f, g, h
<1> QED BY <1>1, <1>4, <1>5, <1>6, <1>7, <1>8, UnparkIInv DEF f

\* A parked thread gives up.
LEMMA TimeOutIInv ==
  ASSUME IInv, NEW th \in Thread, TimeOut(th)
  PROVE  IInv'
<1> DEFINE q == req[th]
           f == entry[q.entry]
           h == AddWriter(f, q.mode, -1)
<1> USE DEF IInv
<1>1. /\ th \in Waiting
      /\ q.resource \in Resource /\ q.mode \in Mode /\ q.entry \in Entry
  BY DEF TimeOut, TypeOK
<1>2. f \in LockEntry /\ Coherent(f)
  BY <1>1 DEF TypeOK, Exclusion
<1>3. /\ h \in LockEntry
      /\ Coherent(h)
      /\ h.waitingWriters = f.waitingWriters + (IF q.mode \in Writer THEN -1 ELSE 0)
      /\ \A u \in Txn : Owns(h, u) <=> Owns(f, u)
  BY <1>2, AddWriterOK
<1>4. /\ entry' = [entry EXCEPT ![q.entry] = h]
      /\ Unpark(th)
      /\ UNCHANGED <<locks, held, todo, cur>>
  BY DEF TimeOut
<1>5. held' \in [Txn -> [Resource -> Mode \cup {None}]]
  BY <1>4 DEF TypeOK
<1> HIDE DEF f, h
<1> QED BY <1>1, <1>3, <1>4, <1>5, UnparkIInv DEF f

\* release keeps the types: a use that is released was there.
LEMMA ReleaseOneTypes ==
  ASSUME TypeOK, Exclusion, NEW t \in Txn, NEW r \in Resource, ReleaseOne(t, r)
  PROVE  /\ entry' \in [Entry -> LockEntry]
         /\ locks' \in [Resource -> Entry \cup {None}]
         /\ held' \in [Txn -> [Resource -> Mode \cup {None}]]
         /\ notified' \subseteq Thread
<1>1. locks[r] \in Entry /\ Owns(entry[locks[r]], t)
  BY DEF ReleaseOne, OwnsIn, TypeOK
<1>2. Released(entry[locks[r]], t) \in LockEntry
  BY <1>1, ReleasedOK DEF TypeOK, Exclusion
<1> QED BY <1>1, <1>2 DEF ReleaseOne, TypeOK, LocksAfter, HeldAfter, Waiting

\* release: only an entry with no owner and no parked writer is removed.
LEMMA ReleaseOneIInv ==
  ASSUME IInv, NEW t \in Txn, NEW r \in Resource, ReleaseOne(t, r),
         Waiting' = Waiting, req' = req, TypeOK'
  PROVE  IInv'
<1> DEFINE e == locks[r]
           g == Released(entry[e], t)
<1> USE DEF IInv
<1>1. /\ e \in Entry /\ Owns(entry[e], t)
      /\ entry' = [entry EXCEPT ![e] = g]
      /\ locks' = LocksAfter(r, g)
      /\ held' = HeldAfter(t, r, g)
  BY DEF ReleaseOne, OwnsIn, TypeOK
<1>2. entry[e] \in LockEntry /\ Coherent(entry[e])
  BY <1>1 DEF TypeOK, Exclusion
<1>3. /\ g \in LockEntry
      /\ Coherent(g)
      /\ g.waitingWriters = entry[e].waitingWriters
      /\ \A u \in Txn : Owns(g, u) => Owns(entry[e], u)
  BY <1>1, <1>2, ReleasedOK
<1>4. \A x \in Entry : WritersAt(x)' = WritersAt(x)
  BY DEF WritersAt
<1> HIDE DEF g
<1>5. /\ \A s \in Resource : locks'[s] = locks[s] \/ (s = r /\ locks'[s] = None)
      /\ locks'[r] = None => Unused(g)
  BY <1>1, NoneAssumption DEF LocksAfter, TypeOK
<1>6. Exclusion'
  BY <1>1, <1>3 DEF Exclusion, TypeOK
<1>7. References'
  BY <1>5, NoneAssumption DEF References, TypeOK
<1>8. WritersCounted'
  BY <1>1, <1>3, <1>4 DEF WritersCounted, TypeOK
<1>9. WriterAttached'
  <2> SUFFICES ASSUME NEW w \in Waiting, req[w].mode \in Writer
               PROVE  locks'[req[w].resource] = req[w].entry
    BY DEF WriterAttached
  <2>1. locks[req[w].resource] = req[w].entry /\ req[w].resource \in Resource
    BY DEF WriterAttached, TypeOK
  <2>2. CASE req[w].resource = r
    <3>1. w \in WritersAt(e) /\ IsFiniteSet(WritersAt(e))
      BY <2>1, <2>2, ThreadAssumption, FS_Subset DEF WritersAt, Waiting
    <3>2. Cardinality(WritersAt(e)) # 0
      BY <3>1, FS_EmptySet
    <3>3. ~ Unused(g)
      BY <3>2, <1>1, <1>3 DEF WritersCounted, Unused
    <3> QED BY <2>1, <2>2, <3>3, <1>5
  <2>3. CASE req[w].resource # r
    BY <2>1, <2>3, <1>5
  <2> QED BY <2>2, <2>3
<1>10. OwnedIsHeld'
  <2> SUFFICES ASSUME NEW s \in Resource, NEW u \in Txn, OwnsIn(s, u)'
               PROVE  held'[u][s] # None
    BY DEF OwnedIsHeld
  <2>1. locks'[s] = locks[s] /\ locks[s] \in Entry
    BY <1>5 DEF OwnsIn, TypeOK
  <2>2. OwnsIn(s, u) /\ (s = r => Owns(g, u))
    BY <2>1, <1>1, <1>3 DEF OwnsIn, TypeOK
  <2>3. held[u][s] # None
    BY <2>2 DEF OwnedIsHeld
  <2>4. ~ (s = r /\ u = t /\ ~ Owns(g, t))
    BY <2>2
  <2> QED BY <2>3, <2>4, <1>1 DEF HeldAfter, TypeOK
<1> QED BY <1>6, <1>7, <1>8, <1>9, <1>10

\* Steps that touch neither the lock table nor what the parked threads ask.
LEMMA QuietIInv ==
  ASSUME IInv, TypeOK', UNCHANGED <<locks, entry, held, req>>, Waiting' = Waiting
  PROVE  IInv'
<1>1. \A x \in Entry : WritersAt(x)' = WritersAt(x)
  BY DEF WritersAt
<1> QED BY <1>1 DEF IInv, Exclusion, References, WritersCounted, WriterAttached,
                    OwnedIsHeld, OwnsIn

\* A resource's turn in release_all ends.
LEMMA NextResourceTypes ==
  ASSUME TypeOK, NEW th \in Thread, NEW r \in Resource,
         pc[th] \in {"releasing", "checking"}, NextResource(th, r),
         UNCHANGED <<locks, entry, held, req, notified>>
  PROVE  TypeOK' /\ Waiting' = Waiting
<1>1. Waiting' = Waiting
  BY DEF NextResource, TypeOK, Waiting
<1> QED BY <1>1 DEF NextResource, TypeOK

\* The steps of release_all: the list, one release or its LockError, the check.
LEMMA ReleaseAllIInv ==
  ASSUME IInv, NEW th \in Thread,
         \/ ReleaseAllList(th)
         \/ \E r \in Resource : ReleaseAllStep(th, r)
         \/ ReleaseAllCheck(th)
  PROVE  IInv'
<1> USE DEF IInv
<1>1. CASE ReleaseAllList(th)
  <2>1. Waiting' = Waiting
    BY <1>1 DEF ReleaseAllList, TypeOK, Waiting
  <2>2. TypeOK'
    BY <1>1, <2>1 DEF ReleaseAllList, HeldBy, TypeOK
  <2> QED BY <1>1, <2>1, <2>2, QuietIInv DEF ReleaseAllList
<1>2. ASSUME NEW r \in Resource, ReleaseAllStep(th, r) PROVE IInv'
  <2>1. CASE ~ OwnsIn(r, TxnOf[th]) /\ NextResource(th, r)
               /\ UNCHANGED <<locks, entry, held, req, notified>>
    <3>1. pc[th] = "releasing"
      BY <1>2 DEF ReleaseAllStep
    <3> QED BY <2>1, <3>1, NextResourceTypes, QuietIInv
  <2>2. CASE /\ ReleaseOne(TxnOf[th], r)
             /\ pc' = [pc EXCEPT ![th] = "checking"]
             /\ cur' = [cur EXCEPT ![th] = r]
             /\ UNCHANGED <<req, todo>>
    <3>1. pc[th] = "releasing" /\ TxnOf[th] \in Txn
      BY <1>2, ThreadAssumption DEF ReleaseAllStep
    <3>2. Waiting' = Waiting
      BY <2>2, <3>1 DEF TypeOK, Waiting
    <3>3. /\ entry' \in [Entry -> LockEntry]
          /\ locks' \in [Resource -> Entry \cup {None}]
          /\ held' \in [Txn -> [Resource -> Mode \cup {None}]]
          /\ notified' \subseteq Thread
      BY <2>2, <3>1, ReleaseOneTypes
    <3>4. TypeOK'
      BY <2>2, <3>1, <3>2, <3>3 DEF TypeOK
    <3> QED BY <2>2, <3>1, <3>2, <3>4, ReleaseOneIInv
  <2> QED BY <1>2, <2>1, <2>2 DEF ReleaseAllStep
<1>3. CASE ReleaseAllCheck(th)
  <2>1. pc[th] = "checking" /\ cur[th] \in Resource
    BY <1>3 DEF ReleaseAllCheck, TypeOK
  <2>2. CASE OwnsIn(cur[th], TxnOf[th])
    <3>1. Waiting' = Waiting
      BY <1>3, <2>1, <2>2 DEF ReleaseAllCheck, TypeOK, Waiting
    <3>2. TypeOK'
      BY <1>3, <2>2, <3>1 DEF ReleaseAllCheck, TypeOK
    <3> QED BY <1>3, <2>2, <3>1, <3>2, QuietIInv DEF ReleaseAllCheck
  <2>3. CASE ~ OwnsIn(cur[th], TxnOf[th])
    BY <1>3, <2>1, <2>3, NextResourceTypes, QuietIInv DEF ReleaseAllCheck
  <2> QED BY <2>2, <2>3
<1> QED BY <1>1, <1>2, <1>3

\* Every step preserves the invariant: one case per action.
LEMMA NextIInv == IInv /\ [Next]_vars => IInv'
<1> SUFFICES ASSUME IInv, [Next]_vars PROVE IInv'
  OBVIOUS
<1>1. ASSUME NEW th \in Thread, NEW r \in Resource, NEW m \in Mode, AcquireAtOnce(th, r, m)
      PROVE  IInv'
  BY <1>1, AcquireAtOnceIInv
<1>2. ASSUME NEW th \in Thread, NEW r \in Resource, NEW m \in Mode, NEW timed \in Timed,
             AcquirePark(th, r, m, timed)
      PROVE  IInv'
  BY <1>2, AcquireParkIInv
<1>3. ASSUME NEW th \in Thread, WakeAndGrant(th) PROVE IInv'
  BY <1>3, WakeAndGrantIInv
<1>4. ASSUME NEW th \in Thread, WakeAndWait(th) PROVE IInv'
  <2>1. Waiting' = Waiting /\ TypeOK'
    BY <1>4 DEF WakeAndWait, Waiting, TypeOK, IInv
  <2> QED BY <1>4, <2>1, QuietIInv DEF WakeAndWait
<1>5. ASSUME NEW th \in Thread, TimeOut(th) PROVE IInv'
  BY <1>5, TimeOutIInv
<1>6. ASSUME NEW th \in Thread, NEW r \in Resource, Release(th, r) PROVE IInv'
  <2>1. ReleaseOne(TxnOf[th], r) /\ TxnOf[th] \in Txn /\ UNCHANGED <<pc, req, todo, cur>>
    BY <1>6, ThreadAssumption DEF Release
  <2>2. Waiting' = Waiting
    BY <2>1 DEF Waiting
  <2>3. TypeOK'
    BY <2>1, <2>2, ReleaseOneTypes DEF TypeOK, IInv
  <2> QED BY <2>1, <2>2, <2>3, ReleaseOneIInv
<1>7. ASSUME NEW th \in Thread,
             \/ ReleaseAllList(th)
             \/ \E r \in Resource : ReleaseAllStep(th, r)
             \/ ReleaseAllCheck(th)
      PROVE  IInv'
  BY <1>7, ReleaseAllIInv
<1>8. CASE UNCHANGED vars
  <2>1. UNCHANGED <<locks, entry, held, pc, req, notified, todo, cur>>
    BY <1>8 DEF vars
  <2>2. Waiting' = Waiting
    BY <2>1 DEF Waiting
  <2>3. TypeOK'
    BY <2>1, <2>2 DEF TypeOK, IInv
  <2> QED BY <2>1, <2>2, <2>3, QuietIInv
<1> QED BY <1>1, <1>2, <1>3, <1>4, <1>5, <1>6, <1>7, <1>8 DEF Next, Acquire

\* The invariant holds in every reachable state of the lock manager.
THEOREM Invariance == Spec => []IInv
BY InitIInv, NextIInv, PTL DEF Spec

-----------------------------------------------------------------------------
(* The invariants, as theorems of the specification.                       *)

\* Every reachable state has the types of TypeOK: no count is ever negative.
THEOREM TypeCorrect == Spec => []TypeOK
BY Invariance, PTL DEF IInv

\* Every lock entry always satisfies the compatibility table of acquire.
THEOREM ExclusionHolds == Spec => []Exclusion
BY Invariance, PTL DEF IInv

\* waiting_writers is always the number of parked writers.
THEOREM WritersAreCounted == Spec => []WritersCounted
BY Invariance, PTL DEF IInv

\* No parked writer ever loses the entry that it is parked on.
THEOREM WritersStayAttached == Spec => []WriterAttached
BY Invariance, PTL DEF IInv

\* release_all always finds every lock of its transaction.
THEOREM OwnedIsAlwaysHeld == Spec => []OwnedIsHeld
BY Invariance, PTL DEF IInv

\* No two resources share an entry, and setdefault hands out no object that a parked
\* thread refers to under another resource.
THEOREM ReferencesHold == Spec => []References
BY Invariance, PTL DEF IInv

\* release_all returns only when its transaction owns nothing.
THEOREM ReleaseAllIsComplete == Spec => ReleaseAllComplete
<1> DEFINE Done == \A th \in Thread, r \in Resource :
                     pc[th] = "listing" /\ pc'[th] = "idle" => ~ OwnsIn(r, TxnOf[th])
<1>1. IInv /\ [Next]_vars => [Done]_vars
  <2> SUFFICES ASSUME IInv, Next, NEW th \in Thread, NEW r \in Resource,
                      pc[th] = "listing", pc'[th] = "idle"
               PROVE  ~ OwnsIn(r, TxnOf[th])
    OBVIOUS
  <2>1. ReleaseAllList(th)
    <3>1. ASSUME NEW x \in Thread, Acquire(x) PROVE FALSE
      BY <3>1 DEF Acquire, AcquireAtOnce, AcquirePark, IInv, TypeOK
    <3>2. ASSUME NEW x \in Thread, WakeAndGrant(x) \/ TimeOut(x) PROVE FALSE
      BY <3>2 DEF WakeAndGrant, TimeOut, Unpark, Waiting, IInv, TypeOK
    <3>3. ASSUME NEW x \in Thread, WakeAndWait(x) \/ \E s \in Resource : Release(x, s)
          PROVE  FALSE
      BY <3>3 DEF WakeAndWait, Release
    <3>4. ASSUME NEW x \in Thread, ReleaseAllCheck(x) \/ \E s \in Resource : ReleaseAllStep(x, s)
          PROVE  FALSE
      BY <3>4 DEF ReleaseAllCheck, ReleaseAllStep, NextResource, IInv, TypeOK
    <3>5. ASSUME NEW x \in Thread, ReleaseAllList(x) PROVE x = th
      BY <3>5 DEF ReleaseAllList, IInv, TypeOK
    <3> QED BY <3>1, <3>2, <3>3, <3>4, <3>5 DEF Next
  <2>2. HeldBy(TxnOf[th]) = {}
    BY <2>1 DEF ReleaseAllList, IInv, TypeOK
  <2> QED BY <2>2, ThreadAssumption DEF HeldBy, IInv, OwnedIsHeld
<1> QED BY <1>1, Invariance, PTL DEF Spec, ReleaseAllComplete

\* While a writer is counted, a grant makes no outsider a reader.
LEMMA GrantedAfterWriters ==
  ASSUME NEW e \in LockEntry, NEW u \in Txn, NEW m \in Mode, NEW t \in Txn,
         CanAcquire(e, u, m), e.waitingWriters # 0, ~ Owns(e, t)
  PROVE  Granted(e, u, m).shared[t] = 0
<1>1. e.shared[t] = 0 /\ e.exclusiveOwner # t
  BY DEF Owns, LockEntry
<1>2. CASE m = "SHARED"
  <2>1. u # t
    BY <1>2 DEF CanAcquire
  <2> QED BY <1>1, <1>2, <2>1 DEF Granted, LockEntry
<1>3. CASE m = "UREAD"
  BY <1>1, <1>3 DEF Granted, LockEntry
<1>4. CASE m = "EXCLUSIVE"
  BY <1>1, <1>4 DEF Granted, LockEntry
<1> QED BY <1>2, <1>3, <1>4 DEF Mode

\* A new reader never overtakes a parked writer on the entry.
THEOREM WritersGoFirst == Spec => WriterFirst
<1> DEFINE First == \A e \in Entry, t \in Txn :
              WritersAt(e) # {} /\ ~ Owns(entry[e], t) => entry'[e].shared[t] = 0
<1>1. IInv /\ [Next]_vars => [First]_vars
  <2> SUFFICES ASSUME IInv, Next, NEW e \in Entry, NEW t \in Txn,
                      WritersAt(e) # {}, ~ Owns(entry[e], t)
               PROVE  entry'[e].shared[t] = 0
    OBVIOUS
  <2> USE DEF IInv
  <2>1. entry[e] \in LockEntry /\ entry[e].shared[t] = 0
    BY DEF TypeOK, LockEntry, Owns
  <2>2. entry[e].waitingWriters # 0
    BY ThreadAssumption, FS_Subset, FS_EmptySet DEF WritersCounted, WritersAt, Waiting
  <2>3. ASSUME NEW th \in Thread, NEW r \in Resource, NEW m \in Mode, AcquireAtOnce(th, r, m)
        PROVE  entry'[e].shared[t] = 0
    <3>1. PICK x \in Entry :
            /\ EntryOf(r, x)
            /\ CanAcquire(Fields(r, x), TxnOf[th], m)
            /\ entry' = [entry EXCEPT ![x] = Granted(Fields(r, x), TxnOf[th], m)]
      BY <2>3 DEF AcquireAtOnce
    <3>2. CASE x = e
      <4>1. locks[r] # None
        BY <3>1, <3>2 DEF EntryOf, Unreferenced, WritersAt
      <4>2. Fields(r, x) = entry[e] /\ TxnOf[th] \in Txn
        BY <4>1, <3>2, ThreadAssumption DEF Fields
      <4>3. Granted(entry[e], TxnOf[th], m).shared[t] = 0
        BY <4>2, <3>1, <2>1, <2>2, GrantedAfterWriters
      <4> QED BY <3>1, <3>2, <4>2, <4>3 DEF TypeOK
    <3>3. CASE x # e
      BY <3>1, <3>3, <2>1 DEF TypeOK
    <3> QED BY <3>2, <3>3
  <2>4. ASSUME NEW th \in Thread, NEW r \in Resource, NEW m \in Mode, NEW timed \in Timed,
               AcquirePark(th, r, m, timed)
        PROVE  entry'[e].shared[t] = 0
    BY <2>4, <2>1 DEF AcquirePark, AddWriter, TypeOK, LockEntry
  <2>5. ASSUME NEW th \in Thread, WakeAndGrant(th)
        PROVE  entry'[e].shared[t] = 0
    <3> DEFINE q == req[th]
               g == Granted(entry[q.entry], TxnOf[th], q.mode)
    <3>1. /\ q.entry \in Entry /\ q.mode \in Mode /\ TxnOf[th] \in Txn
          /\ CanAcquire(entry[q.entry], TxnOf[th], q.mode)
          /\ entry' = [entry EXCEPT ![q.entry] = AddWriter(g, q.mode, -1)]
      BY <2>5, ThreadAssumption DEF WakeAndGrant, Grantable, TypeOK
    <3>2. g \in LockEntry
      BY <3>1, GrantedOK DEF TypeOK, Exclusion
    <3>3. CASE q.entry = e
      <4>1. g.shared[t] = 0
        BY <3>1, <3>3, <2>1, <2>2, GrantedAfterWriters
      <4>2. AddWriter(g, q.mode, -1).shared = g.shared
        BY <3>2 DEF AddWriter, LockEntry
      <4> HIDE DEF g
      <4> QED BY <3>1, <3>3, <4>1, <4>2 DEF TypeOK
    <3>4. CASE q.entry # e
      BY <3>1, <3>4, <2>1 DEF TypeOK
    <3> QED BY <3>3, <3>4
  <2>6. ASSUME NEW th \in Thread, TimeOut(th)
        PROVE  entry'[e].shared[t] = 0
    <3>1. req[th].entry \in Entry
      BY <2>6 DEF TimeOut, TypeOK
    <3> QED BY <2>6, <3>1, <2>1 DEF TimeOut, AddWriter, TypeOK, LockEntry
  <2>7. ASSUME NEW u \in Txn, NEW r \in Resource, ReleaseOne(u, r)
        PROVE  entry'[e].shared[t] = 0
    <3> DEFINE x == locks[r]
    <3>1. x \in Entry /\ Owns(entry[x], u) /\ entry[x] \in LockEntry
          /\ entry' = [entry EXCEPT ![x] = Released(entry[x], u)]
      BY <2>7 DEF ReleaseOne, OwnsIn, TypeOK
    <3>2. CASE x = e
      <4>1. u # t
        BY <3>1, <3>2
      <4>2. Released(entry[e], u).shared[t] = 0
        BY <2>1, <4>1 DEF Released, LockEntry
      <4> QED BY <3>1, <3>2, <4>2 DEF TypeOK
    <3>3. CASE x # e
      BY <3>1, <3>3, <2>1 DEF TypeOK
    <3> QED BY <3>2, <3>3
  <2>8. ASSUME entry' = entry PROVE entry'[e].shared[t] = 0
    BY <2>8, <2>1
  <2>9. ASSUME NEW th \in Thread, Acquire(th) PROVE entry'[e].shared[t] = 0
    BY <2>3, <2>4, <2>9 DEF Acquire
  <2>10. ASSUME NEW th \in Thread, NEW r \in Resource, Release(th, r) \/ ReleaseAllStep(th, r)
         PROVE  entry'[e].shared[t] = 0
    BY <2>7, <2>8, <2>10, ThreadAssumption DEF Release, ReleaseAllStep
  <2>11. ASSUME NEW th \in Thread,
                WakeAndWait(th) \/ ReleaseAllList(th) \/ ReleaseAllCheck(th)
         PROVE  entry'[e].shared[t] = 0
    BY <2>8, <2>11 DEF WakeAndWait, ReleaseAllList, ReleaseAllCheck
  <2> QED BY <2>5, <2>6, <2>9, <2>10, <2>11 DEF Next
<1> QED BY <1>1, Invariance, PTL DEF Spec, WriterFirst

-----------------------------------------------------------------------------
(* Refinement: the dictionary implements the abstract lock table.          *)

\* Two transactions never have incompatible modes on a coherent entry.
LEMMA ModesCompatible ==
  ASSUME NEW e \in LockEntry, Coherent(e)
  PROVE  Table!Compatible([t \in Txn |-> ModesOf(e, t)])
<1> DEFINE o == [t \in Txn |-> ModesOf(e, t)]
<1> SUFFICES ASSUME NEW t \in Txn, NEW u \in Txn, t # u
             PROVE  /\ "EXCLUSIVE" \in o[t] => o[u] = {}
                    /\ "UREAD" \in o[t] => "UREAD" \notin o[u]
  BY DEF Table!Compatible
<1>1. /\ "EXCLUSIVE" \in ModesOf(e, t) => e.exclusiveOwner = t
      /\ "UREAD" \in ModesOf(e, t) => e.updateOwner = t
      /\ "UREAD" \in ModesOf(e, u) => e.updateOwner = u
  BY DEF ModesOf
<1>2. e.exclusiveOwner = t => ModesOf(e, u) = {}
  BY NoneAssumption DEF Coherent, ModesOf
<1> QED BY <1>1, <1>2

\* A transaction has a mode on an entry exactly when it owns it.
LEMMA ModesOwned ==
  ASSUME NEW e \in LockEntry, NEW t \in Txn
  PROVE  ModesOf(e, t) \subseteq Mode /\ (Owns(e, t) <=> ModesOf(e, t) # {})
BY DEF ModesOf, Owns, Mode, LockEntry

\* A grant gives its mode, or nothing when the transaction had enough.
LEMMA GrantedModes ==
  ASSUME NEW e \in LockEntry, NEW t \in Txn, NEW m \in Mode,
         Coherent(e), CanAcquire(e, t, m)
  PROVE  /\ \A u \in Txn \ {t} : ModesOf(Granted(e, t, m), u) = ModesOf(e, u)
         /\ \/ ModesOf(Granted(e, t, m), t) = ModesOf(e, t)
            \/ /\ m \notin ModesOf(e, t)
               /\ ModesOf(Granted(e, t, m), t) = {m} \cup
                    (IF m = "EXCLUSIVE" THEN ModesOf(e, t) \ {"SHARED"} ELSE ModesOf(e, t))
<1> DEFINE g == Granted(e, t, m)
<1>1. CASE m = "SHARED" /\ e.exclusiveOwner = t
  BY <1>1 DEF Granted
<1>2. CASE m = "SHARED" /\ e.exclusiveOwner # t
  <2>1. g = [e EXCEPT !.shared[t] = @ + 1]
    BY <1>2 DEF Granted
  <2> QED BY <1>2, <2>1 DEF LockEntry, ModesOf
<1>3. CASE m = "UREAD"
  <2>1. g = [e EXCEPT !.updateOwner = t,
                      !.updateCount = IF e.updateOwner = t THEN @ + 1 ELSE 1]
    BY <1>3 DEF Granted
  <2>2. e.updateOwner \in {None, t}
    BY <1>3 DEF CanAcquire, CanUpdate, Free
  <2>3. g.shared = e.shared /\ g.updateOwner = t /\ g.exclusiveOwner = e.exclusiveOwner
    BY <2>1 DEF LockEntry
  <2> QED BY <1>3, <2>2, <2>3, NoneAssumption DEF ModesOf
<1>4. CASE m = "EXCLUSIVE"
  <2>1. g = [e EXCEPT !.shared[t] = 0, !.exclusiveOwner = t,
                !.exclusiveCount = IF e.exclusiveOwner = t THEN @ + 1 ELSE 1]
    BY <1>4 DEF Granted
  <2>2. e.exclusiveOwner \in {None, t}
    BY <1>4 DEF CanAcquire, CanExclude, CanUpdate, Free
  <2>3. e.exclusiveOwner = t => ~ (e.shared[t] > 0)
    BY DEF Coherent
  <2>4. /\ \A u \in Txn \ {t} : g.shared[u] = e.shared[u]
        /\ ~ (g.shared[t] > 0)
        /\ g.updateOwner = e.updateOwner /\ g.exclusiveOwner = t
    BY <2>1 DEF LockEntry
  <2>5. \A u \in Txn \ {t} : ModesOf(g, u) = ModesOf(e, u)
    BY <2>2, <2>4, NoneAssumption DEF ModesOf
  <2>6. CASE e.exclusiveOwner = t
    BY <2>3, <2>4, <2>5, <2>6 DEF ModesOf
  <2>7. CASE e.exclusiveOwner = None
    <3>1. "EXCLUSIVE" \notin ModesOf(e, t)
      BY <2>7, NoneAssumption DEF ModesOf
    <3>2. ModesOf(g, t) = {"EXCLUSIVE"} \cup (ModesOf(e, t) \ {"SHARED"})
      BY <2>4, <2>7, NoneAssumption DEF ModesOf
    <3> QED BY <1>4, <2>5, <3>1, <3>2
  <2> QED BY <2>2, <2>6, <2>7
<1> QED BY <1>1, <1>2, <1>3, <1>4 DEF Mode

\* A release gives up the strongest mode, or nothing while uses are left.
LEMMA ReleasedModes ==
  ASSUME NEW e \in LockEntry, NEW t \in Txn, Coherent(e), Owns(e, t)
  PROVE  /\ \A u \in Txn \ {t} : ModesOf(Released(e, t), u) = ModesOf(e, u)
         /\ \/ ModesOf(Released(e, t), t) = ModesOf(e, t)
            \/ ModesOf(Released(e, t), t) = ModesOf(e, t) \ {Table!Strongest(ModesOf(e, t))}
<1> DEFINE g == Released(e, t)
<1>1. CASE e.exclusiveOwner = t
  <2>1. g = [e EXCEPT !.exclusiveCount = @ - 1,
               !.exclusiveOwner = IF e.exclusiveCount = 1 THEN None ELSE @]
    BY <1>1 DEF Released
  <2>2. Table!Strongest(ModesOf(e, t)) = "EXCLUSIVE"
    BY <1>1 DEF Table!Strongest, ModesOf
  <2> QED BY <1>1, <2>1, <2>2, NoneAssumption DEF LockEntry, ModesOf
<1>2. CASE e.exclusiveOwner # t /\ e.updateOwner = t
  <2>1. g = [e EXCEPT !.updateCount = @ - 1,
               !.updateOwner = IF e.updateCount = 1 THEN None ELSE @]
    BY <1>2 DEF Released
  <2>2. Table!Strongest(ModesOf(e, t)) = "UREAD"
    BY <1>2 DEF Table!Strongest, ModesOf
  <2> QED BY <1>2, <2>1, <2>2, NoneAssumption DEF LockEntry, ModesOf
<1>3. CASE e.exclusiveOwner # t /\ e.updateOwner # t
  <2>1. g = [e EXCEPT !.shared[t] = @ - 1]
    BY <1>3 DEF Released
  <2>2. Table!Strongest(ModesOf(e, t)) = "SHARED"
    BY <1>3 DEF Table!Strongest, ModesOf
  <2>3. e.shared[t] > 0
    BY <1>3 DEF Owns
  <2> QED BY <1>3, <2>1, <2>2, <2>3 DEF LockEntry, ModesOf
<1> QED BY <1>1, <1>2, <1>3

\* What the table shows of one entry's transactions.
LEMMA OwnersShape ==
  ASSUME IInv, NEW r \in Resource
  PROVE  /\ Owners[r] = [t \in Txn |-> IF locks[r] = None THEN {}
                                       ELSE ModesOf(entry[locks[r]], t)]
         /\ locks[r] # None => /\ locks[r] \in Entry
                               /\ entry[locks[r]] \in LockEntry
                               /\ Coherent(entry[locks[r]])
         /\ \A t \in Txn : Owners[r][t] # {} => OwnsIn(r, t)
<1>1. Owners[r] = [t \in Txn |-> IF locks[r] = None THEN {}
                                 ELSE ModesOf(entry[locks[r]], t)]
  BY DEF Owners
<1>2. locks[r] # None => /\ locks[r] \in Entry
                         /\ entry[locks[r]] \in LockEntry
                         /\ Coherent(entry[locks[r]])
  BY DEF IInv, TypeOK, Exclusion
<1> QED BY <1>1, <1>2, ModesOwned DEF OwnsIn

\* One resource's entry changes into a coherent entry g, with the modes of one
\* transaction alone, which takes m or gives up its strongest.
LEMMA TableStep ==
  ASSUME NEW r \in Resource, NEW t \in Txn, NEW g \in LockEntry, Coherent(g),
         Owners \in [Resource -> [Txn -> SUBSET Mode]],
         Owners' = [Owners EXCEPT ![r] = [u \in Txn |-> ModesOf(g, u)]],
         \A u \in Txn \ {t} : ModesOf(g, u) = Owners[r][u],
         \/ ModesOf(g, t) = Owners[r][t]
         \/ \E m \in Mode :
              /\ m \notin Owners[r][t]
              /\ ModesOf(g, t) = {m} \cup (IF m = "EXCLUSIVE" THEN Owners[r][t] \ {"SHARED"}
                                                               ELSE Owners[r][t])
         \/ Owners[r][t] # {} /\ ModesOf(g, t) = Owners[r][t] \ {Table!Strongest(Owners[r][t])}
  PROVE  [Table!TableNext]_Owners
<1> DEFINE new == [u \in Txn |-> ModesOf(g, u)]
<1>1. new = [Owners[r] EXCEPT ![t] = ModesOf(g, t)]
  OBVIOUS
<1>2. CASE ModesOf(g, t) = Owners[r][t]
  <2>1. new = Owners[r]
    BY <1>1, <1>2
  <2> QED BY <2>1
<1>3. ASSUME NEW m \in Mode,
             m \notin Owners[r][t],
             ModesOf(g, t) = {m} \cup (IF m = "EXCLUSIVE" THEN Owners[r][t] \ {"SHARED"}
                                                           ELSE Owners[r][t])
      PROVE  Table!TableNext
  <2> DEFINE mine == IF m = "EXCLUSIVE" THEN Owners[r][t] \ {"SHARED"} ELSE Owners[r][t]
  <2>1. new = [Owners[r] EXCEPT ![t] = mine \cup {m}]
    BY <1>1, <1>3
  <2>2. Table!Compatible(new)
    BY ModesCompatible
  <2>3. Table!Take(r, t, m)
    BY <1>3, <2>1, <2>2 DEF Table!Take
  <2> QED BY <2>3 DEF Table!TableNext, Table!Modes, Mode
<1>4. CASE Owners[r][t] # {} /\ ModesOf(g, t) = Owners[r][t] \ {Table!Strongest(Owners[r][t])}
  <2>1. Table!Give(r, t)
    BY <1>1, <1>4 DEF Table!Give
  <2> QED BY <2>1 DEF Table!TableNext
<1> QED BY <1>2, <1>3, <1>4

\* The entry of resource r, new or not, is replaced by g and stays in the table.
LEMMA EntryReplaced ==
  ASSUME IInv, NEW r \in Resource, NEW e \in Entry, NEW g \in LockEntry,
         locks' = [locks EXCEPT ![r] = e],
         entry' = [entry EXCEPT ![e] = g],
         \A s \in Resource : locks[s] = e => s = r
  PROVE  Owners' = [Owners EXCEPT ![r] = [u \in Txn |-> ModesOf(g, u)]]
<1>1. entry'[e] = g /\ e # None /\ locks'[r] = e
  BY NoneAssumption DEF IInv, TypeOK
<1>2. \A s \in Resource \ {r} :
        /\ locks'[s] = locks[s]
        /\ locks[s] # None => entry'[locks[s]] = entry[locks[s]]
  BY DEF IInv, TypeOK
<1>3. \A s \in Resource \ {r} : Owners'[s] = Owners[s]
  BY <1>2 DEF Owners
<1>4. Owners'[r] = [u \in Txn |-> ModesOf(g, u)]
  BY <1>1 DEF Owners
<1>5. /\ Owners = [s \in Resource |-> Owners[s]]
      /\ Owners' = [s \in Resource |-> Owners'[s]]
  BY DEF Owners
<1> QED BY <1>3, <1>4, <1>5

\* The refinement mapping gives every transaction a set of modes.
LEMMA OwnersType == IInv => Owners \in [Resource -> [Txn -> SUBSET Mode]]
BY ModesOwned DEF IInv, TypeOK, Owners

\* Parking and unparking change no modes.
LEMMA AddWriterModes ==
  ASSUME NEW e \in LockEntry, NEW m, NEW n \in Int, NEW t \in Txn
  PROVE  ModesOf(AddWriter(e, m, n), t) = ModesOf(e, t)
BY DEF AddWriter, LockEntry, ModesOf

\* Nobody has a mode on a new entry.
LEMMA EmptyModes == \A t \in Txn : ModesOf(EmptyEntry, t) = {}
BY NoneAssumption DEF ModesOf, EmptyEntry

\* Steps that leave the dictionary and every entry's modes alone.
LEMMA SameOwners ==
  ASSUME IInv, locks' = locks,
         \A r \in Resource, t \in Txn : locks[r] # None =>
           ModesOf(entry'[locks[r]], t) = ModesOf(entry[locks[r]], t)
  PROVE  Owners' = Owners
BY DEF Owners

\* acquire, granted at once: one transaction takes one mode, or nothing changes.
LEMMA AcquireAtOnceRefines ==
  ASSUME IInv, NEW th \in Thread, NEW r \in Resource, NEW m \in Mode,
         AcquireAtOnce(th, r, m)
  PROVE  [Table!TableNext]_Owners
<1> DEFINE t == TxnOf[th]
<1>1. t \in Txn
  BY ThreadAssumption
<1>2. PICK e \in Entry :
        /\ EntryOf(r, e)
        /\ CanAcquire(Fields(r, e), t, m)
        /\ locks' = [locks EXCEPT ![r] = e]
        /\ entry' = [entry EXCEPT ![e] = Granted(Fields(r, e), t, m)]
  BY DEF AcquireAtOnce
<1> DEFINE f == Fields(r, e)
           g == Granted(f, t, m)
<1>3. f \in LockEntry /\ Coherent(f)
  BY EmptyEntryOK DEF Fields, IInv, TypeOK, Exclusion
<1>4. g \in LockEntry /\ Coherent(g)
  BY <1>1, <1>2, <1>3, GrantedOK
<1>5. /\ \A u \in Txn \ {t} : ModesOf(g, u) = ModesOf(f, u)
      /\ \/ ModesOf(g, t) = ModesOf(f, t)
         \/ /\ m \notin ModesOf(f, t)
            /\ ModesOf(g, t) = {m} \cup
                 (IF m = "EXCLUSIVE" THEN ModesOf(f, t) \ {"SHARED"} ELSE ModesOf(f, t))
  BY <1>1, <1>2, <1>3, GrantedModes
<1>6. \A u \in Txn : Owners[r][u] = ModesOf(f, u)
  BY <1>2, EmptyModes DEF EntryOf, Fields, Owners
<1>7. \A s \in Resource : locks[s] = e => s = r
  BY <1>2, NoneAssumption DEF EntryOf, Unreferenced, IInv, References
<1> HIDE DEF f, g
<1>8. Owners' = [Owners EXCEPT ![r] = [u \in Txn |-> ModesOf(g, u)]]
  BY <1>2, <1>4, <1>7, EntryReplaced, ZenonT(30) DEF f, g
<1> HIDE DEF t
<1>9. \A u \in Txn \ {t} : ModesOf(g, u) = Owners[r][u]
  BY <1>5, <1>6
<1>10. \/ ModesOf(g, t) = Owners[r][t]
       \/ \E n \in Mode :
            /\ n \notin Owners[r][t]
            /\ ModesOf(g, t) = {n} \cup (IF n = "EXCLUSIVE" THEN Owners[r][t] \ {"SHARED"}
                                                              ELSE Owners[r][t])
  BY <1>1, <1>5, <1>6
<1>11. Owners \in [Resource -> [Txn -> SUBSET Mode]]
  BY OwnersType
<1> QED BY <1>1, <1>4, <1>8, <1>9, <1>10, <1>11, TableStep

\* A woken thread is granted its lock: on the table's entry or on an orphan.
LEMMA WakeAndGrantRefines ==
  ASSUME IInv, NEW th \in Thread, WakeAndGrant(th)
  PROVE  [Table!TableNext]_Owners
<1> DEFINE t == TxnOf[th]
           r == req[th].resource
           m == req[th].mode
           e == req[th].entry
           f == entry[e]
           g == Granted(f, t, m)
           h == AddWriter(g, m, -1)
<1>1. /\ th \in Waiting /\ t \in Txn /\ r \in Resource /\ m \in Mode /\ e \in Entry
      /\ f \in LockEntry /\ Coherent(f)
      /\ CanAcquire(f, t, m)
      /\ entry' = [entry EXCEPT ![e] = h]
      /\ locks' = locks
  BY ThreadAssumption DEF WakeAndGrant, Grantable, IInv, TypeOK, Exclusion
<1>2. g \in LockEntry /\ Coherent(g)
  BY <1>1, GrantedOK
<1>3. /\ h \in LockEntry /\ Coherent(h)
      /\ \A u \in Txn : ModesOf(h, u) = ModesOf(g, u)
  BY <1>2, AddWriterOK, AddWriterModes
<1>4. /\ \A u \in Txn \ {t} : ModesOf(g, u) = ModesOf(f, u)
      /\ \/ ModesOf(g, t) = ModesOf(f, t)
         \/ /\ m \notin ModesOf(f, t)
            /\ ModesOf(g, t) = {m} \cup
                 (IF m = "EXCLUSIVE" THEN ModesOf(f, t) \ {"SHARED"} ELSE ModesOf(f, t))
  BY <1>1, GrantedModes
<1> HIDE DEF f, g, h
<1>5. CASE locks[r] = e
  <2>1. \A u \in Txn : Owners[r][u] = ModesOf(f, u)
    BY <1>1, <1>5, NoneAssumption DEF Owners, f
  <2>2. \A s \in Resource : locks[s] = e => s = r
    BY <1>1 DEF IInv, References
  <2>3. locks' = [locks EXCEPT ![r] = e]
    BY <1>1, <1>5 DEF IInv, TypeOK
  <2>4. Owners' = [Owners EXCEPT ![r] = [u \in Txn |-> ModesOf(h, u)]]
    <3>1. PICK x \in Entry, s \in Resource : x = e /\ s = r
      BY <1>1
    <3>2. /\ locks' = [locks EXCEPT ![s] = x]
          /\ entry' = [entry EXCEPT ![x] = h]
          /\ \A z \in Resource : locks[z] = x => z = s
      BY <1>1, <2>2, <2>3, <3>1
    <3>3. Owners' = [Owners EXCEPT ![s] = [u \in Txn |-> ModesOf(h, u)]]
      BY <1>3, <3>2, EntryReplaced
    <3> QED BY <3>1, <3>3
  <2> HIDE DEF r, m, t, e
  <2>5. \A u \in Txn \ {t} : ModesOf(h, u) = Owners[r][u]
    BY <1>3, <1>4, <2>1
  <2>6. \/ ModesOf(h, t) = Owners[r][t]
      \/ \E n \in Mode :
           /\ n \notin Owners[r][t]
           /\ ModesOf(h, t) = {n} \cup (IF n = "EXCLUSIVE" THEN Owners[r][t] \ {"SHARED"}
                                                             ELSE Owners[r][t])
    BY <1>1, <1>3, <1>4, <2>1
  <2>7. Owners \in [Resource -> [Txn -> SUBSET Mode]]
    BY OwnersType
  <2> QED BY <1>1, <1>3, <2>4, <2>5, <2>6, <2>7, TableStep
<1>6. CASE locks[r] # e
  <2>1. \A s \in Resource : locks[s] # e
    BY <1>1, <1>6 DEF IInv, References
  <2>2. \A s \in Resource : locks[s] # None => entry'[locks[s]] = entry[locks[s]]
    BY <1>1, <2>1 DEF IInv, TypeOK
  <2> QED BY <1>1, <2>2, SameOwners
<1> QED BY <1>5, <1>6

\* release: one transaction gives up its strongest mode, or nothing changes.
LEMMA ReleaseOneRefines ==
  ASSUME IInv, NEW t \in Txn, NEW r \in Resource, ReleaseOne(t, r)
  PROVE  [Table!TableNext]_Owners
<1> DEFINE e == locks[r]
           f == entry[e]
           g == Released(f, t)
<1>1. /\ e \in Entry /\ f \in LockEntry /\ Coherent(f) /\ Owns(f, t)
      /\ entry' = [entry EXCEPT ![e] = g]
      /\ locks' = LocksAfter(r, g)
  BY DEF ReleaseOne, OwnsIn, IInv, TypeOK, Exclusion
<1>2. g \in LockEntry /\ Coherent(g)
  BY <1>1, ReleasedOK
<1>3. /\ \A u \in Txn \ {t} : ModesOf(g, u) = ModesOf(f, u)
      /\ \/ ModesOf(g, t) = ModesOf(f, t)
         \/ ModesOf(g, t) = ModesOf(f, t) \ {Table!Strongest(ModesOf(f, t))}
  BY <1>1, ReleasedModes
<1>4. /\ \A u \in Txn : Owners[r][u] = ModesOf(f, u)
      /\ ModesOf(f, t) # {}
  BY <1>1, ModesOwned, NoneAssumption DEF Owners
<1> HIDE DEF g
<1>5. Owners' = [Owners EXCEPT ![r] = [u \in Txn |-> ModesOf(g, u)]]
  <2>1. CASE Unused(g)
    <3>1. locks' = [locks EXCEPT ![r] = None]
      BY <1>1, <2>1 DEF LocksAfter
    <3>2. \A u \in Txn : ModesOf(g, u) = {}
      BY <2>1, NoneAssumption DEF Unused, ModesOf
    <3>3. \A s \in Resource \ {r} :
            /\ locks'[s] = locks[s]
            /\ locks[s] # None => entry'[locks[s]] = entry[locks[s]]
      BY <3>1, <1>1, NoneAssumption DEF IInv, TypeOK, References
    <3>4. \A s \in Resource \ {r} : Owners'[s] = Owners[s]
      BY <3>3 DEF Owners
    <3>5. locks'[r] = None
      BY <3>1 DEF IInv, TypeOK
    <3>6. Owners'[r] = [u \in Txn |-> ModesOf(g, u)]
      BY <3>2, <3>5 DEF Owners
    <3>7. /\ Owners = [s \in Resource |-> Owners[s]]
          /\ Owners' = [s \in Resource |-> Owners'[s]]
      BY DEF Owners
    <3> QED BY <3>4, <3>6, <3>7
  <2>2. CASE ~ Unused(g)
    <3>1. locks' = [locks EXCEPT ![r] = e]
      BY <1>1, <2>2 DEF LocksAfter, IInv, TypeOK
    <3>2. \A s \in Resource : locks[s] = e => s = r
      BY <1>1, NoneAssumption DEF IInv, References
    <3>3. PICK x \in Entry : x = e
      BY <1>1
    <3>4. /\ locks' = [locks EXCEPT ![r] = x]
          /\ entry' = [entry EXCEPT ![x] = g]
          /\ \A s \in Resource : locks[s] = x => s = r
      BY <1>1, <3>1, <3>2, <3>3
    <3> QED BY <1>2, <3>4, EntryReplaced
  <2> QED BY <2>1, <2>2
<1> HIDE DEF f
<1>6. \A u \in Txn \ {t} : ModesOf(g, u) = Owners[r][u]
  BY <1>3, <1>4
<1>7. \/ ModesOf(g, t) = Owners[r][t]
      \/ Owners[r][t] # {} /\ ModesOf(g, t) = Owners[r][t] \ {Table!Strongest(Owners[r][t])}
  BY <1>3, <1>4
<1>8. Owners \in [Resource -> [Txn -> SUBSET Mode]]
  BY OwnersType
<1> QED BY <1>2, <1>5, <1>6, <1>7, <1>8, TableStep

\* What the dictionary shows is a run of the abstract lock table.
THEOREM LockManagerImplementsLockTable == Spec => ImplementsLockTable
<1>1. Init => Table!TableInit
  BY DEF Init, Table!TableInit, Owners
<1>2. IInv /\ [Next]_vars => [Table!TableNext]_Owners
  <2> SUFFICES ASSUME IInv, [Next]_vars PROVE [Table!TableNext]_Owners
    OBVIOUS
  <2>1. ASSUME NEW th \in Thread, Acquire(th) PROVE [Table!TableNext]_Owners
    <3>1. ASSUME NEW r \in Resource, NEW m \in Mode, NEW timed \in Timed,
                 AcquirePark(th, r, m, timed)
          PROVE  Owners' = Owners
      <4>1. /\ locks[r] \in Entry /\ locks' = locks
            /\ entry' = [entry EXCEPT ![locks[r]] = AddWriter(@, m, 1)]
        BY <3>1 DEF AcquirePark, IInv, TypeOK
      <4>2. \A t \in Txn : ModesOf(AddWriter(entry[locks[r]], m, 1), t)
                             = ModesOf(entry[locks[r]], t)
        BY <4>1, AddWriterModes DEF IInv, TypeOK
      <4>3. \A s \in Resource, t \in Txn : locks[s] # None =>
              ModesOf(entry'[locks[s]], t) = ModesOf(entry[locks[s]], t)
        BY <4>1, <4>2 DEF IInv, TypeOK
      <4> QED BY <4>1, <4>3, SameOwners
    <3> QED BY <2>1, <3>1, AcquireAtOnceRefines DEF Acquire
  <2>2. ASSUME NEW th \in Thread, WakeAndGrant(th) PROVE [Table!TableNext]_Owners
    BY <2>2, WakeAndGrantRefines
  <2>3. ASSUME NEW th \in Thread, TimeOut(th) PROVE Owners' = Owners
    <3> DEFINE e == req[th].entry
               m == req[th].mode
    <3>1. /\ e \in Entry /\ locks' = locks
          /\ entry' = [entry EXCEPT ![e] = AddWriter(@, m, -1)]
      BY <2>3 DEF TimeOut, IInv, TypeOK
    <3>2. \A t \in Txn : ModesOf(AddWriter(entry[e], m, -1), t) = ModesOf(entry[e], t)
      BY <3>1, AddWriterModes DEF IInv, TypeOK
    <3>3. \A s \in Resource, t \in Txn : locks[s] # None =>
            ModesOf(entry'[locks[s]], t) = ModesOf(entry[locks[s]], t)
      BY <3>1, <3>2 DEF IInv, TypeOK
    <3> QED BY <3>1, <3>3, SameOwners
  <2>4. ASSUME NEW th \in Thread, NEW r \in Resource, Release(th, r) \/ ReleaseAllStep(th, r)
        PROVE  [Table!TableNext]_Owners
    <3>1. CASE ReleaseOne(TxnOf[th], r)
      BY <3>1, ThreadAssumption, ReleaseOneRefines
    <3>2. CASE UNCHANGED <<locks, entry>>
      BY <3>2, SameOwners
    <3> QED BY <2>4, <3>1, <3>2 DEF Release, ReleaseAllStep
  <2>5. ASSUME \/ \E th \in Thread : WakeAndWait(th) \/ ReleaseAllList(th) \/ ReleaseAllCheck(th)
               \/ UNCHANGED vars
        PROVE  Owners' = Owners
    <3>1. UNCHANGED <<locks, entry>>
      BY <2>5 DEF WakeAndWait, ReleaseAllList, ReleaseAllCheck, vars
    <3> QED BY <3>1, SameOwners
  <2> QED BY <2>1, <2>2, <2>3, <2>4, <2>5 DEF Next
<1> QED BY <1>1, <1>2, Invariance, PTL DEF Spec, ImplementsLockTable, Table!TableSpec

-----------------------------------------------------------------------------
(* No parked writer sleeps through its turn.                               *)

\* What a grant leaves to a writer, the writer could have had before.
LEMMA GrantOpensNothing ==
  ASSUME NEW e \in LockEntry, NEW t \in Txn, NEW m \in Mode, CanAcquire(e, t, m),
         NEW u \in Txn, NEW w \in Writer, CanAcquire(Granted(e, t, m), u, w)
  PROVE  CanAcquire(e, u, w)
<1>1. t # None
  BY NoneAssumption
<1> DEFINE g == Granted(e, t, m)
<1>2. CASE m = "SHARED"
  <2>1. /\ g.exclusiveOwner = e.exclusiveOwner /\ g.updateOwner = e.updateOwner
        /\ \A x \in Txn : g.shared[x] = 0 => e.shared[x] = 0
    BY <1>2 DEF Granted, LockEntry
  <2> HIDE DEF g
  <2> QED BY <2>1 DEF CanAcquire, CanUpdate, CanExclude, Free, Writer, g
<1>3. CASE m = "UREAD"
  <2>1. g.exclusiveOwner = e.exclusiveOwner /\ g.updateOwner = t /\ g.shared = e.shared
    BY <1>3 DEF Granted, LockEntry
  <2> HIDE DEF g
  <2>2. CanUpdate(e, t)
    BY <1>3 DEF CanAcquire
  <2> QED BY <1>1, <2>1, <2>2 DEF CanAcquire, CanUpdate, CanExclude, Free, Writer, g
<1>4. CASE m = "EXCLUSIVE"
  <2>1. g.exclusiveOwner = t
    BY <1>4 DEF Granted, LockEntry
  <2> HIDE DEF g
  <2>2. CanExclude(e, t)
    BY <1>4 DEF CanAcquire
  <2>3. u = t
    BY <1>1, <2>1 DEF CanAcquire, CanUpdate, CanExclude, Free, Writer, g
  <2> QED BY <2>2, <2>3 DEF CanAcquire, CanExclude, Writer
<1> QED BY <1>2, <1>3, <1>4 DEF Mode

\* Counting parked writers opens and closes nothing to a writer.
LEMMA CountingOpensNothing ==
  ASSUME NEW e \in LockEntry, NEW m \in Mode, NEW n \in {-1, 1}, NEW u \in Txn, NEW w \in Writer
  PROVE  CanAcquire(AddWriter(e, m, n), u, w) <=> CanAcquire(e, u, w)
<1> DEFINE g == AddWriter(e, m, n)
<1>1. g.exclusiveOwner = e.exclusiveOwner /\ g.updateOwner = e.updateOwner /\ g.shared = e.shared
  BY DEF AddWriter, LockEntry
<1> HIDE DEF g
<1> QED BY <1>1 DEF CanAcquire, CanUpdate, CanExclude, Free, Writer, g

\* Threads go on waiting as they did, and the entry of none opens.
LEMMA StaysWoken ==
  ASSUME TypeOK, WriterWoken, NEW th \in Waiting, th \in Waiting', req'[th] = req[th],
         th \in notified => th \in notified',
         req[th].mode \in Writer =>
           (CanAcquire(entry'[req[th].entry], TxnOf[th], req[th].mode) => Grantable(th))
  PROVE  req'[th].mode \in Writer /\ Grantable(th)' => th \in notified'
BY DEF WriterWoken, Grantable

LEMMA WokenNext ==
  ASSUME IInv, WriterWoken, [Next]_vars PROVE WriterWoken'
<1>1. TypeOK
  BY DEF IInv
<1>2. SUFFICES ASSUME NEW th \in Waiting', req'[th].mode \in Writer, Grantable(th)'
      PROVE  th \in notified'
  BY DEF WriterWoken
<1>3. th \in Thread /\ TxnOf[th] \in Txn
  BY ThreadAssumption DEF Waiting
<1>4. ASSUME th \in Waiting
      PROVE  req[th].entry \in Entry /\ entry[req[th].entry] \in LockEntry /\ req[th].mode \in Mode
  BY <1>1, <1>4 DEF TypeOK
<1>5. CASE UNCHANGED <<entry, req, notified>> /\ Waiting' = Waiting
  BY <1>2, <1>5 DEF WriterWoken, Grantable
<1>6. ASSUME NEW h \in Thread, NEW r \in Resource, NEW m \in Mode, AcquireAtOnce(h, r, m)
      PROVE  th \in notified'
  <2>1. th \in Waiting /\ req' = req /\ notified' = notified /\ TxnOf[h] \in Txn
    BY <1>2, <1>6, ThreadAssumption DEF AcquireAtOnce, Waiting
  <2>2. PICK e \in Entry : /\ EntryOf(r, e) /\ CanAcquire(Fields(r, e), TxnOf[h], m)
                           /\ entry' = [entry EXCEPT ![e] = Granted(Fields(r, e), TxnOf[h], m)]
    BY <1>6 DEF AcquireAtOnce
  <2>3. CASE req[th].entry = e
    <3>1. Fields(r, e) = entry[e] /\ entry[e] \in LockEntry
      BY <1>4, <2>1, <2>2, <2>3 DEF EntryOf, Fields, Unreferenced
    <3>2. entry'[e] = Granted(entry[e], TxnOf[h], m)
      BY <1>1, <2>2, <3>1 DEF TypeOK
    <3> QED BY <1>1, <1>2, <1>3, <2>1, <2>2, <2>3, <3>1, <3>2, GrantOpensNothing, StaysWoken DEF Grantable
  <2>4. CASE req[th].entry # e
    <3>1. entry'[req[th].entry] = entry[req[th].entry]
      BY <1>1, <1>4, <2>1, <2>2, <2>4 DEF TypeOK
    <3> QED BY <1>1, <1>2, <2>1, <3>1, StaysWoken DEF Grantable
  <2> QED BY <2>3, <2>4
<1>7. ASSUME NEW h \in Thread, NEW r \in Resource, NEW m \in Mode, NEW timed \in Timed,
             AcquirePark(h, r, m, timed)
      PROVE  th \in notified'
  <2>1. /\ locks[r] \in Entry /\ ~ CanAcquire(entry[locks[r]], TxnOf[h], m) /\ notified' = notified
        /\ entry' = [entry EXCEPT ![locks[r]] = AddWriter(@, m, 1)]
        /\ pc' = [pc EXCEPT ![h] = "waiting"] /\ pc[h] = "idle"
        /\ req' = [req EXCEPT ![h] = [resource |-> r, mode |-> m, entry |-> locks[r], timed |-> timed]]
    BY <1>1, <1>7 DEF AcquirePark, TypeOK
  <2>2. entry[locks[r]] \in LockEntry /\ entry'[locks[r]] = AddWriter(entry[locks[r]], m, 1)
    BY <1>1, <2>1 DEF TypeOK
  <2>3. CASE th = h
    <3>1. req'[th].entry = locks[r] /\ req'[th].mode = m
      BY <1>1, <2>1, <2>3 DEF TypeOK
    <3> QED BY <1>2, <1>3, <2>1, <2>2, <2>3, <3>1, CountingOpensNothing DEF Grantable
  <2>4. CASE th # h
    <3>1. th \in Waiting /\ req'[th] = req[th]
      BY <1>1, <1>2, <1>3, <2>1, <2>4 DEF TypeOK, Waiting
    <3>2. CASE req[th].entry = locks[r]
      BY <1>1, <1>2, <1>3, <2>1, <2>2, <3>1, <3>2, CountingOpensNothing, StaysWoken DEF Grantable
    <3>3. CASE req[th].entry # locks[r]
      <4>1. entry'[req[th].entry] = entry[req[th].entry]
        BY <1>1, <1>4, <2>1, <3>1, <3>3 DEF TypeOK
      <4> QED BY <1>1, <1>2, <2>1, <3>1, <4>1, StaysWoken DEF Grantable
    <3> QED BY <3>2, <3>3
  <2> QED BY <2>3, <2>4
<1>8. ASSUME NEW h \in Thread, WakeAndGrant(h) \/ TimeOut(h)
      PROVE  th \in notified'
  <2> DEFINE q == req[h]
  <2>1. /\ h \in Waiting /\ pc' = [pc EXCEPT ![h] = "idle"] /\ req' = [req EXCEPT ![h] = NoRequest]
        /\ notified' = notified \ {h} /\ TxnOf[h] \in Txn
        /\ q.entry \in Entry /\ q.mode \in Mode /\ entry[q.entry] \in LockEntry
    BY <1>1, <1>8, ThreadAssumption DEF WakeAndGrant, TimeOut, Unpark, TypeOK
  <2>2. th # h /\ th \in Waiting /\ req'[th] = req[th]
    BY <1>1, <1>2, <1>3, <2>1 DEF TypeOK, Waiting
  <2>3. th \in notified => th \in notified'
    BY <2>1, <2>2
  <2>4. CASE req[th].entry # q.entry
    <3>1. entry'[req[th].entry] = entry[req[th].entry]
      BY <1>1, <1>4, <1>8, <2>1, <2>2, <2>4 DEF WakeAndGrant, TimeOut, TypeOK
    <3> QED BY <1>1, <1>2, <2>2, <2>3, <3>1, StaysWoken DEF Grantable
  <2>5. CASE req[th].entry = q.entry /\ WakeAndGrant(h)
    <3>1. /\ CanAcquire(entry[q.entry], TxnOf[h], q.mode)
          /\ entry'[q.entry] = AddWriter(Granted(entry[q.entry], TxnOf[h], q.mode), q.mode, -1)
      BY <1>1, <2>1, <2>5 DEF WakeAndGrant, Grantable, TypeOK
    <3>2. Granted(entry[q.entry], TxnOf[h], q.mode) \in LockEntry
      BY <2>1, <3>1, GrantedOK DEF IInv, Exclusion
    <3>3. req[th].mode \in Writer => (CanAcquire(entry'[q.entry], TxnOf[th], req[th].mode) => Grantable(th))
      BY <1>3, <2>1, <2>5, <3>1, <3>2, CountingOpensNothing, GrantOpensNothing DEF Grantable
    <3> QED BY <1>1, <1>2, <2>2, <2>3, <2>5, <3>3, StaysWoken
  <2>6. CASE req[th].entry = q.entry /\ TimeOut(h)
    <3>1. entry'[q.entry] = AddWriter(entry[q.entry], q.mode, -1)
      BY <1>1, <2>1, <2>6 DEF TimeOut, TypeOK
    <3>2. req[th].mode \in Writer => (CanAcquire(entry'[q.entry], TxnOf[th], req[th].mode) => Grantable(th))
      BY <1>3, <2>1, <2>6, <3>1, CountingOpensNothing DEF Grantable
    <3> QED BY <1>1, <1>2, <2>2, <2>3, <2>6, <3>2, StaysWoken
  <2> QED BY <1>8, <2>4, <2>5, <2>6
<1>9. ASSUME NEW h \in Thread, WakeAndWait(h) PROVE th \in notified'
  BY <1>2, <1>9 DEF WakeAndWait, WriterWoken, Grantable, Waiting
<1>10. ASSUME NEW h \in Thread, NEW r \in Resource, Release(h, r) \/ ReleaseAllStep(h, r)
       PROVE  th \in notified'
  <2>1. Waiting' = Waiting
    BY <1>1, <1>10 DEF Release, ReleaseAllStep, NextResource, Waiting, TypeOK
  <2> QED BY <1>2, <1>5, <1>10, <2>1 DEF Release, ReleaseAllStep, ReleaseOne
<1>11. ASSUME NEW h \in Thread, ReleaseAllList(h) \/ ReleaseAllCheck(h) PROVE th \in notified'
  <2>1. Waiting' = Waiting
    BY <1>1, <1>11 DEF ReleaseAllList, ReleaseAllCheck, NextResource, Waiting, TypeOK
  <2> QED BY <1>5, <1>11, <2>1 DEF ReleaseAllList, ReleaseAllCheck
<1>12. CASE UNCHANGED vars
  BY <1>5, <1>12 DEF vars, Waiting
<1> QED BY <1>6, <1>7, <1>8, <1>9, <1>10, <1>11, <1>12 DEF Next, Acquire

\* acquire loses no wake-up of a writer: one that could be granted its lock has been
\* notified, for any number of threads, several of one transaction included.
THEOREM WritersAreWoken == Spec => []WriterWoken
<1>1. Init => WriterWoken
  BY DEF Init, WriterWoken, Waiting
<1> QED BY <1>1, WokenNext, Invariance, PTL DEF Spec
=============================================================================
