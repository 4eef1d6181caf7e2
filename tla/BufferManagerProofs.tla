------------------------ MODULE BufferManagerProofs ------------------------
(***************************************************************************)
(* Proofs about BufferManager, for any number of frames, files, pages,     *)
(* changes, pins and transactions: frames, page table and pins agree, the  *)
(* images that the log is given are the right ones and reach it before     *)
(* any file, and the pool implements PageStore.                            *)
(***************************************************************************)
EXTENDS BufferManager, DataLemmas

\* A key is the pair of a file and a page number.
LEMMA KeyParts ==
  ASSUME NEW k \in Key
  PROVE  k[1] \in Manager /\ k[2] \in 0..(MaxPages[k[1]] - 1) /\ k = <<k[1], k[2]>>
BY PoolAssumption DEF Key

LEMMA KeyMade ==
  ASSUME NEW m \in Manager, NEW n \in 0..(MaxPages[m] - 1) PROVE <<m, n>> \in Key
BY PoolAssumption DEF Key

LEMMA KeysFinite == IsFiniteSet(Key)
<1> DEFINE Pages(m) == {m} \X (0..(MaxPages[m] - 1))
           Files == {Pages(m) : m \in Manager}
<1>1. IsFiniteSet(Files)
  <2>1. IsFiniteSet(Manager)
    BY PoolAssumption
  <2> DEFINE F == [m \in Manager |-> Pages(m)]
  <2>2. F \in [Manager -> Files] /\ \A T \in Files : \E m \in Manager : F[m] = T
    OBVIOUS
  <2>3. F \in Surjection(Manager, Files)
    BY <2>2 DEF Surjection
  <2> QED BY <2>1, <2>3, FS_Surjection
<1>2. ASSUME NEW m \in Manager PROVE IsFiniteSet(Pages(m))
  <2>1. IsFiniteSet({m}) /\ IsFiniteSet(0..(MaxPages[m] - 1))
    <3>1. MaxPages[m] - 1 \in Int
      BY PoolAssumption
    <3>2. IsFiniteSet(0..(MaxPages[m] - 1))
      BY <3>1, FS_Interval
    <3> QED BY <3>2, FS_Singleton
  <2> QED BY <2>1, FS_Product
<1>3. IsFiniteSet(UNION Files)
  BY <1>1, <1>2, FS_UNION
<1> QED BY <1>3 DEF Key

\* The bound on fetches bounds the fetches of each page.
LEMMA HoldRoom ==
  ASSUME TypeOK, MayFetch, NEW k \in Key
  PROVE  holds[k] < MaxPins
<1> DEFINE H == {h \in Key \X (1..MaxPins) : h[2] <= holds[h[1]]}
           C == {k} \X (1..MaxPins)
<1>1. MaxPins \in Nat \ {0} /\ holds[k] \in 0..MaxPins
  BY PoolAssumption DEF TypeOK
<1>2. IsFiniteSet(1..MaxPins) /\ Cardinality(1..MaxPins) = MaxPins
  BY <1>1, FS_Interval
<1>3. IsFiniteSet(C) /\ Cardinality(C) = MaxPins
  <2>1. IsFiniteSet({k}) /\ Cardinality({k}) = 1
    BY FS_Singleton
  <2>2. IsFiniteSet(C) /\ Cardinality(C) = 1 * MaxPins
    BY <1>2, <2>1, FS_Product, ZenonT(30)
  <2> QED BY <1>1, <2>2
<1>4. IsFiniteSet(H) /\ Cardinality(H) \in Nat
  <2>1. IsFiniteSet(Key \X (1..MaxPins))
    BY <1>2, KeysFinite, FS_Product
  <2> QED BY <2>1, FS_Subset, FS_CardinalityType
<1>5. Cardinality(H) < MaxPins
  BY DEF MayFetch
<1>6. ASSUME holds[k] = MaxPins PROVE FALSE
  <2>1. C \in SUBSET H
    BY <1>1, <1>6
  <2>2. Cardinality(C) <= Cardinality(H)
    BY <1>4, <2>1, FS_Subset
  <2> QED BY <1>1, <1>3, <1>4, <1>5, <2>2
<1> QED BY <1>1, <1>6

-----------------------------------------------------------------------------
(* The inductive invariant.                                                *)

Earlier == 0..(next - 1)

\* If image v was made under a transaction, log l has a record of it for page k.
LoggedIn(o, l, k, v) == v \in o => \E i \in DOMAIN l : l[i].key = k /\ l[i].after = v
Logged(k, v) == LoggedIn(owed, log, k, v)

\* A frame with a page that the table does not know is clean and not pinned.
FrameOK(f) ==
  frames[f].key # None =>
    \/ pageTable[frames[f].key] = f
    \/ /\ ~ Cached(frames[f].key) /\ state[frames[f].key[1]] = "closed"
       /\ ~ frames[f].dirty /\ frames[f].pin = 0

\* What is known of a page.  A change that is not yet marked is made by one who
\* holds the page, under the transaction that the provider still answers.
KeyOK(k) ==
  /\ Cached(k) => /\ FrameOf(k).key = k /\ state[k[1]] = "open" /\ FrameOf(k).pin = holds[k]
                  /\ FrameOf(k).bin \in Earlier /\ FrameOf(k).orig \in Earlier
  /\ state[k[1]] = "open" /\ ~ Cached(k) => holds[k] = 0
  /\ before[k] # None => /\ Cached(k) /\ holds[k] > 0
                         /\ before[k] \in Earlier /\ before[k] < FrameOf(k).bin
                         /\ FrameOf(k).bin \in owed => txn # 0
  /\ disk[k] \in Earlier
  /\ k \notin tainted =>
       /\ Logged(k, disk[k])
       /\ Cached(k) => /\ FrameOf(k).orig = IF before[k] = None THEN FrameOf(k).bin ELSE before[k]
                       /\ Logged(k, FrameOf(k).orig)

\* A record takes a page back to an image that was itself logged, if it had to be.
LogOK ==
  /\ \A i \in DOMAIN log : /\ log[i].before \in Earlier
                           /\ log[i].key \notin tainted => Logged(log[i].key, log[i].before)
  /\ owed \subseteq 1..(next - 1)
  /\ rolling = 0 => pos = 0

IInv == TypeOK /\ LogOK /\ (\A f \in FrameId : FrameOK(f)) /\ (\A k \in Key : KeyOK(k))

-----------------------------------------------------------------------------
(* What a step does to one page.                                           *)

\* The history only grows: new images are new.
Grown ==
  /\ next' \in Nat /\ next <= next'
  /\ owed' \cap Earlier \subseteq owed /\ 0 \notin owed'
  /\ \A i \in DOMAIN log : i \in DOMAIN log' /\ log'[i] = log[i]
  /\ tainted \subseteq tainted'

LEMMA EarlierStays ==
  ASSUME TypeOK, Grown
  PROVE  Earlier \subseteq Earlier' /\ 0 \in Earlier
<1>1. next \in Nat /\ next' \in Nat /\ next <= next' /\ 0 < next
  BY PoolAssumption DEF TypeOK, Grown
<1>2. ASSUME NEW a \in Nat, NEW b \in Nat, a <= b, 0 < a
      PROVE  0..(a - 1) \subseteq 0..(b - 1) /\ 0 \in 0..(a - 1)
  BY <1>2
<1>3. 0..(next - 1) \subseteq 0..(next' - 1) /\ 0 \in 0..(next - 1)
  BY <1>1, <1>2
<1> QED BY <1>3 DEF Earlier

LEMMA LoggedStays ==
  ASSUME Grown
  PROVE  /\ \A k, v : v \in Earlier /\ Logged(k, v) => LoggedIn(owed', log', k, v)
         /\ \A k : LoggedIn(owed', log', k, 0)
BY DEF Grown, Logged, LoggedIn

\* Where no change is half made: the page is cleaned, or nothing happens to it.
LEMMA KeyCleaned ==
  ASSUME TypeOK, NEW k \in Key, KeyOK(k), Grown, Cached(k), before[k] = None, before'[k] = None,
         pageTable'[k] = pageTable[k], state'[k[1]] = state[k[1]], holds'[k] = holds[k],
         frames'[pageTable[k]].key = FrameOf(k).key, frames'[pageTable[k]].pin = FrameOf(k).pin,
         frames'[pageTable[k]].bin = FrameOf(k).bin,
         frames'[pageTable[k]].orig \in {FrameOf(k).orig, FrameOf(k).bin},
         disk'[k] \in {disk[k], FrameOf(k).bin, 0}
  PROVE  KeyOK(k)'
<1>2. Earlier \subseteq Earlier' /\ 0 \in Earlier
  BY EarlierStays
<1>3. k \notin tainted' => k \notin tainted
  BY DEF Grown
<1>4. PICK fr : fr = frames'[pageTable[k]]
  OBVIOUS
<1>5. /\ FrameOf(k)' = fr /\ Cached(k)' /\ fr.key = FrameOf(k).key /\ fr.pin = FrameOf(k).pin
      /\ fr.bin = FrameOf(k).bin /\ fr.orig \in {FrameOf(k).orig, FrameOf(k).bin}
  BY <1>4 DEF FrameOf, Cached
<1>6. disk'[k] \in Earlier'
  BY <1>2 DEF KeyOK
<1>7. ASSUME k \notin tainted
      PROVE  /\ FrameOf(k).orig = FrameOf(k).bin
             /\ LoggedIn(owed', log', k, FrameOf(k).bin)
             /\ LoggedIn(owed', log', k, disk'[k])
  <2>1. /\ FrameOf(k).orig = FrameOf(k).bin /\ FrameOf(k).bin \in Earlier /\ disk[k] \in Earlier
        /\ Logged(k, FrameOf(k).bin) /\ Logged(k, disk[k])
    BY <1>7 DEF KeyOK
  <2>2. /\ LoggedIn(owed', log', k, disk[k]) /\ LoggedIn(owed', log', k, 0)
        /\ LoggedIn(owed', log', k, FrameOf(k).bin)
    BY <2>1, LoggedStays
  <2> QED BY <2>1, <2>2
<1>8. k \notin tainted' =>
        /\ LoggedIn(owed', log', k, disk'[k])
        /\ fr.orig = fr.bin /\ LoggedIn(owed', log', k, fr.orig)
  BY <1>3, <1>5, <1>7
<1> QED BY <1>2, <1>5, <1>6, <1>8 DEF KeyOK, Logged

\* Nothing happens to the page.
LEMMA KeyKept ==
  ASSUME TypeOK, NEW k \in Key, KeyOK(k), Grown, before[k] # None => txn' = txn,
         before'[k] = before[k], pageTable'[k] = pageTable[k], state'[k[1]] = state[k[1]],
         holds'[k] = holds[k], disk'[k] = disk[k],
         Cached(k) => /\ frames'[pageTable[k]].key = FrameOf(k).key
                      /\ frames'[pageTable[k]].pin = FrameOf(k).pin
                      /\ frames'[pageTable[k]].bin = FrameOf(k).bin
                      /\ frames'[pageTable[k]].orig = FrameOf(k).orig
  PROVE  KeyOK(k)'
<1>2. Earlier \subseteq Earlier' /\ 0 \in Earlier
  BY EarlierStays
<1>3. k \notin tainted' => k \notin tainted
  BY DEF Grown
<1>4. ASSUME k \notin tainted
      PROVE  /\ LoggedIn(owed', log', k, disk[k])
             /\ Cached(k) => LoggedIn(owed', log', k, FrameOf(k).orig)
  BY <1>4, LoggedStays DEF KeyOK
<1>5. FrameOf(k).bin \in owed' /\ Cached(k) => FrameOf(k).bin \in owed
  BY DEF KeyOK, Grown
<1> QED BY <1>2, <1>3, <1>4, <1>5 DEF KeyOK, Cached, FrameOf, Logged

\* The page is in no frame any more.
LEMMA KeyGone ==
  ASSUME TypeOK, NEW k \in Key, KeyOK(k), Grown, before[k] = None, before'[k] = None,
         pageTable'[k] = Absent, state'[k[1]] = "open" => holds'[k] = 0,
         \/ disk'[k] \in {disk[k], 0}
         \/ Cached(k) /\ disk'[k] = FrameOf(k).bin
  PROVE  KeyOK(k)'
<1>2. Earlier \subseteq Earlier' /\ 0 \in Earlier
  BY EarlierStays
<1>3. k \notin tainted' => k \notin tainted
  BY DEF Grown
<1>4. disk'[k] \in Earlier'
  BY <1>2 DEF KeyOK
<1>5. ASSUME k \notin tainted PROVE LoggedIn(owed', log', k, disk'[k])
  <2>1. /\ LoggedIn(owed', log', k, disk[k]) /\ LoggedIn(owed', log', k, 0)
        /\ Cached(k) => LoggedIn(owed', log', k, FrameOf(k).bin)
    BY <1>5, LoggedStays DEF KeyOK
  <2> QED BY <2>1
<1> QED BY <1>3, <1>4, <1>5 DEF KeyOK, Cached, Logged

-----------------------------------------------------------------------------
(* The operators of the pool.                                              *)

\* What a page looks like whose frame is in order.
LEMMA FrameType ==
  ASSUME TypeOK, NEW f \in FrameId
  PROVE  /\ frames[f] \in FrameRecord
         /\ frames[f].key \in Key \cup {None} /\ frames[f].pin \in Nat
         /\ frames[f].dirty \in BOOLEAN /\ frames[f].ref \in BOOLEAN
         /\ frames[f].bin \in Image \cup {None} /\ frames[f].orig \in Image \cup {None}
         /\ frames[f].dirty \/ frames[f].pin > 0 => frames[f].key # None
<1>1. frames[f] \in FrameRecord
  BY DEF TypeOK
<1> QED BY <1>1 DEF TypeOK, FrameRecord

LEMMA TableType ==
  ASSUME TypeOK, NEW k \in Key, Cached(k)
  PROVE  pageTable[k] \in FrameId /\ FrameOf(k) = frames[pageTable[k]]
BY DEF TypeOK, Cached, FrameOf

\* Of two frames with the same page at most one is in the table.
LEMMA DirtyListed ==
  ASSUME TypeOK, NEW f \in FrameId, FrameOK(f), frames[f].dirty \/ frames[f].pin > 0
  PROVE  /\ frames[f].key \in Key /\ pageTable[frames[f].key] = f /\ Cached(frames[f].key)
         /\ FrameOf(frames[f].key) = frames[f]
<1>1. frames[f].key \in Key
  BY FrameType
<1>2. pageTable[frames[f].key] = f /\ f # Absent
  BY <1>1, FrameType, NoneAssumption DEF FrameOK, FrameId, Absent
<1> QED BY <1>1, <1>2 DEF Cached, FrameOf

LEMMA CleanIs ==
  ASSUME NEW fr \in FrameRecord
  PROVE  /\ Clean(fr) \in FrameRecord /\ Clean(fr).dirty = FALSE
         /\ Clean(fr).key = fr.key /\ Clean(fr).bin = fr.bin /\ Clean(fr).pin = fr.pin
         /\ Clean(fr).ref = fr.ref
         /\ Clean(fr).orig = IF fr.dirty THEN fr.bin ELSE fr.orig
BY DEF Clean, FrameRecord

\* The sweep ends at a frame without pins.
LEMMA VictimIs ==
  ASSUME TypeOK, Rounds # {}
  PROVE  StopAt \in Nat /\ Nth(StopAt) \in FrameId /\ frames[Nth(StopAt)].pin = 0
<1>1. MaxFrames \in Nat \ {0} /\ clockHand \in 0..(MaxFrames - 1)
  BY PoolAssumption DEF TypeOK, FrameId
<1>2. Rounds \in SUBSET (0..(2 * MaxFrames - 1)) /\ 2 * MaxFrames - 1 \in Nat
  BY <1>1 DEF Rounds
<1>3. \E i \in Rounds : \A j \in Rounds : i <= j
  BY <1>2, LeastExists
<1>4. StopAt \in Rounds
  BY <1>3 DEF StopAt
<1>5. StopAt \in Nat /\ Stops(StopAt)
  BY <1>1, <1>4 DEF Rounds
<1>6. Nth(StopAt) \in FrameId
  BY <1>1, <1>5 DEF Nth, FrameId
<1> QED BY <1>5, <1>6, FrameType DEF Stops

\* What the sweep leaves: the victim clean, and only references cleared elsewhere.
LEMMA SweptIs ==
  ASSUME TypeOK, NEW i \in Nat
  PROVE  /\ Swept(i) \in [FrameId -> FrameRecord]
         /\ \A f \in FrameId :
              /\ Swept(i)[f].key = frames[f].key /\ Swept(i)[f].bin = frames[f].bin
              /\ Swept(i)[f].pin = frames[f].pin
              /\ f # Nth(i) => /\ Swept(i)[f].dirty = frames[f].dirty
                               /\ Swept(i)[f].orig = frames[f].orig
              /\ f = Nth(i) => /\ Swept(i)[f].dirty = FALSE
                               /\ Swept(i)[f].orig = IF frames[f].dirty THEN frames[f].bin
                                                     ELSE frames[f].orig
<1> DEFINE Un(f) == IF f \in {Nth(j) : j \in 0..i} /\ frames[f].key # None /\ frames[f].pin = 0
                    THEN [frames[f] EXCEPT !.ref = FALSE] ELSE frames[f]
<1>1. ASSUME NEW f \in FrameId
      PROVE  /\ Un(f) \in FrameRecord /\ Un(f).key = frames[f].key /\ Un(f).bin = frames[f].bin
             /\ Un(f).pin = frames[f].pin /\ Un(f).dirty = frames[f].dirty
             /\ Un(f).orig = frames[f].orig
  <2>1. frames[f] \in FrameRecord
    BY FrameType
  <2> QED BY <2>1 DEF FrameRecord
<1>2. Swept(i) = [f \in FrameId |-> IF f = Nth(i) THEN Clean(Un(f)) ELSE Un(f)]
  BY DEF Swept
<1> HIDE DEF Un
<1>3. ASSUME NEW f \in FrameId
      PROVE  /\ f # Nth(i) => Swept(i)[f] = Un(f)
             /\ f = Nth(i) => Swept(i)[f] = Clean(Un(f))
  BY <1>2
<1>4. ASSUME NEW f \in FrameId
      PROVE  /\ Clean(Un(f)) \in FrameRecord /\ Clean(Un(f)).dirty = FALSE
             /\ Clean(Un(f)).key = frames[f].key /\ Clean(Un(f)).bin = frames[f].bin
             /\ Clean(Un(f)).pin = frames[f].pin
             /\ Clean(Un(f)).orig = IF frames[f].dirty THEN frames[f].bin ELSE frames[f].orig
  <2>1. PICK u \in FrameRecord : u = Un(f)
    BY <1>1
  <2>2. /\ Clean(u) \in FrameRecord /\ Clean(u).dirty = FALSE
        /\ Clean(u).key = u.key /\ Clean(u).bin = u.bin /\ Clean(u).pin = u.pin
        /\ Clean(u).orig = IF u.dirty THEN u.bin ELSE u.orig
    BY CleanIs
  <2>3. /\ u.key = frames[f].key /\ u.bin = frames[f].bin /\ u.pin = frames[f].pin
        /\ u.dirty = frames[f].dirty /\ u.orig = frames[f].orig
    BY <1>1, <2>1
  <2> QED BY <2>1, <2>2, <2>3
<1>5. Swept(i) \in [FrameId -> FrameRecord]
  BY <1>1, <1>2, <1>4
<1> QED BY <1>1, <1>3, <1>4, <1>5, ZenonT(30)

\* A dirty page of the frames that are written reaches its file.
LEMMA WrittenIs ==
  ASSUME TypeOK, \A f \in FrameId : FrameOK(f), NEW fs \in SUBSET FrameId, NEW k \in Key
  PROVE  Written(fs)[k] = IF Cached(k) /\ pageTable[k] \in fs /\ FrameOf(k).dirty /\ FrameOf(k).key = k
                          THEN FrameOf(k).bin ELSE disk[k]
<1> DEFINE dirty == {f \in fs : frames[f].dirty}
<1>1. Written(fs)[k] = IF \E f \in dirty : frames[f].key = k
                       THEN frames[CHOOSE f \in dirty : frames[f].key = k].bin ELSE disk[k]
  BY DEF Written
<1>2. ASSUME NEW f \in dirty, frames[f].key = k PROVE f = pageTable[k] /\ Cached(k) /\ FrameOf(k) = frames[f]
  BY <1>2, DirtyListed
<1>3. CASE Cached(k) /\ pageTable[k] \in fs /\ FrameOf(k).dirty /\ FrameOf(k).key = k
  <2>1. pageTable[k] \in dirty /\ frames[pageTable[k]].key = k
    BY <1>3, TableType
  <2>2. (CHOOSE f \in dirty : frames[f].key = k) = pageTable[k]
    BY <1>2, <2>1
  <2> QED BY <1>1, <1>3, <2>1, <2>2, TableType
<1>4. CASE ~ (Cached(k) /\ pageTable[k] \in fs /\ FrameOf(k).dirty /\ FrameOf(k).key = k)
  <2>1. ~ \E f \in dirty : frames[f].key = k
    BY <1>2, <1>4
  <2> QED BY <1>1, <1>4, <2>1
<1> QED BY <1>3, <1>4

\* What goes to the files is an image.
LEMMA WrittenType ==
  ASSUME IInv, NEW fs \in SUBSET FrameId
  PROVE  Written(fs) \in [Key -> Image]
<1>1. Written(fs) = [k \in Key |-> Written(fs)[k]]
  BY DEF Written
<1>2. ASSUME NEW k \in Key PROVE Written(fs)[k] \in Image
  <2>1. disk[k] \in Image
    BY DEF IInv, TypeOK
  <2>2. Earlier \subseteq Image
    BY PoolAssumption DEF Earlier, Image, IInv, TypeOK
  <2> QED BY <2>1, <2>2, WrittenIs DEF IInv, KeyOK
<1> QED BY <1>1, <1>2

\* The last record of a transaction among the first i.
LEMMA PrecedingIs ==
  ASSUME NEW t, NEW i \in Nat
  PROVE  Preceding(t, i) \in 0..i
<1> DEFINE own == {j \in 1..i : log[j].txn = t}
<1>1. own \in SUBSET (0..i)
  OBVIOUS
<1>2. CASE own = {}
  BY <1>2 DEF Preceding
<1>3. CASE own # {}
  <2>1. \E j \in own : \A h \in own : h <= j
    <3> HIDE DEF own
    <3> QED BY <1>1, <1>3, GreatestExists
  <2> QED BY <1>3, <2>1 DEF Preceding
<1> QED BY <1>2, <1>3

\* The loop gives up only when every frame is pinned: the second turn stops at
\* any frame without pins.
LEMMA VictimExists ==
  ASSUME TypeOK, NEW f \in FrameId, frames[f].pin = 0
  PROVE  Rounds # {}
<1>1. MaxFrames \in Nat \ {0} /\ clockHand \in 0..(MaxFrames - 1) /\ f \in 0..(MaxFrames - 1)
  BY PoolAssumption DEF TypeOK, FrameId
<1> DEFINE i == IF f >= clockHand THEN MaxFrames + f - clockHand ELSE MaxFrames + MaxFrames + f - clockHand
<1>2. CASE f >= clockHand
  <2>1. i \in MaxFrames..(2 * MaxFrames - 1) /\ clockHand + i = f + MaxFrames
    BY <1>1, <1>2
  <2>2. Nth(i) = f
    <3>1. (f + MaxFrames) % MaxFrames = f
      BY <1>1
    <3> QED BY <2>1, <3>1 DEF Nth
  <2> QED BY <1>1, <2>1, <2>2 DEF Rounds, Stops
<1>3. CASE f < clockHand
  <2>1. i \in MaxFrames..(2 * MaxFrames - 1) /\ clockHand + i = f + 2 * MaxFrames
    BY <1>1, <1>3
  <2>2. Nth(i) = f
    <3>1. (f + 2 * MaxFrames) % MaxFrames = f
      BY <1>1
    <3> QED BY <2>1, <3>1 DEF Nth
  <2> QED BY <1>1, <2>1, <2>2 DEF Rounds, Stops
<1> QED BY <1>1, <1>2, <1>3

-----------------------------------------------------------------------------
(* The actions preserve the invariant.                                     *)

LEMMA SameGrown ==
  ASSUME TypeOK, LogOK, next' = next, log' = log, owed' = owed, tainted \subseteq tainted'
  PROVE  Grown
<1>1. next \in Nat
  BY PoolAssumption DEF TypeOK
<1> QED BY <1>1 DEF Grown, LogOK

LEMMA LogStays ==
  ASSUME TypeOK, LogOK, next' = next, log' = log, owed' = owed, tainted \subseteq tainted',
         rolling' = 0 => pos' = 0
  PROVE  LogOK'
<1>1. \A i \in DOMAIN log : log'[i] = log[i] /\ (log'[i].key \notin tainted' => log[i].key \notin tainted)
  OBVIOUS
<1>2. Earlier' = Earlier
  BY DEF Earlier
<1> QED BY <1>1, <1>2 DEF LogOK, Logged, LoggedIn

\* Frames keep their pages.
LEMMA FramesStay ==
  ASSUME TypeOK, \A f \in FrameId : FrameOK(f), pageTable' = pageTable, state' = state,
         \A f \in FrameId : frames'[f].key = frames[f].key,
         \A f \in FrameId : frames[f].key # None /\ pageTable[frames[f].key] # f =>
           ~ frames'[f].dirty /\ frames'[f].pin = 0
  PROVE  \A f \in FrameId : FrameOK(f)'
<1>1. SUFFICES ASSUME NEW f \in FrameId PROVE FrameOK(f)'
  OBVIOUS
<1>2. FrameOK(f)
  OBVIOUS
<1> QED BY <1>2 DEF FrameOK, Cached

\* One frame changes.
LEMMA FrameChanged ==
  ASSUME frames \in [FrameId -> FrameRecord], NEW g \in FrameId, NEW fr \in FrameRecord,
         frames' = [frames EXCEPT ![g] = fr]
  PROVE  /\ frames' \in [FrameId -> FrameRecord] /\ frames'[g] = fr
         /\ \A f \in FrameId : f # g => frames'[f] = frames[f]
OBVIOUS

LEMMA RecordChanged ==
  ASSUME NEW fr \in FrameRecord, NEW n \in Nat
  PROVE  /\ [fr EXCEPT !.pin = n] \in FrameRecord /\ [fr EXCEPT !.pin = n, !.ref = TRUE] \in FrameRecord
         /\ \A g \in {[fr EXCEPT !.pin = n], [fr EXCEPT !.pin = n, !.ref = TRUE]} :
              /\ g.pin = n /\ g.key = fr.key /\ g.bin = fr.bin /\ g.orig = fr.orig
              /\ g.dirty = fr.dirty
BY DEF FrameRecord

\* A page is fetched once more, or given back.
LEMMA PinStep ==
  ASSUME IInv, NEW k \in Key, Cached(k), NEW n \in 0..MaxPins,
         NEW fr \in FrameRecord, frames' = [frames EXCEPT ![pageTable[k]] = fr],
         fr.key = FrameOf(k).key, fr.bin = FrameOf(k).bin, fr.orig = FrameOf(k).orig,
         fr.dirty = FrameOf(k).dirty, fr.pin = n,
         holds' = [holds EXCEPT ![k] = n], before[k] # None => n > 0,
         UNCHANGED <<pageTable, clockHand, files, trans, next, before, log, hist>>
  PROVE  IInv'
<1>1. TypeOK /\ LogOK /\ \A f \in FrameId : FrameOK(f)
  BY DEF IInv
<1>2. /\ pageTable[k] \in FrameId /\ FrameOf(k) = frames[pageTable[k]] /\ FrameOf(k).key = k
  BY <1>1, TableType DEF IInv, KeyOK
<1>a. /\ frames' \in [FrameId -> FrameRecord]
      /\ frames'[pageTable[k]] = fr /\ \A f \in FrameId : f # pageTable[k] => frames'[f] = frames[f]
  BY <1>1, <1>2, FrameChanged DEF TypeOK
<1>b. \A f \in FrameId :
        /\ frames'[f].key = frames[f].key /\ frames'[f].bin = frames[f].bin
        /\ frames'[f].orig = frames[f].orig /\ frames'[f].dirty = frames[f].dirty
        /\ f # pageTable[k] => frames'[f].pin = frames[f].pin
  BY <1>2, <1>a
<1>3. UNCHANGED <<pageTable, clockHand, state, size, disk, txn, rolling, pos, next, before, log, owed, tainted>>
  BY DEF files, trans, hist
<1>4. Grown /\ LogOK'
  BY <1>1, <1>3, SameGrown, LogStays DEF LogOK
<1>5. holds' \in [Key -> 0..MaxPins] /\ holds'[k] = n /\ \A j \in Key : j # k => holds'[j] = holds[j]
  BY <1>1 DEF TypeOK
<1>6. TypeOK'
  <2>1. ASSUME NEW f \in FrameId PROVE frames'[f].dirty \/ frames'[f].pin > 0 => frames'[f].key # None
    BY <1>1, <1>2, <1>a, FrameType, NoneAssumption
  <2> QED BY <1>1, <1>3, <1>5, <1>a, <2>1 DEF TypeOK
<1>7. \A f \in FrameId : FrameOK(f)'
  <2>1. ASSUME NEW f \in FrameId, frames[f].key # None, pageTable[frames[f].key] # f
        PROVE  ~ frames'[f].dirty /\ frames'[f].pin = 0
    <3>1. ~ frames[f].dirty /\ frames[f].pin = 0 /\ f # pageTable[k]
      BY <1>1, <1>2, <2>1 DEF FrameOK
    <3> QED BY <1>b, <3>1
  <2> QED BY <1>1, <1>3, <1>b, <2>1, FramesStay
<1>8. ASSUME NEW j \in Key, j # k PROVE KeyOK(j)'
  <2>1. KeyOK(j)
    BY DEF IInv
  <2>2. Cached(j) => pageTable[j] \in FrameId /\ FrameOf(j) = frames[pageTable[j]] /\ pageTable[j] # pageTable[k]
    BY <1>1, <1>2, <1>8, <2>1, TableType DEF KeyOK
  <2> QED BY <1>1, <1>3, <1>4, <1>5, <1>8, <1>a, <2>1, <2>2, KeyKept
<1>9. KeyOK(k)'
  <2>1. KeyOK(k) /\ FrameOf(k)' = frames'[pageTable[k]] /\ Cached(k)' /\ Earlier' = Earlier
    BY <1>3 DEF IInv, FrameOf, Cached, Earlier
  <2>2. n > 0 \/ before[k] = None
    OBVIOUS
  <2>3. FrameOf(k)'.pin = n /\ FrameOf(k)'.bin = FrameOf(k).bin /\ FrameOf(k)'.orig = FrameOf(k).orig /\ FrameOf(k)'.key = k
    BY <1>2, <1>a, <2>1
  <2> QED BY <1>3, <1>5, <2>1, <2>2, <2>3 DEF KeyOK, Logged, LoggedIn
<1> QED BY <1>4, <1>6, <1>7, <1>8, <1>9 DEF IInv

LEMMA StepFetchHit ==
  ASSUME IInv, NEW k \in Key, FetchHit(k) PROVE IInv'
<1>1. TypeOK /\ Cached(k) /\ KeyOK(k) /\ MayFetch
  BY DEF IInv, FetchHit
<1>2. /\ pageTable[k] \in FrameId /\ FrameOf(k) = frames[pageTable[k]] /\ FrameOf(k).pin = holds[k]
      /\ holds[k] \in 0..MaxPins /\ holds[k] < MaxPins
  BY <1>1, TableType, HoldRoom DEF KeyOK, TypeOK
<1>3. holds[k] + 1 \in 0..MaxPins /\ holds[k] + 1 > 0
  BY <1>2, PoolAssumption
<1>4. PICK n \in 0..MaxPins : n = holds[k] + 1
  BY <1>3
<1>5. PICK fr \in FrameRecord : fr = FrameOf(k)
  BY <1>1, <1>2, FrameType
<1> DEFINE g == [fr EXCEPT !.pin = n, !.ref = TRUE]
<1>6. g \in FrameRecord /\ g.pin = n /\ g.key = fr.key /\ g.bin = fr.bin /\ g.orig = fr.orig /\ g.dirty = fr.dirty
  <2>1. n \in Nat
    BY PoolAssumption
  <2> QED BY <2>1, RecordChanged
<1>7. frames' = [frames EXCEPT ![pageTable[k]] = g] /\ holds' = [holds EXCEPT ![k] = n]
  BY <1>2, <1>4, <1>5 DEF FetchHit
<1>8. UNCHANGED <<pageTable, clockHand, files, trans, next, before, log, hist>>
  BY DEF FetchHit
<1> HIDE DEF g
<1> QED BY <1>1, <1>3, <1>4, <1>5, <1>6, <1>7, <1>8, PinStep

LEMMA StepUnpin ==
  ASSUME IInv, NEW k \in Key, Unpin(k) PROVE IInv'
<1>1. TypeOK /\ Cached(k) /\ KeyOK(k)
  BY DEF IInv, Unpin
<1>2. /\ pageTable[k] \in FrameId /\ FrameOf(k) = frames[pageTable[k]] /\ FrameOf(k).pin = holds[k]
      /\ holds[k] \in 0..MaxPins /\ holds[k] > 0 /\ (before[k] # None => holds[k] > 1)
  BY <1>1, TableType DEF KeyOK, TypeOK, Unpin
<1>3. holds[k] - 1 \in 0..MaxPins /\ (before[k] # None => holds[k] - 1 > 0)
  BY <1>2, PoolAssumption
<1>4. PICK n \in 0..MaxPins : n = holds[k] - 1
  BY <1>3
<1>5. PICK fr \in FrameRecord : fr = FrameOf(k)
  BY <1>1, <1>2, FrameType
<1> DEFINE g == [fr EXCEPT !.pin = n]
<1>6. g \in FrameRecord /\ g.pin = n /\ g.key = fr.key /\ g.bin = fr.bin /\ g.orig = fr.orig /\ g.dirty = fr.dirty
  <2>1. n \in Nat
    BY PoolAssumption
  <2> QED BY <2>1, RecordChanged
<1>7. frames' = [frames EXCEPT ![pageTable[k]] = g] /\ holds' = [holds EXCEPT ![k] = n]
  BY <1>2, <1>4, <1>5 DEF Unpin
<1>8. UNCHANGED <<pageTable, clockHand, files, trans, next, before, log, hist>>
  BY DEF Unpin
<1> HIDE DEF g
<1> QED BY <1>1, <1>3, <1>4, <1>5, <1>6, <1>7, <1>8, PinStep

\* Taking a frame from its page: it is the page's only one, and nobody holds it.
LEMMA Evicted ==
  ASSUME IInv, Rounds # {}, Listed(Nth(StopAt))
  PROVE  LET v == Nth(StopAt) IN
         /\ v \in FrameId /\ frames[v].pin = 0
         /\ Written({v}) \in [Key -> Image]
         /\ Forget(v) \in [Key -> FrameId \cup {Absent}]
         /\ \A j \in Key : j = frames[v].key =>
              /\ Cached(j) /\ pageTable[j] = v /\ before[j] = None /\ FrameOf(j) = frames[v]
              /\ Written({v})[j] \in {disk[j], FrameOf(j).bin} /\ Forget(v)[j] = Absent
              /\ state[j[1]] = "open" => holds[j] = 0
         /\ \A j \in Key : j # frames[v].key =>
              /\ Written({v})[j] = disk[j] /\ Forget(v)[j] = pageTable[j]
              /\ Cached(j) => pageTable[j] \in FrameId /\ pageTable[j] # v
<1> DEFINE v == Nth(StopAt)
<1>1. TypeOK /\ (\A f \in FrameId : FrameOK(f)) /\ v \in FrameId /\ frames[v].pin = 0
  BY VictimIs DEF IInv
<1> HIDE DEF v
<1>2. Written({v}) \in [Key -> Image]
  BY <1>1, WrittenType
<1>3. Forget(v) \in [Key -> FrameId \cup {Absent}]
  BY <1>1 DEF Forget, TypeOK
<1>4. ASSUME NEW j \in Key, j = frames[v].key
      PROVE  /\ Cached(j) /\ pageTable[j] = v /\ before[j] = None /\ FrameOf(j) = frames[v]
             /\ Written({v})[j] \in {disk[j], FrameOf(j).bin} /\ Forget(v)[j] = Absent
             /\ state[j[1]] = "open" => holds[j] = 0
  <2>1. j # None
    BY NoneAssumption
  <2>2. Cached(j)
    BY <1>4, <2>1 DEF Listed, v
  <2>3. pageTable[j] = v /\ FrameOf(j) = frames[v]
    BY <1>1, <1>4, <2>1, <2>2 DEF FrameOK, FrameOf
  <2>4. KeyOK(j) /\ holds[j] = 0
    BY <1>1, <2>2, <2>3 DEF IInv, KeyOK
  <2>5. before[j] = None
    BY <2>4 DEF KeyOK
  <2>6. Written({v})[j] \in {disk[j], FrameOf(j).bin}
    BY <1>1, WrittenIs
  <2> QED BY <1>4, <2>2, <2>3, <2>4, <2>5, <2>6 DEF Forget
<1>5. ASSUME NEW j \in Key, j # frames[v].key
      PROVE  /\ Written({v})[j] = disk[j] /\ Forget(v)[j] = pageTable[j]
             /\ Cached(j) => pageTable[j] \in FrameId /\ pageTable[j] # v
  <2>1. Cached(j) => pageTable[j] \in FrameId /\ pageTable[j] # v
    BY <1>1, <1>5, TableType DEF IInv, KeyOK
  <2>2. Written({v})[j] = disk[j]
    BY <1>1, <2>1, WrittenIs
  <2> QED BY <1>5, <2>1, <2>2 DEF Forget
<1> QED BY <1>1, <1>2, <1>3, <1>4, <1>5 DEF v

\* The hand moves on to another frame.
LEMMA HandMoves ==
  ASSUME TypeOK, NEW v \in FrameId, SweptTo(v) PROVE clockHand' \in FrameId
<1>1. MaxFrames \in Nat \ {0} /\ v \in 0..(MaxFrames - 1)
  BY PoolAssumption DEF FrameId
<1>2. (v + 1) % MaxFrames \in 0..(MaxFrames - 1)
  BY <1>1
<1> QED BY <1>2 DEF SweptTo, FrameId

LEMMA StepFetchMiss ==
  ASSUME IInv, NEW k \in Key, FetchMiss(k) PROVE IInv'
<1> DEFINE v == Nth(StopAt)
           d == Written({v})
           s == Swept(StopAt)
           new == [key |-> k, bin |-> d[k], orig |-> d[k], pin |-> 1, dirty |-> FALSE, ref |-> TRUE]
           old == frames[v].key
<1>1. TypeOK /\ LogOK /\ (\A f \in FrameId : FrameOK(f)) /\ KeyOK(k)
  BY DEF IInv
<1>2. /\ Rounds # {} /\ Listed(v) /\ ~ Cached(k) /\ MayFetch /\ InFile(k)
      /\ disk' = d /\ frames' = [s EXCEPT ![v] = new] /\ pageTable' = [Forget(v) EXCEPT ![k] = v]
      /\ SweptTo(v) /\ holds' = [holds EXCEPT ![k] = @ + 1]
      /\ UNCHANGED <<state, size, txn, rolling, pos, next, before, log, owed, tainted>>
  BY DEF FetchMiss, Misses, trans, hist
<1>3. /\ v \in FrameId /\ frames[v].pin = 0
      /\ d \in [Key -> Image] /\ Forget(v) \in [Key -> FrameId \cup {Absent}]
  BY <1>2, Evicted
<1>4. \A j \in Key : j = old =>
        /\ Cached(j) /\ pageTable[j] = v /\ before[j] = None /\ FrameOf(j) = frames[v]
        /\ d[j] \in {disk[j], FrameOf(j).bin} /\ Forget(v)[j] = Absent
        /\ state[j[1]] = "open" => holds[j] = 0
  BY <1>2, Evicted
<1>5. \A j \in Key : j # old =>
        /\ d[j] = disk[j] /\ Forget(v)[j] = pageTable[j]
        /\ Cached(j) => pageTable[j] \in FrameId /\ pageTable[j] # v
  BY <1>2, Evicted
<1>6. /\ s \in [FrameId -> FrameRecord]
      /\ \A f \in FrameId : f # v =>
           /\ s[f].key = frames[f].key /\ s[f].bin = frames[f].bin /\ s[f].pin = frames[f].pin
           /\ s[f].dirty = frames[f].dirty /\ s[f].orig = frames[f].orig
  BY <1>1, <1>2, VictimIs, SweptIs
<1>7. new \in FrameRecord
  BY <1>3 DEF FrameRecord
<1>8. /\ new.key = k /\ new.bin = d[k] /\ new.orig = d[k] /\ new.pin = 1 /\ ~ new.dirty
  OBVIOUS
<1> HIDE DEF v, d, s, new
<1>9. k # old
  BY <1>2, <1>4
<1>10. /\ frames' \in [FrameId -> FrameRecord] /\ frames'[v] = new
       /\ \A f \in FrameId : f # v => frames'[f] = s[f]
  BY <1>2, <1>3, <1>6, <1>7
<1>11. /\ pageTable' \in [Key -> FrameId \cup {Absent}] /\ pageTable'[k] = v
       /\ \A j \in Key : j # k => pageTable'[j] = Forget(v)[j]
  BY <1>2, <1>3
<1>12. v # Absent /\ v \in Nat
  BY <1>3 DEF FrameId, Absent
<1>13. holds[k] = 0 /\ before[k] = None
  BY <1>1, <1>2 DEF KeyOK, InFile
<1>14. holds' \in [Key -> 0..MaxPins] /\ holds'[k] = 1 /\ \A j \in Key : j # k => holds'[j] = holds[j]
  BY <1>1, <1>2, <1>13, PoolAssumption DEF TypeOK
<1>15. Grown /\ LogOK'
  BY <1>1, <1>2, SameGrown, LogStays DEF LogOK
<1>16. TypeOK'
  <2>1. ASSUME NEW f \in FrameId PROVE frames'[f].dirty \/ frames'[f].pin > 0 => frames'[f].key # None
    <3>1. CASE f = v
      BY <1>8, <1>10, <3>1, NoneAssumption
    <3>2. CASE f # v
      BY <1>1, <1>6, <1>10, <3>2, FrameType
    <3> QED BY <3>1, <3>2
  <2>2. clockHand' \in FrameId
    BY <1>1, <1>2, <1>3, HandMoves
  <2> QED BY <1>1, <1>2, <1>3, <1>10, <1>11, <1>14, <2>1, <2>2 DEF TypeOK
<1>17. ASSUME NEW f \in FrameId PROVE FrameOK(f)'
  <2>1. CASE f = v
    BY <1>8, <1>10, <1>11, <2>1 DEF FrameOK
  <2>2. CASE f # v /\ frames[f].key # None
    <3>1. frames[f].key \in Key /\ FrameOK(f) /\ f # Absent
      BY <1>1, <2>2, FrameType DEF FrameId, Absent
    <3>2. /\ frames'[f].key = frames[f].key /\ frames'[f].dirty = frames[f].dirty
          /\ frames'[f].pin = frames[f].pin
      BY <1>6, <1>10, <2>2
    <3>3. CASE pageTable[frames[f].key] = f
      <4>1. frames[f].key # k /\ frames[f].key # old
        BY <1>2, <1>4, <2>2, <3>1, <3>3 DEF Cached
      <4>2. pageTable'[frames[f].key] = f
        BY <1>5, <1>11, <3>1, <3>3, <4>1
      <4> QED BY <3>2, <4>2 DEF FrameOK
    <3>4. CASE /\ ~ Cached(frames[f].key) /\ state[frames[f].key[1]] = "closed"
               /\ ~ frames[f].dirty /\ frames[f].pin = 0
      <4>1. frames[f].key # k /\ frames[f].key # old
        BY <1>2, <1>4, <3>1, <3>4 DEF InFile
      <4>2. pageTable'[frames[f].key] = Absent
        BY <1>5, <1>11, <3>1, <3>4, <4>1 DEF Cached
      <4> QED BY <1>2, <3>2, <3>4, <4>2 DEF FrameOK, Cached
    <3> QED BY <2>2, <3>1, <3>3, <3>4 DEF FrameOK
  <2>3. CASE f # v /\ frames[f].key = None
    BY <1>6, <1>10, <2>3 DEF FrameOK
  <2> QED BY <2>1, <2>2, <2>3
<1>18. ASSUME NEW j \in Key, j # k PROVE KeyOK(j)'
  <2>1. KeyOK(j) /\ holds'[j] = holds[j] /\ pageTable'[j] = Forget(v)[j] /\ disk'[j] = d[j]
    BY <1>2, <1>11, <1>14, <1>18 DEF IInv
  <2>2. CASE j = old
    <3>1. pageTable'[j] = Absent /\ before[j] = None /\ (state'[j[1]] = "open" => holds'[j] = 0)
      BY <1>2, <1>4, <2>1, <2>2
    <3>2. disk'[j] \in {disk[j], 0} \/ (Cached(j) /\ disk'[j] = FrameOf(j).bin)
      BY <1>4, <2>1, <2>2
    <3> QED BY <1>1, <1>2, <1>15, <2>1, <3>1, <3>2, KeyGone
  <2>3. CASE j # old
    <3>1. pageTable'[j] = pageTable[j] /\ disk'[j] = disk[j]
      BY <1>5, <2>1, <2>3
    <3>2. Cached(j) => LET g == pageTable[j] IN
            /\ FrameOf(j) = frames[g] /\ frames'[g].key = frames[g].key
            /\ frames'[g].pin = frames[g].pin /\ frames'[g].bin = frames[g].bin
            /\ frames'[g].orig = frames[g].orig
      BY <1>5, <1>6, <1>10, <2>3 DEF FrameOf
    <3> QED BY <1>1, <1>2, <1>15, <2>1, <3>1, <3>2, KeyKept
  <2> QED BY <2>2, <2>3
<1>19. KeyOK(k)'
  <2>1. /\ FrameOf(k)' = new /\ Cached(k)' /\ Earlier' = Earlier /\ disk'[k] = disk[k]
        /\ new.bin = disk[k] /\ new.orig = disk[k]
    BY <1>2, <1>5, <1>8, <1>9, <1>10, <1>11, <1>12 DEF FrameOf, Cached, Earlier
  <2> QED BY <1>1, <1>2, <1>8, <1>13, <1>14, <2>1 DEF KeyOK, Logged, LoggedIn, InFile
<1> QED BY <1>15, <1>16, <1>17, <1>18, <1>19 DEF IInv

\* read_page raises: the frame has another page's name, but the table does not
\* know it, and that page's file is closed.
LEMMA StepFetchRaises ==
  ASSUME IInv, NEW k \in Key, FetchRaises(k) PROVE IInv'
<1> DEFINE v == Nth(StopAt)
           d == Written({v})
           s == Swept(StopAt)
           old == frames[v].key
<1>1. TypeOK /\ LogOK /\ (\A f \in FrameId : FrameOK(f)) /\ KeyOK(k)
  BY DEF IInv
<1>2. /\ Rounds # {} /\ Listed(v) /\ ~ Cached(k) /\ state[k[1]] = "closed"
      /\ disk' = d /\ frames' = [s EXCEPT ![v].key = k] /\ pageTable' = Forget(v)
      /\ SweptTo(v)
      /\ UNCHANGED <<state, size, txn, rolling, pos, next, holds, before, log, owed, tainted>>
  BY DEF FetchRaises, Misses, trans, hist
<1>3. /\ v \in FrameId /\ frames[v].pin = 0
      /\ d \in [Key -> Image] /\ Forget(v) \in [Key -> FrameId \cup {Absent}]
  BY <1>2, Evicted
<1>4. \A j \in Key : j = old =>
        /\ Cached(j) /\ pageTable[j] = v /\ before[j] = None /\ FrameOf(j) = frames[v]
        /\ d[j] \in {disk[j], FrameOf(j).bin} /\ Forget(v)[j] = Absent
        /\ state[j[1]] = "open" => holds[j] = 0
  BY <1>2, Evicted
<1>5. \A j \in Key : j # old =>
        /\ d[j] = disk[j] /\ Forget(v)[j] = pageTable[j]
        /\ Cached(j) => pageTable[j] \in FrameId /\ pageTable[j] # v
  BY <1>2, Evicted
<1>6. /\ s \in [FrameId -> FrameRecord]
      /\ s[v].pin = frames[v].pin /\ s[v].dirty = FALSE
      /\ \A f \in FrameId : f # v =>
           /\ s[f].key = frames[f].key /\ s[f].bin = frames[f].bin /\ s[f].pin = frames[f].pin
           /\ s[f].dirty = frames[f].dirty /\ s[f].orig = frames[f].orig
  BY <1>1, <1>2, <1>3, VictimIs, SweptIs
<1> HIDE DEF v, d, s
<1>9. k # old
  BY <1>2, <1>4
<1>10. /\ frames' \in [FrameId -> FrameRecord]
       /\ frames'[v].key = k /\ frames'[v].pin = 0 /\ ~ frames'[v].dirty
       /\ \A f \in FrameId : f # v => frames'[f] = s[f]
  <2>1. [s[v] EXCEPT !.key = k] \in FrameRecord
    BY <1>3, <1>6 DEF FrameRecord
  <2>2. frames' = [s EXCEPT ![v] = [s[v] EXCEPT !.key = k]]
    BY <1>2
  <2>3. frames'[v] = [s[v] EXCEPT !.key = k] /\ s[v] \in FrameRecord
    BY <1>3, <1>6, <2>2
  <2>4. frames'[v].key = k /\ frames'[v].pin = s[v].pin /\ frames'[v].dirty = s[v].dirty
    BY <2>3 DEF FrameRecord
  <2> QED BY <1>3, <1>6, <2>1, <2>2, <2>4
<1>12. v # Absent /\ v \in Nat
  BY <1>3 DEF FrameId, Absent
<1>15. Grown /\ LogOK'
  BY <1>1, <1>2, SameGrown, LogStays DEF LogOK
<1>16. TypeOK'
  <2>1. ASSUME NEW f \in FrameId PROVE frames'[f].dirty \/ frames'[f].pin > 0 => frames'[f].key # None
    <3>1. CASE f = v
      BY <1>10, <3>1
    <3>2. CASE f # v
      BY <1>1, <1>6, <1>10, <3>2, FrameType
    <3> QED BY <3>1, <3>2
  <2>2. clockHand' \in FrameId
    BY <1>1, <1>2, <1>3, HandMoves
  <2> QED BY <1>1, <1>2, <1>3, <1>10, <2>1, <2>2 DEF TypeOK
<1>17. ASSUME NEW f \in FrameId PROVE FrameOK(f)'
  <2>1. CASE f = v
    <3>1. pageTable'[k] = Absent
      BY <1>2, <1>5, <1>9 DEF Cached
    <3> QED BY <1>2, <1>10, <2>1, <3>1 DEF FrameOK, Cached
  <2>2. CASE f # v /\ frames[f].key # None
    <3>1. frames[f].key \in Key /\ FrameOK(f) /\ f # Absent
      BY <1>1, <2>2, FrameType DEF FrameId, Absent
    <3>2. /\ frames'[f].key = frames[f].key /\ frames'[f].dirty = frames[f].dirty
          /\ frames'[f].pin = frames[f].pin
      BY <1>6, <1>10, <2>2
    <3>3. CASE pageTable[frames[f].key] = f
      <4>1. frames[f].key # old
        BY <1>4, <2>2, <3>1, <3>3
      <4>2. pageTable'[frames[f].key] = f
        BY <1>2, <1>5, <3>1, <3>3, <4>1
      <4> QED BY <3>2, <4>2 DEF FrameOK
    <3>4. CASE /\ ~ Cached(frames[f].key) /\ state[frames[f].key[1]] = "closed"
               /\ ~ frames[f].dirty /\ frames[f].pin = 0
      <4>1. frames[f].key # old
        BY <1>4, <3>1, <3>4
      <4>2. pageTable'[frames[f].key] = Absent
        BY <1>2, <1>5, <3>1, <3>4, <4>1 DEF Cached
      <4> QED BY <1>2, <3>2, <3>4, <4>2 DEF FrameOK, Cached
    <3> QED BY <2>2, <3>1, <3>3, <3>4 DEF FrameOK
  <2>3. CASE f # v /\ frames[f].key = None
    BY <1>6, <1>10, <2>3 DEF FrameOK
  <2> QED BY <2>1, <2>2, <2>3
<1>18. ASSUME NEW j \in Key PROVE KeyOK(j)'
  <2>1. KeyOK(j) /\ holds'[j] = holds[j] /\ pageTable'[j] = Forget(v)[j] /\ disk'[j] = d[j]
    BY <1>2 DEF IInv
  <2>2. CASE j = old
    <3>1. pageTable'[j] = Absent /\ before[j] = None /\ (state'[j[1]] = "open" => holds'[j] = 0)
      BY <1>2, <1>4, <2>1, <2>2
    <3>2. disk'[j] \in {disk[j], 0} \/ (Cached(j) /\ disk'[j] = FrameOf(j).bin)
      BY <1>4, <2>1, <2>2
    <3> QED BY <1>1, <1>2, <1>15, <2>1, <3>1, <3>2, KeyGone
  <2>3. CASE j # old
    <3>1. pageTable'[j] = pageTable[j] /\ disk'[j] = disk[j]
      BY <1>5, <2>1, <2>3
    <3>2. Cached(j) => LET g == pageTable[j] IN
            /\ FrameOf(j) = frames[g] /\ frames'[g].key = frames[g].key
            /\ frames'[g].pin = frames[g].pin /\ frames'[g].bin = frames[g].bin
            /\ frames'[g].orig = frames[g].orig
      BY <1>5, <1>6, <1>10, <2>3 DEF FrameOf
    <3> QED BY <1>1, <1>2, <1>15, <2>1, <3>1, <3>2, KeyKept
  <2> QED BY <2>2, <2>3
<1> QED BY <1>15, <1>16, <1>17, <1>18 DEF IInv

\* The victim is a frame whose page the table does not know: nothing is lost.
LEMMA StepFetchKeyError ==
  ASSUME IInv, NEW k \in Key, FetchKeyError(k) PROVE IInv'
<1> DEFINE v == Nth(StopAt)
           s == Swept(StopAt)
<1>1. TypeOK /\ LogOK /\ \A f \in FrameId : FrameOK(f)
  BY DEF IInv
<1>2. /\ Rounds # {} /\ ~ Listed(v) /\ disk' = Written({v}) /\ frames' = s /\ SweptTo(v)
      /\ UNCHANGED <<pageTable, state, size, txn, rolling, pos, next, holds, before, log, owed, tainted>>
  BY DEF FetchKeyError, Misses, trans, hist
<1>3. /\ v \in FrameId /\ frames[v].pin = 0 /\ FrameOK(v)
      /\ frames[v].key # None /\ ~ Cached(frames[v].key)
  BY <1>1, <1>2, VictimIs DEF Listed
<1>4. ~ frames[v].dirty
  BY <1>1, <1>3, DirtyListed
<1>5. /\ s \in [FrameId -> FrameRecord]
      /\ \A f \in FrameId :
           /\ s[f].key = frames[f].key /\ s[f].bin = frames[f].bin /\ s[f].pin = frames[f].pin
           /\ s[f].orig = frames[f].orig
           /\ s[f].dirty => frames[f].dirty
  BY <1>1, <1>2, <1>4, VictimIs, SweptIs
<1> HIDE DEF v, s
<1>6. \A j \in Key : Written({v})[j] = disk[j]
  BY <1>1, <1>3, <1>4, WrittenIs, TableType
<1>7. Grown /\ LogOK'
  BY <1>1, <1>2, SameGrown, LogStays DEF LogOK
<1>8. Written({v}) \in [Key -> Image] /\ clockHand' \in FrameId
  BY <1>1, <1>2, <1>3, WrittenType, HandMoves
<1>9. TypeOK'
  <2>1. ASSUME NEW f \in FrameId PROVE frames'[f].dirty \/ frames'[f].pin > 0 => frames'[f].key # None
    BY <1>1, <1>2, <1>5, FrameType
  <2> QED BY <1>1, <1>2, <1>5, <1>8, <2>1 DEF TypeOK
<1>10. \A f \in FrameId : FrameOK(f)'
  <2>1. ASSUME NEW f \in FrameId, frames[f].key # None, pageTable[frames[f].key] # f
        PROVE  ~ frames'[f].dirty /\ frames'[f].pin = 0
    BY <1>1, <1>2, <1>5, <2>1 DEF FrameOK
  <2> QED BY <1>1, <1>2, <1>5, <2>1, FramesStay
<1>11. ASSUME NEW j \in Key PROVE KeyOK(j)'
  <2>1. KeyOK(j) /\ disk'[j] = disk[j] /\ (Cached(j) => pageTable[j] \in FrameId /\ FrameOf(j) = frames[pageTable[j]])
    BY <1>1, <1>2, <1>6, TableType DEF IInv
  <2> QED BY <1>1, <1>2, <1>5, <1>7, <2>1, KeyKept
<1> QED BY <1>7, <1>9, <1>10, <1>11 DEF IInv

\* The frame of a page changes, and neither its page nor its pins do.
LEMMA FrameTouched ==
  ASSUME IInv, NEW k \in Key, Cached(k), NEW fr \in FrameRecord,
         fr.key = FrameOf(k).key, fr.pin = FrameOf(k).pin,
         frames' = [frames EXCEPT ![pageTable[k]] = fr], pageTable' = pageTable, state' = state
  PROVE  /\ frames' \in [FrameId -> FrameRecord]
         /\ \A f \in FrameId : frames'[f].dirty \/ frames'[f].pin > 0 => frames'[f].key # None
         /\ \A f \in FrameId : FrameOK(f)'
         /\ frames'[pageTable[k]] = fr
         /\ \A j \in Key : j # k /\ Cached(j) => frames'[pageTable[j]] = FrameOf(j)
<1>1. TypeOK /\ (\A f \in FrameId : FrameOK(f)) /\ KeyOK(k)
  BY DEF IInv
<1>2. pageTable[k] \in FrameId /\ FrameOf(k) = frames[pageTable[k]] /\ FrameOf(k).key = k
  BY <1>1, TableType DEF KeyOK
<1>3. /\ frames' \in [FrameId -> FrameRecord]
      /\ frames'[pageTable[k]] = fr /\ \A f \in FrameId : f # pageTable[k] => frames'[f] = frames[f]
  BY <1>1, <1>2, FrameChanged DEF TypeOK
<1>4. ASSUME NEW f \in FrameId
      PROVE  frames'[f].dirty \/ frames'[f].pin > 0 => frames'[f].key # None
  BY <1>1, <1>2, <1>3, FrameType, NoneAssumption
<1>5. \A f \in FrameId : FrameOK(f)'
  <2>1. ASSUME NEW f \in FrameId, frames[f].key # None, pageTable[frames[f].key] # f
        PROVE  ~ frames'[f].dirty /\ frames'[f].pin = 0
    <3>1. ~ frames[f].dirty /\ frames[f].pin = 0 /\ f # pageTable[k]
      BY <1>1, <1>2, <2>1 DEF FrameOK
    <3> QED BY <1>3, <3>1
  <2>2. \A f \in FrameId : frames'[f].key = frames[f].key
    BY <1>2, <1>3
  <2> QED BY <1>1, <2>1, <2>2, FramesStay
<1>6. ASSUME NEW j \in Key, j # k, Cached(j) PROVE frames'[pageTable[j]] = FrameOf(j)
  <2>1. KeyOK(j)
    BY DEF IInv
  <2>2. pageTable[j] \in FrameId /\ FrameOf(j) = frames[pageTable[j]] /\ pageTable[j] # pageTable[k]
    BY <1>1, <1>2, <1>6, <2>1, TableType DEF KeyOK
  <2> QED BY <1>3, <2>2
<1> QED BY <1>3, <1>4, <1>5, <1>6

LEMMA EarlierImages == ASSUME TypeOK PROVE Earlier \subseteq Image /\ next \in Nat
<1>1. next \in Nat /\ next - 1 <= MaxChanges /\ MaxChanges \in Nat
  BY PoolAssumption DEF TypeOK
<1> QED BY <1>1 DEF Earlier, Image

LEMMA RecordWritten ==
  ASSUME NEW g \in FrameRecord, NEW b \in Image
  PROVE  \E fr \in FrameRecord : /\ fr = [g EXCEPT !.bin = b]
                                /\ fr.bin = b /\ fr.key = g.key /\ fr.pin = g.pin
                                /\ fr.orig = g.orig /\ fr.dirty = g.dirty
<1> DEFINE n == [g EXCEPT !.bin = b]
<1>1. /\ n \in FrameRecord /\ n.bin = b /\ n.key = g.key /\ n.pin = g.pin
      /\ n.orig = g.orig /\ n.dirty = g.dirty
  BY DEF FrameRecord
<1>2. n = [g EXCEPT !.bin = b]
  OBVIOUS
<1> HIDE DEF n
<1> QED BY <1>1, <1>2

LEMMA RecordMarked ==
  ASSUME NEW g \in FrameRecord, NEW o \in Image
  PROVE  \E fr \in FrameRecord : /\ fr = [g EXCEPT !.dirty = TRUE, !.orig = o]
                                /\ fr.bin = g.bin /\ fr.key = g.key /\ fr.pin = g.pin
                                /\ fr.orig = o /\ fr.dirty = TRUE
<1> DEFINE n == [g EXCEPT !.dirty = TRUE, !.orig = o]
<1>1. /\ n \in FrameRecord /\ n.bin = g.bin /\ n.key = g.key /\ n.pin = g.pin
      /\ n.orig = o /\ n.dirty = TRUE
  BY DEF FrameRecord
<1>2. n = [g EXCEPT !.dirty = TRUE, !.orig = o]
  OBVIOUS
<1> HIDE DEF n
<1> QED BY <1>1, <1>2

LEMMA StepChange ==
  ASSUME IInv, NEW k \in Key, Change(k) PROVE IInv'
<1>1. TypeOK /\ LogOK /\ KeyOK(k)
  BY DEF IInv
<1>2. /\ holds[k] > 0 /\ Cached(k) /\ next <= MaxChanges /\ tainted = {}
      /\ frames' = [frames EXCEPT ![pageTable[k]].bin = next] /\ next' = next + 1
      /\ before' = [before EXCEPT ![k] = IF @ = None THEN FrameOf(k).bin ELSE @]
      /\ owed' = IF txn # 0 THEN owed \cup {next} ELSE owed
      /\ UNCHANGED <<pageTable, clockHand, state, size, disk, txn, rolling, pos, holds, log, tainted>>
  BY DEF Change, files, trans
<1>3. pageTable[k] \in FrameId /\ FrameOf(k) = frames[pageTable[k]] /\ FrameOf(k) \in FrameRecord
  BY <1>1, <1>2, TableType, FrameType
<1>4. next \in 1..MaxChanges /\ next \in Image /\ next' \in 1..(MaxChanges + 1) /\ next \in Nat
  BY <1>1, <1>2, PoolAssumption DEF TypeOK, Image
<1>5. PICK fr \in FrameRecord : /\ fr = [FrameOf(k) EXCEPT !.bin = next]
                                /\ fr.bin = next /\ fr.key = FrameOf(k).key
                                /\ fr.pin = FrameOf(k).pin /\ fr.orig = FrameOf(k).orig
  BY <1>3, <1>4, RecordWritten
<1>6. frames' = [frames EXCEPT ![pageTable[k]] = fr]
  BY <1>2, <1>3, <1>5
<1>7. /\ frames' \in [FrameId -> FrameRecord]
      /\ \A f \in FrameId : frames'[f].dirty \/ frames'[f].pin > 0 => frames'[f].key # None
      /\ \A f \in FrameId : FrameOK(f)'
      /\ frames'[pageTable[k]] = fr
      /\ \A j \in Key : j # k /\ Cached(j) => frames'[pageTable[j]] = FrameOf(j)
  BY <1>2, <1>5, <1>6, FrameTouched
<1>8. next \notin Earlier /\ Earlier \subseteq Image /\ Earlier' = 0..next
  BY <1>1, <1>2, <1>4, EarlierImages DEF Earlier
<1>9. Grown
  <2>1. owed' \cap Earlier \subseteq owed /\ 0 \notin owed'
    BY <1>1, <1>2, <1>4, <1>8 DEF LogOK
  <2> QED BY <1>2, <1>4, <2>1 DEF Grown
<1>10. LogOK'
  <2>1. ASSUME NEW i \in DOMAIN log
        PROVE  log[i].before \in Earlier' /\ LoggedIn(owed', log', log[i].key, log[i].before)
    BY <1>1, <1>2, <1>9, EarlierStays, LoggedStays DEF LogOK
  <2>2. owed' \subseteq 1..(next' - 1)
    BY <1>1, <1>2, <1>4 DEF LogOK
  <2> QED BY <1>1, <1>2, <2>1, <2>2 DEF LogOK, Logged
<1>11. before'[k] = (IF before[k] = None THEN FrameOf(k).bin ELSE before[k])
       /\ \A j \in Key : j # k => before'[j] = before[j]
  BY <1>1, <1>2 DEF TypeOK
<1>12. TypeOK'
  <2>1. FrameOf(k).bin \in Image
    BY <1>1, <1>2, <1>8 DEF KeyOK
  <2>2. before' \in [Key -> Image \cup {None}]
    BY <1>1, <1>2, <2>1 DEF TypeOK
  <2>3. owed' \subseteq Image
    BY <1>1, <1>2, <1>4 DEF TypeOK
  <2> QED BY <1>1, <1>2, <1>4, <1>7, <2>2, <2>3 DEF TypeOK
<1>13. ASSUME NEW j \in Key, j # k PROVE KeyOK(j)'
  BY <1>1, <1>2, <1>7, <1>9, <1>11, <1>13, KeyKept DEF IInv
<1>14. KeyOK(k)'
  <2>1. FrameOf(k)' = fr /\ Cached(k)'
    BY <1>2, <1>7 DEF FrameOf, Cached
  <2>2. FrameOf(k).bin \in 0..(next - 1) /\ FrameOf(k).orig \in 0..(next - 1) /\ fr.key = k
        /\ (before[k] # None => before[k] \in 0..(next - 1)) /\ disk[k] \in Earlier
        /\ fr.pin = holds[k] /\ state[k[1]] = "open"
    BY <1>1, <1>2, <1>5 DEF KeyOK, Earlier
  <2>3. before'[k] \in 0..(next - 1) /\ before'[k] < next
    BY <1>4, <1>11, <2>2
  <2>4. next \in owed' => txn # 0
    BY <1>1, <1>2, <1>4 DEF LogOK
  <2>5. fr.orig = before'[k]
    BY <1>1, <1>2, <1>5, <1>11 DEF KeyOK
  <2>6. LoggedIn(owed', log', k, disk[k]) /\ LoggedIn(owed', log', k, fr.orig)
    BY <1>1, <1>2, <1>5, <1>9, LoggedStays DEF KeyOK
  <2>7. before'[k] # None
    BY <1>8, <2>3, NoneAssumption DEF Earlier
  <2>8. before'[k] \in Earlier' /\ fr.bin \in Earlier' /\ fr.orig \in Earlier' /\ disk'[k] \in Earlier'
    BY <1>2, <1>4, <1>5, <1>8, <2>2, <2>3 DEF Earlier
  <2> QED BY <1>2, <1>5, <2>1, <2>2, <2>3, <2>4, <2>5, <2>6, <2>7, <2>8 DEF KeyOK, Logged
<1> QED BY <1>7, <1>10, <1>12, <1>13, <1>14 DEF IInv

LEMMA StepMarkDirty ==
  ASSUME IInv, NEW k \in Key, MarkDirty(k) PROVE IInv'
<1>1. TypeOK /\ LogOK /\ KeyOK(k)
  BY DEF IInv
<1>2. /\ before[k] # None /\ Cached(k) /\ before' = [before EXCEPT ![k] = None]
      /\ log' = IF Logs(k) THEN Append(log, PageRecord(k)) ELSE log
      /\ UNCHANGED <<pageTable, clockHand, state, size, disk, txn, rolling, pos, next, holds, owed, tainted>>
  BY DEF MarkDirty, files, trans, hist
<1>3. /\ pageTable[k] \in FrameId /\ FrameOf(k) = frames[pageTable[k]] /\ FrameOf(k) \in FrameRecord
      /\ FrameOf(k).bin \in Earlier /\ FrameOf(k).orig \in Earlier
      /\ FrameOf(k).bin \in Image /\ FrameOf(k).orig \in Image
  BY <1>1, <1>2, TableType, FrameType, EarlierImages DEF KeyOK
<1>a. PICK o \in Image : o = IF txn = 0 \/ Logs(k) THEN FrameOf(k).bin ELSE FrameOf(k).orig
  BY <1>3
<1>4. PICK fr \in FrameRecord : /\ fr = [FrameOf(k) EXCEPT !.dirty = TRUE, !.orig = o]
                                /\ fr.bin = FrameOf(k).bin /\ fr.key = FrameOf(k).key
                                /\ fr.pin = FrameOf(k).pin /\ fr.orig = o
  <2>1. PICK g \in FrameRecord : g = FrameOf(k)
    BY <1>3
  <2>2. PICK fr \in FrameRecord : /\ fr = [g EXCEPT !.dirty = TRUE, !.orig = o]
                                  /\ fr.bin = g.bin /\ fr.key = g.key /\ fr.pin = g.pin
                                  /\ fr.orig = o
    BY RecordMarked
  <2> QED BY <2>1, <2>2
<1>5. frames' = [frames EXCEPT ![pageTable[k]] = fr]
  BY <1>3, <1>a, <1>4 DEF MarkDirty
<1>6. /\ frames' \in [FrameId -> FrameRecord]
      /\ \A f \in FrameId : frames'[f].dirty \/ frames'[f].pin > 0 => frames'[f].key # None
      /\ \A f \in FrameId : FrameOK(f)'
      /\ frames'[pageTable[k]] = fr
      /\ \A j \in Key : j # k /\ Cached(j) => frames'[pageTable[j]] = FrameOf(j)
  BY <1>2, <1>4, <1>5, FrameTouched
<1>7. /\ log' \in Seq(LogRecord) /\ \A i \in DOMAIN log : i \in DOMAIN log' /\ log'[i] = log[i]
      /\ pos \in 0..Len(log')
      /\ \A i \in DOMAIN log' : i \notin DOMAIN log => log'[i] = PageRecord(k)
      /\ Logs(k) => \E i \in DOMAIN log' : log'[i] = PageRecord(k)
  <2>1. log \in Seq(LogRecord) /\ Len(log) \in Nat /\ DOMAIN log = 1..Len(log) /\ pos \in 0..Len(log)
    BY <1>1, LenProperties DEF TypeOK
  <2>2. CASE Logs(k)
    <3>1. PageRecord(k) \in LogRecord
      <4>1. txn \in 1..MaxTxn
        BY <1>1, <2>2, PoolAssumption DEF TypeOK, Logs
      <4> QED BY <1>3, <4>1 DEF PageRecord, LogRecord
    <3> HIDE DEF PageRecord
    <3>2. log' = Append(log, PageRecord(k))
      BY <1>2, <2>2
    <3>3. /\ log' \in Seq(LogRecord) /\ DOMAIN log' = 1..(Len(log) + 1) /\ Len(log') = Len(log) + 1
          /\ log'[Len(log) + 1] = PageRecord(k) /\ \A i \in 1..Len(log) : log'[i] = log[i]
      BY <2>1, <3>1, <3>2, AppendProperties, LenProperties
    <3>4. ASSUME NEW i \in DOMAIN log', i \notin DOMAIN log PROVE i = Len(log) + 1
      BY <2>1, <3>3, <3>4
    <3> QED BY <2>1, <3>3, <3>4
  <2>3. CASE ~ Logs(k)
    BY <1>2, <2>1, <2>3
  <2> QED BY <2>2, <2>3
<1>8. Grown
  <2>1. next \in Nat
    BY <1>1, EarlierImages
  <2> QED BY <1>1, <1>2, <1>7, <2>1 DEF Grown, LogOK
<1>9. Earlier' = Earlier
  BY <1>2 DEF Earlier
<1>10. LogOK'
  <2>1. ASSUME NEW i \in DOMAIN log'
        PROVE  /\ log'[i].before \in Earlier
               /\ log'[i].key \notin tainted => LoggedIn(owed', log', log'[i].key, log'[i].before)
    <3>1. CASE i \in DOMAIN log
      BY <1>1, <1>7, <1>8, <3>1, LoggedStays DEF LogOK
    <3>2. CASE i \notin DOMAIN log
      <4>1. log'[i].before = FrameOf(k).orig /\ log'[i].key = k
        BY <1>7, <3>2 DEF PageRecord
      <4> QED BY <1>1, <1>2, <1>3, <1>8, <4>1, LoggedStays DEF KeyOK
    <3> QED BY <3>1, <3>2
  <2> QED BY <1>1, <1>2, <1>9, <2>1 DEF LogOK, Logged
<1>11. before'[k] = None /\ \A j \in Key : j # k => before'[j] = before[j]
  BY <1>1, <1>2 DEF TypeOK
<1>12. TypeOK'
  <2>1. before' \in [Key -> Image \cup {None}]
    BY <1>1, <1>2 DEF TypeOK
  <2> QED BY <1>1, <1>2, <1>6, <1>7, <2>1 DEF TypeOK
<1>13. ASSUME NEW j \in Key, j # k PROVE KeyOK(j)'
  BY <1>1, <1>2, <1>6, <1>8, <1>11, <1>13, KeyKept DEF IInv
<1>14. KeyOK(k)'
  <2>1. FrameOf(k)' = fr /\ Cached(k)'
    BY <1>2, <1>6 DEF FrameOf, Cached
  <2>2. fr.orig \in Earlier
    BY <1>3, <1>a, <1>4
  <2>3. ASSUME k \notin tainted
        PROVE  fr.orig = fr.bin /\ LoggedIn(owed', log', k, fr.bin) /\ LoggedIn(owed', log', k, disk[k])
    <3>1. FrameOf(k).orig = before[k] /\ before[k] < FrameOf(k).bin /\ (FrameOf(k).bin \in owed => txn # 0)
      BY <1>1, <1>2, <2>3 DEF KeyOK
    <3>2. FrameOf(k).orig # FrameOf(k).bin
      BY <1>3, <3>1 DEF Earlier
    <3>3. fr.orig = fr.bin
      BY <1>a, <1>4, <3>2 DEF Logs
    <3>4. LoggedIn(owed', log', k, fr.bin)
      <4>1. SUFFICES ASSUME FrameOf(k).bin \in owed
                     PROVE  \E i \in DOMAIN log' : log'[i].key = k /\ log'[i].after = FrameOf(k).bin
        BY <1>2, <1>4 DEF LoggedIn
      <4>2. Logs(k)
        BY <3>1, <3>2, <4>1 DEF Logs
      <4>3. PICK i \in DOMAIN log' : log'[i] = PageRecord(k)
        BY <1>7, <4>2
      <4> QED BY <4>3 DEF PageRecord
    <3> QED BY <1>1, <1>8, <2>3, <3>3, <3>4, LoggedStays DEF KeyOK
  <2> QED BY <1>1, <1>2, <1>3, <1>4, <1>9, <1>11, <2>1, <2>2, <2>3 DEF KeyOK, Logged
<1> QED BY <1>6, <1>10, <1>12, <1>13, <1>14 DEF IInv

\* The logger raises: the page is set aside, and its transaction rolls back.
LEMMA StepMarkRaises ==
  ASSUME IInv, NEW k \in Key, MarkRaises(k) PROVE IInv'
<1>1. TypeOK /\ LogOK /\ KeyOK(k)
  BY DEF IInv
<1>2. /\ Changing = {k} /\ Cached(k) /\ Logs(k) /\ before' = [before EXCEPT ![k] = None]
      /\ tainted' = tainted \cup {k} /\ rolling' = txn /\ pos' = Preceding(txn, Len(log)) /\ txn' = 0
      /\ UNCHANGED <<pageTable, clockHand, state, size, disk, next, holds, log, owed>>
  BY DEF MarkRaises, RollsBack, files
<1>3. pageTable[k] \in FrameId /\ FrameOf(k) = frames[pageTable[k]] /\ FrameOf(k) \in FrameRecord
  BY <1>1, <1>2, TableType, FrameType
<1>4. PICK fr \in FrameRecord : /\ fr = [FrameOf(k) EXCEPT !.dirty = TRUE]
                                /\ fr.bin = FrameOf(k).bin /\ fr.key = FrameOf(k).key
                                /\ fr.pin = FrameOf(k).pin /\ fr.orig = FrameOf(k).orig
  <2>1. PICK g \in FrameRecord : g = FrameOf(k)
    BY <1>3
  <2> DEFINE n == [g EXCEPT !.dirty = TRUE]
  <2>2. n \in FrameRecord /\ n.bin = g.bin /\ n.key = g.key /\ n.pin = g.pin /\ n.orig = g.orig
    BY DEF FrameRecord
  <2>3. n = [FrameOf(k) EXCEPT !.dirty = TRUE]
    BY <2>1
  <2> HIDE DEF n
  <2> QED BY <2>1, <2>2, <2>3
<1>5. frames' = [frames EXCEPT ![pageTable[k]] = fr]
  BY <1>3, <1>4 DEF MarkRaises
<1>6. /\ frames' \in [FrameId -> FrameRecord]
      /\ \A f \in FrameId : frames'[f].dirty \/ frames'[f].pin > 0 => frames'[f].key # None
      /\ \A f \in FrameId : FrameOK(f)'
      /\ frames'[pageTable[k]] = fr
      /\ \A j \in Key : j # k /\ Cached(j) => frames'[pageTable[j]] = FrameOf(j)
  BY <1>2, <1>4, <1>5, FrameTouched
<1>7. Len(log) \in Nat /\ pos' \in 0..Len(log) /\ rolling' # 0
  <2>1. Len(log) \in Nat
    BY <1>1, LenProperties DEF TypeOK
  <2> QED BY <1>2, <2>1, PrecedingIs DEF Logs
<1>8. Grown /\ LogOK'
  BY <1>1, <1>2, <1>7, SameGrown, LogStays
<1>9. before'[k] = None /\ \A j \in Key : j # k => before'[j] = before[j] /\ before[j] = None
  BY <1>1, <1>2 DEF TypeOK, Changing
<1>10. TypeOK'
  <2>1. before' \in [Key -> Image \cup {None}] /\ txn' \in 0..MaxTxn
    BY <1>1, <1>2, PoolAssumption DEF TypeOK
  <2> QED BY <1>1, <1>2, <1>6, <1>7, <2>1 DEF TypeOK
<1>11. ASSUME NEW j \in Key, j # k PROVE KeyOK(j)'
  BY <1>1, <1>2, <1>6, <1>8, <1>9, <1>11, KeyKept DEF IInv
<1>12. KeyOK(k)'
  <2>1. FrameOf(k)' = fr /\ Cached(k)' /\ Earlier' = Earlier /\ k \in tainted'
    BY <1>2, <1>6 DEF FrameOf, Cached, Earlier
  <2> QED BY <1>1, <1>2, <1>4, <1>9, <2>1 DEF KeyOK
<1> QED BY <1>6, <1>8, <1>10, <1>11, <1>12 DEF IInv

\* Pages, frames and the log stay, and the provider's answer changes when no
\* change is half made.
LEMMA StepTransaction ==
  ASSUME IInv, \/ \E t \in 1..MaxTxn : Begin(t)
               \/ Commit \/ StartRollback \/ EndRollback
  PROVE  IInv'
<1>1. TypeOK /\ LogOK
  BY DEF IInv
<1>2. /\ Changing = {}
      /\ UNCHANGED <<frames, pageTable, clockHand, state, size, disk, next, holds, before, log, owed, tainted>>
  BY DEF Begin, Commit, StartRollback, EndRollback, pool, files, hist
<1>3. Len(log) \in Nat /\ pos \in 0..Len(log)
  BY <1>1, LenProperties DEF TypeOK
<1>4. /\ txn' \in 0..MaxTxn /\ rolling' \in 0..MaxTxn /\ pos' \in 0..Len(log)
      /\ rolling' = 0 => pos' = 0
  <2>1. CASE \E t \in 1..MaxTxn : Begin(t)
    BY <1>1, <1>3, <2>1, PoolAssumption DEF Begin, TypeOK, LogOK
  <2>2. CASE Commit
    BY <1>1, <1>3, <2>2, PoolAssumption DEF Commit, TypeOK, LogOK
  <2>3. CASE StartRollback
    BY <1>1, <1>3, <2>3, PrecedingIs, PoolAssumption DEF StartRollback, RollsBack, TypeOK
  <2>4. CASE EndRollback
    BY <1>1, <1>3, <2>4, PoolAssumption DEF EndRollback, TypeOK
  <2> QED BY <2>1, <2>2, <2>3, <2>4
<1>5. Grown /\ LogOK'
  BY <1>1, <1>2, <1>4, SameGrown, LogStays
<1>6. TypeOK'
  BY <1>1, <1>2, <1>4 DEF TypeOK
<1>7. ASSUME NEW f \in FrameId PROVE FrameOK(f)'
  BY <1>2 DEF FrameOK, IInv, Cached
<1>8. ASSUME NEW j \in Key PROVE KeyOK(j)'
  <2>1. before[j] = None /\ KeyOK(j)
    BY <1>2 DEF Changing, IInv
  <2> QED BY <1>1, <1>2, <1>5, <2>1, KeyKept DEF FrameOf
<1> QED BY <1>5, <1>6, <1>7, <1>8 DEF IInv

\* An image of the log goes to the file.
LEMMA StepRestorePage ==
  ASSUME IInv, RestorePage PROVE IInv'
<1>1. TypeOK /\ LogOK
  BY DEF IInv
<1>2. /\ pos # 0 /\ disk' = [disk EXCEPT ![log[pos].key] = log[pos].before]
      /\ pos' = Preceding(rolling, pos - 1)
      /\ UNCHANGED <<frames, pageTable, clockHand, state, size, txn, rolling, next, holds, before, log, owed, tainted>>
  BY DEF RestorePage, pool, hist
<1>3. /\ Len(log) \in Nat /\ DOMAIN log = 1..Len(log) /\ pos \in DOMAIN log
      /\ log[pos] \in LogRecord /\ pos - 1 \in Nat
  BY <1>1, <1>2, LenProperties, ElementOfSeq DEF TypeOK
<1>4. pos' \in 0..Len(log) /\ rolling' # 0
  <2>1. pos' \in 0..(pos - 1)
    BY <1>2, <1>3, PrecedingIs
  <2> QED BY <1>1, <1>2, <1>3, <2>1 DEF LogOK
<1>5. Grown /\ LogOK'
  BY <1>1, <1>2, <1>4, SameGrown, LogStays
<1>6. log[pos].key \in Key /\ log[pos].before \in Image
  BY <1>3 DEF LogRecord
<1>7. disk' \in [Key -> Image] /\ disk'[log[pos].key] = log[pos].before
      /\ \A j \in Key : j # log[pos].key => disk'[j] = disk[j]
  BY <1>1, <1>2, <1>6 DEF TypeOK
<1>8. TypeOK'
  BY <1>1, <1>2, <1>4, <1>7 DEF TypeOK
<1>9. ASSUME NEW f \in FrameId PROVE FrameOK(f)'
  BY <1>2 DEF FrameOK, IInv, Cached
<1>10. ASSUME NEW j \in Key PROVE KeyOK(j)'
  <2>1. KeyOK(j)
    BY DEF IInv
  <2>2. CASE j # log[pos].key
    BY <1>1, <1>2, <1>5, <1>7, <2>1, <2>2, KeyKept DEF FrameOf
  <2>3. CASE j = log[pos].key
    <3>1. disk'[j] \in Earlier /\ (j \notin tainted => LoggedIn(owed, log, j, disk'[j]))
      BY <1>1, <1>3, <1>7, <2>3 DEF LogOK, Logged
    <3>2. Earlier' = Earlier /\ FrameOf(j)' = FrameOf(j) /\ (Cached(j)' <=> Cached(j))
      BY <1>2 DEF Earlier, FrameOf, Cached
    <3> QED BY <1>2, <2>1, <3>1, <3>2 DEF KeyOK, Logged
  <2> QED BY <2>2, <2>3
<1> QED BY <1>5, <1>8, <1>9, <1>10 DEF IInv

-----------------------------------------------------------------------------
(* Files are extended, shortened, rebuilt and closed.                      *)

LEMMA NoPageIs ==
  /\ NoPage \in FrameRecord /\ NoPage.key = None /\ NoPage.pin = 0 /\ ~ NoPage.dirty
BY DEF NoPage, FrameRecord

\* The frames of a file are those of its pages.
LEMMA FramesOfFile ==
  ASSUME IInv, NEW m \in Manager
  PROVE  /\ FramesOf(m) \in SUBSET FrameId
         /\ \A j \in Key : Cached(j) =>
              /\ pageTable[j] \in FrameId /\ FrameOf(j) = frames[pageTable[j]]
              /\ pageTable[j] \in FramesOf(m) <=> j[1] = m
<1>1. TypeOK
  BY DEF IInv
<1>2. ASSUME NEW j \in Key, Cached(j) PROVE FrameOf(j).key = j /\ j # None
  BY <1>2, NoneAssumption DEF IInv, KeyOK
<1> QED BY <1>1, <1>2, TableType DEF FramesOf

\* Frames that are flushed keep their pages.
LEMMA FlushedIs ==
  ASSUME TypeOK, NEW fs \in SUBSET FrameId
  PROVE  /\ Flushed(fs) \in [FrameId -> FrameRecord]
         /\ \A f \in FrameId :
              /\ Flushed(fs)[f].key = frames[f].key /\ Flushed(fs)[f].bin = frames[f].bin
              /\ Flushed(fs)[f].pin = frames[f].pin
              /\ Flushed(fs)[f].dirty => frames[f].dirty
              /\ Flushed(fs)[f].orig \in {frames[f].orig, frames[f].bin}
              /\ f \notin fs => Flushed(fs)[f] = frames[f]
<1>1. ASSUME NEW f \in FrameId
      PROVE  /\ Clean(frames[f]) \in FrameRecord /\ frames[f] \in FrameRecord
             /\ Clean(frames[f]).key = frames[f].key /\ Clean(frames[f]).bin = frames[f].bin
             /\ Clean(frames[f]).pin = frames[f].pin /\ ~ Clean(frames[f]).dirty
             /\ Clean(frames[f]).orig \in {frames[f].orig, frames[f].bin}
  <2>1. PICK g \in FrameRecord : g = frames[f]
    BY FrameType
  <2>2. /\ Clean(g) \in FrameRecord /\ Clean(g).dirty = FALSE
        /\ Clean(g).key = g.key /\ Clean(g).bin = g.bin /\ Clean(g).pin = g.pin
        /\ Clean(g).orig = IF g.dirty THEN g.bin ELSE g.orig
    BY CleanIs
  <2> QED BY <2>1, <2>2
<1>2. ASSUME NEW f \in FrameId
      PROVE  /\ f \in fs => Flushed(fs)[f] = Clean(frames[f])
             /\ f \notin fs => Flushed(fs)[f] = frames[f]
  BY DEF Flushed
<1>3. Flushed(fs) \in [FrameId -> FrameRecord]
  BY <1>1, <1>2 DEF Flushed
<1> QED BY <1>1, <1>2, <1>3

LEMMA StepAllocate ==
  ASSUME IInv, NEW m \in Manager, Allocate(m) PROVE IInv'
<1>1. TypeOK /\ LogOK
  BY DEF IInv
<1>2. /\ size[m] < MaxPages[m] /\ size' = [size EXCEPT ![m] = @ + 1]
      /\ UNCHANGED <<frames, pageTable, clockHand, state, disk, txn, rolling, pos, next, holds, before, log, owed, tainted>>
  BY DEF Allocate, pool, trans, hist
<1>3. size' \in [Manager -> Nat] /\ \A h \in Manager : size'[h] <= MaxPages[h]
  <2>1. size[m] \in Nat /\ MaxPages[m] \in Nat
    BY <1>1, PoolAssumption DEF TypeOK
  <2>2. size'[m] = size[m] + 1 /\ \A h \in Manager : h # m => size'[h] = size[h]
    BY <1>1, <1>2 DEF TypeOK
  <2>3. size[m] + 1 <= MaxPages[m]
    BY <1>2, <2>1
  <2> QED BY <1>1, <1>2, <2>1, <2>2, <2>3 DEF TypeOK
<1>4. Grown /\ LogOK'
  BY <1>1, <1>2, SameGrown, LogStays DEF LogOK
<1>5. TypeOK'
  BY <1>1, <1>2, <1>3 DEF TypeOK
<1>6. ASSUME NEW f \in FrameId PROVE FrameOK(f)'
  BY <1>2 DEF FrameOK, IInv, Cached
<1>7. ASSUME NEW j \in Key PROVE KeyOK(j)'
  BY <1>1, <1>2, <1>4, KeyKept DEF IInv, FrameOf
<1> QED BY <1>4, <1>5, <1>6, <1>7 DEF IInv

LEMMA StepTruncate ==
  ASSUME IInv, NEW m \in Manager, NEW n \in 1..MaxPages[m], Truncate(m, n) PROVE IInv'
<1> DEFINE fs == FramesOf(m)
<1>1. TypeOK /\ LogOK /\ \A f \in FrameId : FrameOK(f)
  BY DEF IInv
<1>2. /\ n < size[m] /\ Quiet(m) /\ frames' = Flushed(fs)
      /\ disk' = [k \in Key |-> IF k[1] = m /\ k[2] >= n THEN 0 ELSE Written(fs)[k]]
      /\ size' = [size EXCEPT ![m] = n]
      /\ UNCHANGED <<pageTable, clockHand, state, txn, rolling, pos, next, holds, before, log, owed, tainted>>
  BY DEF Truncate, trans, hist
<1>3. /\ fs \in SUBSET FrameId
      /\ \A j \in Key : Cached(j) =>
           /\ pageTable[j] \in FrameId /\ FrameOf(j) = frames[pageTable[j]]
           /\ pageTable[j] \in fs <=> j[1] = m
  BY FramesOfFile
<1>4. Written(fs) \in [Key -> Image]
  BY <1>3, WrittenType
<1> HIDE DEF fs
<1>5. size' \in [Manager -> Nat] /\ \A h \in Manager : size'[h] <= MaxPages[h]
  <2>1. size[m] \in Nat /\ MaxPages[m] \in Nat /\ n \in Nat
    BY <1>1, PoolAssumption DEF TypeOK
  <2>2. size'[m] = n /\ \A h \in Manager : h # m => size'[h] = size[h]
    BY <1>1, <1>2 DEF TypeOK
  <2> QED BY <1>1, <1>2, <2>1, <2>2 DEF TypeOK
<1>6. disk' \in [Key -> Image]
  <2>1. 0 \in Image
    BY PoolAssumption DEF Image
  <2> QED BY <1>2, <1>4, <2>1
<1>7. Grown /\ LogOK'
  BY <1>1, <1>2, SameGrown, LogStays DEF LogOK
<1>8. /\ frames' \in [FrameId -> FrameRecord]
      /\ \A f \in FrameId :
           /\ frames'[f].key = frames[f].key /\ frames'[f].bin = frames[f].bin
           /\ frames'[f].pin = frames[f].pin /\ (frames'[f].dirty => frames[f].dirty)
           /\ frames'[f].orig \in {frames[f].orig, frames[f].bin}
           /\ f \notin fs => frames'[f] = frames[f]
  BY <1>1, <1>2, <1>3, FlushedIs
<1>9. TypeOK'
  <2>1. ASSUME NEW f \in FrameId PROVE frames'[f].dirty \/ frames'[f].pin > 0 => frames'[f].key # None
    BY <1>1, <1>8, FrameType
  <2> QED BY <1>1, <1>2, <1>5, <1>6, <1>8, <2>1 DEF TypeOK
<1>10. \A f \in FrameId : FrameOK(f)'
  <2>1. ASSUME NEW f \in FrameId, frames[f].key # None, pageTable[frames[f].key] # f
        PROVE  ~ frames'[f].dirty /\ frames'[f].pin = 0
    BY <1>1, <1>8, <2>1 DEF FrameOK
  <2> QED BY <1>1, <1>2, <1>8, <2>1, FramesStay
<1>11. ASSUME NEW j \in Key PROVE KeyOK(j)'
  <2>1. KeyOK(j)
    BY DEF IInv
  <2>2. CASE j[1] # m
    <3>1. Written(fs)[j] = disk[j]
      BY <1>1, <1>3, <2>2, WrittenIs
    <3>2. disk'[j] = disk[j] /\ (Cached(j) => frames'[pageTable[j]] = FrameOf(j))
      BY <1>2, <1>3, <1>8, <2>2, <3>1
    <3> QED BY <1>1, <1>2, <1>7, <2>1, <3>2, KeyKept
  <2>3. CASE j[1] = m /\ Cached(j)
    <3>1. before[j] = None
      BY <1>2, <2>3 DEF Quiet, Changing
    <3>2. Written(fs)[j] \in {disk[j], FrameOf(j).bin}
      BY <1>1, <1>3, WrittenIs
    <3>3. disk'[j] \in {disk[j], FrameOf(j).bin, 0}
      BY <1>2, <3>2
    <3>4. /\ frames'[pageTable[j]].key = FrameOf(j).key /\ frames'[pageTable[j]].pin = FrameOf(j).pin
          /\ frames'[pageTable[j]].bin = FrameOf(j).bin
          /\ frames'[pageTable[j]].orig \in {FrameOf(j).orig, FrameOf(j).bin}
      BY <1>3, <1>8, <2>3
    <3> QED BY <1>1, <1>2, <1>7, <2>1, <2>3, <3>1, <3>3, <3>4, KeyCleaned
  <2>4. CASE j[1] = m /\ ~ Cached(j)
    <3>1. before[j] = None /\ pageTable'[j] = Absent /\ (state[j[1]] = "open" => holds[j] = 0)
      BY <1>2, <2>1, <2>4 DEF KeyOK, Cached
    <3>2. Written(fs)[j] = disk[j]
      BY <1>1, <1>3, <2>4, WrittenIs
    <3>3. disk'[j] \in {disk[j], 0}
      BY <1>2, <3>2
    <3> QED BY <1>1, <1>2, <1>7, <2>1, <3>1, <3>3, KeyGone
  <2> QED BY <2>2, <2>3, <2>4
<1> QED BY <1>7, <1>9, <1>10, <1>11 DEF IInv

\* The pages of a file leave the pool.
LEMMA FileLeaves ==
  ASSUME IInv, NEW m \in Manager, frames' = Dropped(FramesOf(m)), pageTable' = Unlisted(m),
         \A h \in Manager : h # m => state'[h] = state[h]
  PROVE  /\ frames' \in [FrameId -> FrameRecord] /\ pageTable' \in [Key -> FrameId \cup {Absent}]
         /\ \A f \in FrameId : frames'[f].dirty \/ frames'[f].pin > 0 => frames'[f].key # None
         /\ \A f \in FrameId : FrameOK(f)'
         /\ \A j \in Key : j[1] = m => pageTable'[j] = Absent
         /\ \A j \in Key : j[1] # m =>
              /\ pageTable'[j] = pageTable[j]
              /\ Cached(j) => frames'[pageTable[j]] = FrameOf(j)
<1> DEFINE fs == FramesOf(m)
<1>1. TypeOK /\ \A f \in FrameId : FrameOK(f)
  BY DEF IInv
<1>2. /\ fs \in SUBSET FrameId
      /\ \A j \in Key : Cached(j) =>
           /\ pageTable[j] \in FrameId /\ FrameOf(j) = frames[pageTable[j]]
           /\ pageTable[j] \in fs <=> j[1] = m
  BY FramesOfFile
<1>3. \A f \in FrameId : f \notin fs => frames[f].key = None \/ frames[f].key[1] # m
  BY DEF FramesOf
<1> HIDE DEF fs
<1>4. /\ frames' \in [FrameId -> FrameRecord]
      /\ \A f \in FrameId : (f \in fs => frames'[f] = NoPage) /\ (f \notin fs => frames'[f] = frames[f])
  BY <1>1, NoPageIs DEF Dropped, fs, TypeOK
<1>5. /\ pageTable' \in [Key -> FrameId \cup {Absent}]
      /\ \A j \in Key : /\ j[1] = m => pageTable'[j] = Absent
                        /\ j[1] # m => pageTable'[j] = pageTable[j]
  BY <1>1 DEF Unlisted, TypeOK
<1>6. ASSUME NEW f \in FrameId PROVE frames'[f].dirty \/ frames'[f].pin > 0 => frames'[f].key # None
  BY <1>1, <1>4, NoPageIs, FrameType
<1>7. ASSUME NEW f \in FrameId PROVE FrameOK(f)'
  <2>1. CASE f \in fs \/ frames[f].key = None
    BY <1>4, <2>1, NoPageIs DEF FrameOK
  <2>2. CASE f \notin fs /\ frames[f].key # None
    <3>1. frames[f].key \in Key /\ frames[f].key[1] # m /\ FrameOK(f) /\ frames'[f] = frames[f]
      BY <1>1, <1>3, <1>4, <2>2, FrameType
    <3>2. pageTable'[frames[f].key] = pageTable[frames[f].key]
      BY <1>5, <3>1
    <3>3. state'[frames[f].key[1]] = state[frames[f].key[1]]
      BY <3>1, KeyParts
    <3> QED BY <3>1, <3>2, <3>3 DEF FrameOK, Cached
  <2> QED BY <2>1, <2>2
<1>8. ASSUME NEW j \in Key, j[1] # m, Cached(j) PROVE frames'[pageTable[j]] = FrameOf(j)
  BY <1>2, <1>4, <1>8
<1> QED BY <1>4, <1>5, <1>6, <1>7, <1>8

LEMMA StepReinit ==
  ASSUME IInv, NEW m \in Manager, Reinit(m) PROVE IInv'
<1>1. TypeOK /\ LogOK
  BY DEF IInv
<1>2. /\ Quiet(m) /\ (\A k \in Key : k[1] = m => holds[k] = 0)
      /\ frames' = Dropped(FramesOf(m)) /\ pageTable' = Unlisted(m)
      /\ disk' = [k \in Key |-> IF k[1] = m THEN 0 ELSE disk[k]]
      /\ size' = [size EXCEPT ![m] = 1]
      /\ UNCHANGED <<clockHand, state, txn, rolling, pos, next, holds, before, log, owed, tainted>>
  BY DEF Reinit, trans, hist
<1>3. /\ frames' \in [FrameId -> FrameRecord] /\ pageTable' \in [Key -> FrameId \cup {Absent}]
      /\ \A f \in FrameId : frames'[f].dirty \/ frames'[f].pin > 0 => frames'[f].key # None
      /\ \A f \in FrameId : FrameOK(f)'
      /\ \A j \in Key : j[1] = m => pageTable'[j] = Absent
      /\ \A j \in Key : j[1] # m =>
           /\ pageTable'[j] = pageTable[j]
           /\ Cached(j) => frames'[pageTable[j]] = FrameOf(j)
  BY <1>2, FileLeaves
<1>4. Grown /\ LogOK'
  BY <1>1, <1>2, SameGrown, LogStays DEF LogOK
<1>5. TypeOK'
  <2>1. disk' \in [Key -> Image]
    BY <1>1, <1>2, PoolAssumption DEF TypeOK, Image
  <2>2. size' \in [Manager -> Nat] /\ \A h \in Manager : size'[h] <= MaxPages[h]
    <3>1. 1 <= MaxPages[m]
      BY PoolAssumption
    <3>2. size'[m] = 1 /\ \A h \in Manager : h # m => size'[h] = size[h]
      BY <1>1, <1>2 DEF TypeOK
    <3> QED BY <1>1, <1>2, <3>1, <3>2 DEF TypeOK
  <2> QED BY <1>1, <1>2, <1>3, <2>1, <2>2 DEF TypeOK
<1>6. ASSUME NEW j \in Key PROVE KeyOK(j)'
  <2>1. KeyOK(j)
    BY DEF IInv
  <2>2. CASE j[1] = m
    <3>1. before[j] = None /\ pageTable'[j] = Absent /\ holds'[j] = 0 /\ disk'[j] = 0
      BY <1>2, <1>3, <2>2 DEF Quiet, Changing
    <3> QED BY <1>1, <1>2, <1>4, <2>1, <3>1, KeyGone
  <2>3. CASE j[1] # m
    BY <1>1, <1>2, <1>3, <1>4, <2>1, <2>3, KeyKept
  <2> QED BY <2>2, <2>3
<1> QED BY <1>3, <1>4, <1>5, <1>6 DEF IInv

LEMMA StepCloseFile ==
  ASSUME IInv, NEW m \in Manager, CloseFile(m) PROVE IInv'
<1>1. TypeOK /\ LogOK /\ \A f \in FrameId : FrameOK(f)
  BY DEF IInv
<1>2. /\ Quiet(m) /\ disk' = IF state[m] = "open" THEN Written(FramesOf(m)) ELSE disk
      /\ frames' = Dropped(FramesOf(m)) /\ pageTable' = Unlisted(m)
      /\ holds' = [k \in Key |-> IF k[1] = m THEN 0 ELSE holds[k]]
      /\ state' = [state EXCEPT ![m] = "closed"]
      /\ UNCHANGED <<clockHand, size, txn, rolling, pos, next, before, log, owed, tainted>>
  BY DEF CloseFile, trans, hist
<1>3. /\ state' \in [Manager -> {"open", "closed"}] /\ state'[m] = "closed"
      /\ \A h \in Manager : h # m => state'[h] = state[h]
  BY <1>1, <1>2 DEF TypeOK
<1>4. /\ frames' \in [FrameId -> FrameRecord] /\ pageTable' \in [Key -> FrameId \cup {Absent}]
      /\ \A f \in FrameId : frames'[f].dirty \/ frames'[f].pin > 0 => frames'[f].key # None
      /\ \A f \in FrameId : FrameOK(f)'
      /\ \A j \in Key : j[1] = m => pageTable'[j] = Absent
      /\ \A j \in Key : j[1] # m =>
           /\ pageTable'[j] = pageTable[j]
           /\ Cached(j) => frames'[pageTable[j]] = FrameOf(j)
  BY <1>2, <1>3, FileLeaves
<1>5. Grown /\ LogOK'
  BY <1>1, <1>2, SameGrown, LogStays DEF LogOK
<1>6. /\ FramesOf(m) \in SUBSET FrameId
      /\ \A j \in Key : Cached(j) => (pageTable[j] \in FramesOf(m) <=> j[1] = m)
  BY FramesOfFile
<1>7. ASSUME NEW j \in Key
      PROVE  /\ j[1] # m => disk'[j] = disk[j]
             /\ disk'[j] = disk[j] \/ (Cached(j) /\ disk'[j] = FrameOf(j).bin)
  BY <1>1, <1>2, <1>6, WrittenIs
<1>8. TypeOK'
  <2>1. disk' \in [Key -> Image]
    BY <1>1, <1>2, <1>6, WrittenType DEF TypeOK
  <2>2. holds' \in [Key -> 0..MaxPins]
    BY <1>1, <1>2, PoolAssumption DEF TypeOK
  <2> QED BY <1>1, <1>2, <1>3, <1>4, <2>1, <2>2 DEF TypeOK
<1>9. ASSUME NEW j \in Key PROVE KeyOK(j)'
  <2>1. KeyOK(j) /\ j[1] \in Manager
    BY KeyParts DEF IInv
  <2>2. CASE j[1] = m
    <3>1. before[j] = None /\ pageTable'[j] = Absent /\ holds'[j] = 0
      BY <1>2, <1>4, <2>2 DEF Quiet, Changing
    <3> QED BY <1>1, <1>2, <1>5, <1>7, <2>1, <3>1, KeyGone
  <2>3. CASE j[1] # m
    <3>1. holds'[j] = holds[j] /\ state'[j[1]] = state[j[1]] /\ disk'[j] = disk[j]
      BY <1>2, <1>3, <1>7, <2>1, <2>3
    <3> QED BY <1>1, <1>2, <1>4, <1>5, <2>1, <2>3, <3>1, KeyKept
  <2> QED BY <2>2, <2>3
<1> QED BY <1>4, <1>5, <1>8, <1>9 DEF IInv

LEMMA StepCloseAll ==
  ASSUME IInv, CloseAll PROVE IInv'
<1> DEFINE fs == {f \in FrameId : frames[f].key # None /\ state[frames[f].key[1]] = "open"}
<1>1. TypeOK /\ LogOK /\ \A f \in FrameId : FrameOK(f)
  BY DEF IInv
<1>2. /\ Changing = {} /\ disk' = Written(fs)
      /\ frames' = [f \in FrameId |-> NoPage] /\ pageTable' = [k \in Key |-> Absent]
      /\ holds' = [k \in Key |-> 0] /\ state' = [m \in Manager |-> "closed"]
      /\ UNCHANGED <<clockHand, size, txn, rolling, pos, next, before, log, owed, tainted>>
  BY DEF CloseAll, trans, hist
<1>3. fs \in SUBSET FrameId
  OBVIOUS
<1> HIDE DEF fs
<1>4. Grown /\ LogOK'
  BY <1>1, <1>2, SameGrown, LogStays DEF LogOK
<1>5. TypeOK'
  <2>1. disk' \in [Key -> Image]
    BY <1>2, <1>3, WrittenType
  <2>2. /\ frames' \in [FrameId -> FrameRecord]
        /\ \A f \in FrameId : frames'[f].dirty \/ frames'[f].pin > 0 => frames'[f].key # None
    BY <1>2, NoPageIs
  <2>3. /\ holds' \in [Key -> 0..MaxPins] /\ pageTable' \in [Key -> FrameId \cup {Absent}]
        /\ state' \in [Manager -> {"open", "closed"}]
    BY <1>2, PoolAssumption
  <2> QED BY <1>1, <1>2, <2>1, <2>2, <2>3 DEF TypeOK
<1>6. ASSUME NEW f \in FrameId PROVE FrameOK(f)'
  BY <1>2, NoPageIs DEF FrameOK
<1>7. ASSUME NEW j \in Key PROVE KeyOK(j)'
  <2>1. KeyOK(j)
    BY DEF IInv
  <2>2. disk'[j] = disk[j] \/ (Cached(j) /\ disk'[j] = FrameOf(j).bin)
    BY <1>1, <1>2, <1>3, WrittenIs
  <2>3. before[j] = None /\ pageTable'[j] = Absent /\ holds'[j] = 0
    BY <1>2 DEF Changing
  <2> QED BY <1>1, <1>2, <1>4, <2>1, <2>2, <2>3, KeyGone
<1> QED BY <1>4, <1>5, <1>6, <1>7 DEF IInv

LEMMA InitIInv == Init => IInv
<1>1. SUFFICES ASSUME Init PROVE IInv
  OBVIOUS
<1>2. TypeOK
  <2>1. frames \in [FrameId -> FrameRecord] /\ \A f \in FrameId : frames[f] = NoPage
    BY <1>1, NoPageIs DEF Init
  <2>2. 0 \in Image /\ 0 \in FrameId /\ 0 \in 0..MaxPins /\ 0 \in 0..MaxTxn /\ 1 \in 1..(MaxChanges + 1)
    BY PoolAssumption DEF Image, FrameId
  <2>3. log \in Seq(LogRecord) /\ pos \in 0..Len(log)
    BY <1>1 DEF Init
  <2>4. size \in [Manager -> Nat] /\ \A m \in Manager : size[m] <= MaxPages[m]
    BY <1>1, PoolAssumption DEF Init
  <2> QED BY <1>1, <2>1, <2>2, <2>3, <2>4, NoPageIs DEF TypeOK, Init
<1>3. LogOK
  BY <1>1 DEF Init, LogOK
<1>4. \A f \in FrameId : FrameOK(f)
  BY <1>1, NoPageIs DEF Init, FrameOK
<1>5. \A k \in Key : KeyOK(k)
  BY <1>1 DEF Init, KeyOK, Cached, Earlier, Logged, LoggedIn
<1> QED BY <1>2, <1>3, <1>4, <1>5 DEF IInv

LEMMA NextIInv == IInv /\ [Next]_vars => IInv'
<1>1. SUFFICES ASSUME IInv, [Next]_vars PROVE IInv'
  OBVIOUS
<1>2. CASE UNCHANGED vars
  BY <1>1, <1>2 DEF vars, pool, files, trans, hist, IInv, TypeOK, LogOK, FrameOK, KeyOK, Cached,
     FrameOf, Earlier, Logged, LoggedIn
<1>3. CASE \E k \in Key : \/ FetchHit(k) \/ FetchMiss(k) \/ FetchRaises(k) \/ FetchKeyError(k)
                          \/ Unpin(k) \/ Change(k) \/ MarkDirty(k) \/ MarkRaises(k)
  BY <1>1, <1>3, StepFetchHit, StepFetchMiss, StepFetchRaises, StepFetchKeyError, StepUnpin,
     StepChange, StepMarkDirty, StepMarkRaises
<1>4. CASE \E m \in Manager : \/ Allocate(m) \/ Reinit(m) \/ CloseFile(m)
                              \/ \E n \in 1..MaxPages[m] : Truncate(m, n)
  BY <1>1, <1>4, StepAllocate, StepReinit, StepCloseFile, StepTruncate
<1>5. CASE CloseAll
  BY <1>1, <1>5, StepCloseAll
<1>6. CASE (\E t \in 1..MaxTxn : Begin(t)) \/ Commit \/ StartRollback \/ EndRollback
  BY <1>1, <1>6, StepTransaction
<1>7. CASE RestorePage
  BY <1>1, <1>7, StepRestorePage
<1> QED BY <1>1, <1>2, <1>3, <1>4, <1>5, <1>6, <1>7 DEF Next

LEMMA Invariance == Spec => []IInv
BY InitIInv, NextIInv, PTL DEF Spec

-----------------------------------------------------------------------------
(* What the invariant says about frames, pins and images.                  *)

LEMMA ImpliesFramesSound == IInv => FramesSound
<1>1. SUFFICES ASSUME IInv PROVE FramesSound
  OBVIOUS
<1>2. TypeOK /\ (\A f \in FrameId : FrameOK(f)) /\ (\A k \in Key : KeyOK(k))
  BY <1>1 DEF IInv
<1>3. OneFrame
  BY <1>2 DEF OneFrame, FrameOK, KeyOK
<1>4. HoldersPinned
  <2>1. \A k \in Key : holds[k] \in Nat
    BY <1>2, PoolAssumption DEF TypeOK
  <2> QED BY <1>2, <2>1 DEF HoldersPinned, KeyOK
<1>5. VictimFound
  BY <1>2, VictimExists DEF VictimFound
<1> QED BY <1>3, <1>4, <1>5 DEF FramesSound

LEMMA ImpliesImagesSound == IInv => ImagesSound
<1>1. SUFFICES ASSUME IInv PROVE ImagesSound
  OBVIOUS
<1>2. \A k \in Key : KeyOK(k)
  BY <1>1 DEF IInv
<1>3. OriginalIsBefore
  BY <1>2 DEF OriginalIsBefore, KeyOK
<1>4. LoggedBeforeWritten
  BY <1>2 DEF LoggedBeforeWritten, KeyOK, Logged, LoggedIn
<1> QED BY <1>3, <1>4 DEF ImagesSound

-----------------------------------------------------------------------------
(* The pool implements PageStore.                                          *)

\* What PageStore sees of a page.
Page(k) == IF k[2] >= size[k[1]] THEN None ELSE IF Stale(k) THEN Absent ELSE Seen(k)
Pages   == [k \in Key |-> Page(k)]

PagesTyped == \A k \in Key : Seen(k) \in Image /\ Page(k) \in Image \cup {None, Absent}

LEMMA PagesType == IInv => PagesTyped
<1>1. SUFFICES ASSUME IInv, NEW k \in Key PROVE Seen(k) \in Image
  BY DEF Page, PagesTyped
<1>2. KeyOK(k) /\ Earlier \subseteq Image
  BY <1>1, EarlierImages DEF IInv
<1> QED BY <1>2 DEF KeyOK, Seen

LEMMA PagesTypeNext == IInv' => PagesTyped'
BY PagesType, PTL

\* A page in whose frame, and in whose file, nothing happens.
LEMMA PageKept ==
  ASSUME NEW k \in Key, size'[k[1]] = size[k[1]], pageTable'[k] = pageTable[k], disk'[k] = disk[k],
         before'[k] = before[k],
         Cached(k) => /\ frames'[pageTable[k]].bin = FrameOf(k).bin
                      /\ frames'[pageTable[k]].dirty = FrameOf(k).dirty
  PROVE  Page(k)' = Page(k)
BY DEF Page, Stale, Seen, Cached, FrameOf

\* A page that leaves the pool, written if it is dirty, or was not in it.
LEMMA PageLeaves ==
  ASSUME IInv, IInv', NEW k \in Key, size'[k[1]] = size[k[1]], before[k] = None, pageTable'[k] = Absent,
         disk'[k] = IF Cached(k) /\ FrameOf(k).dirty THEN FrameOf(k).bin ELSE disk[k]
  PROVE  Page(k)' = Page(k) \/ Page(k) = Absent
BY DEF Page, Stale, Seen, Cached, FrameOf

\* What the pool forgets or finds out is known to PageStore or settled.
LEMMA Settles ==
  ASSUME IInv', \A k \in Key : Page(k)' = Page(k) \/ Page(k) = Absent, next' = next, pos' = pos
  PROVE  Store!Settle
<1>1. \A k \in Key : Page(k)' \in Image \cup {None, Absent}
  BY PagesTypeNext DEF PagesTyped, Image
<1>2. \A k \in Key : IF Page(k) = Absent THEN Page(k)' \in Image \cup {None, Absent} ELSE Page(k)' = Page(k)
  BY <1>1
<1>3. \A k \in Key : IF Pages[k] = Absent THEN Pages'[k] \in Image \cup {None, Absent} ELSE Pages'[k] = Pages[k]
  BY <1>2 DEF Pages
<1>4. DOMAIN Pages' = Key
  BY DEF Pages
<1> QED BY <1>3, <1>4 DEF Store!Settle, Pages, Page, Store!Image, Image

LEMMA FetchMissSettles == ASSUME IInv, IInv', NEW k \in Key, FetchMiss(k) PROVE Store!Settle
<1> DEFINE v == Nth(StopAt)
           d == Written({v})
           s == Swept(StopAt)
           new == [key |-> k, bin |-> d[k], orig |-> d[k], pin |-> 1, dirty |-> FALSE, ref |-> TRUE]
           old == frames[v].key
<1>1. TypeOK /\ LogOK /\ (\A f \in FrameId : FrameOK(f)) /\ KeyOK(k)
  BY DEF IInv
<1>2. /\ Rounds # {} /\ Listed(v) /\ ~ Cached(k)
      /\ disk' = d /\ frames' = [s EXCEPT ![v] = new] /\ pageTable' = [Forget(v) EXCEPT ![k] = v]
      /\ UNCHANGED <<state, size, pos, next, before>>
  BY DEF FetchMiss, Misses, trans
<1>3. v \in FrameId /\ Forget(v) \in [Key -> FrameId \cup {Absent}]
  BY <1>2, Evicted
<1>4. \A j \in Key : j = old =>
        /\ Cached(j) /\ pageTable[j] = v /\ before[j] = None /\ FrameOf(j) = frames[v] /\ Forget(v)[j] = Absent
  BY <1>2, Evicted
<1>5. \A j \in Key : j # old =>
        /\ d[j] = disk[j] /\ Forget(v)[j] = pageTable[j]
        /\ Cached(j) => pageTable[j] \in FrameId /\ pageTable[j] # v
  BY <1>2, Evicted
<1>6. /\ s \in [FrameId -> FrameRecord]
      /\ \A f \in FrameId : f # v => s[f].bin = frames[f].bin /\ s[f].dirty = frames[f].dirty
  BY <1>1, <1>2, VictimIs, SweptIs
<1>7. \A j \in Key : j = old => d[j] = IF FrameOf(j).dirty THEN FrameOf(j).bin ELSE disk[j]
  BY <1>1, <1>3, <1>4, WrittenIs DEF IInv, KeyOK
<1>8. new.bin = d[k]
  OBVIOUS
<1> HIDE DEF v, d, s, new
<1>9. frames'[v] = new /\ \A f \in FrameId : f # v => frames'[f] = s[f]
  BY <1>2, <1>3, <1>6
<1>10. pageTable'[k] = v /\ \A j \in Key : j # k => pageTable'[j] = Forget(v)[j]
  BY <1>2, <1>3
<1>11. ASSUME NEW j \in Key PROVE Page(j)' = Page(j) \/ Page(j) = Absent
  <2>1. CASE j = k
    <3>1. k # old /\ before'[k] = before[k] /\ disk'[k] = disk[k] /\ size' = size
      BY <1>2, <1>4, <1>5
    <3>2. v # Absent
      BY <1>3 DEF FrameId, Absent
    <3>3. Cached(k)' /\ FrameOf(k)'.bin = disk[k]
      BY <1>2, <1>8, <1>9, <1>10, <3>1, <3>2 DEF Cached, FrameOf
    <3> QED BY <1>2, <2>1, <3>1, <3>3 DEF Page, Stale, Seen
  <2>2. CASE j # k /\ j = old
    <3>1. before[j] = None /\ pageTable'[j] = Absent
      BY <1>4, <1>10, <2>2
    <3>2. disk'[j] = IF Cached(j) /\ FrameOf(j).dirty THEN FrameOf(j).bin ELSE disk[j]
      BY <1>2, <1>4, <1>7, <2>2
    <3> QED BY <1>2, <3>1, <3>2, PageLeaves
  <2>3. CASE j # k /\ j # old
    <3>1. pageTable'[j] = pageTable[j] /\ disk'[j] = disk[j]
      BY <1>2, <1>5, <1>10, <2>3
    <3>2. Cached(j) => /\ frames'[pageTable[j]].bin = FrameOf(j).bin
                       /\ frames'[pageTable[j]].dirty = FrameOf(j).dirty
      BY <1>5, <1>6, <1>9, <2>3 DEF FrameOf
    <3> QED BY <1>2, <3>1, <3>2, PageKept
  <2> QED BY <2>1, <2>2, <2>3
<1> QED BY <1>2, <1>11, Settles

LEMMA FetchRaisesSettles == ASSUME IInv, IInv', NEW k \in Key, FetchRaises(k) PROVE Store!Settle
<1> DEFINE v == Nth(StopAt)
           d == Written({v})
           s == Swept(StopAt)
           old == frames[v].key
<1>1. TypeOK /\ LogOK /\ (\A f \in FrameId : FrameOK(f))
  BY DEF IInv
<1>2. /\ Rounds # {} /\ Listed(v) /\ ~ Cached(k)
      /\ disk' = d /\ frames' = [s EXCEPT ![v].key = k] /\ pageTable' = Forget(v)
      /\ UNCHANGED <<state, size, pos, next, before>>
  BY DEF FetchRaises, Misses, trans
<1>3. \A j \in Key : j = old =>
        /\ Cached(j) /\ pageTable[j] = v /\ before[j] = None /\ FrameOf(j) = frames[v] /\ Forget(v)[j] = Absent
  BY <1>2, Evicted
<1>4. \A j \in Key : j # old =>
        /\ d[j] = disk[j] /\ Forget(v)[j] = pageTable[j]
        /\ Cached(j) => pageTable[j] \in FrameId /\ pageTable[j] # v
  BY <1>2, Evicted
<1>5. /\ s \in [FrameId -> FrameRecord]
      /\ \A f \in FrameId : f # v => s[f].bin = frames[f].bin /\ s[f].dirty = frames[f].dirty
  BY <1>1, <1>2, VictimIs, SweptIs
<1>6. v \in FrameId
  BY <1>2, Evicted
<1>7. \A j \in Key : j = old => d[j] = IF FrameOf(j).dirty THEN FrameOf(j).bin ELSE disk[j]
  BY <1>1, <1>3, <1>6, WrittenIs DEF IInv, KeyOK
<1> HIDE DEF v, d, s
<1>8. \A f \in FrameId : f # v => frames'[f] = s[f]
  BY <1>2, <1>5
<1>9. ASSUME NEW j \in Key PROVE Page(j)' = Page(j) \/ Page(j) = Absent
  <2>1. CASE j = old
    <3>1. before[j] = None /\ pageTable'[j] = Absent
      BY <1>2, <1>3, <2>1
    <3>2. disk'[j] = IF Cached(j) /\ FrameOf(j).dirty THEN FrameOf(j).bin ELSE disk[j]
      BY <1>2, <1>3, <1>7, <2>1
    <3> QED BY <1>2, <3>1, <3>2, PageLeaves
  <2>2. CASE j # old
    <3>1. pageTable'[j] = pageTable[j] /\ disk'[j] = disk[j]
      BY <1>2, <1>4, <2>2
    <3>2. Cached(j) => /\ frames'[pageTable[j]].bin = FrameOf(j).bin
                       /\ frames'[pageTable[j]].dirty = FrameOf(j).dirty
      BY <1>4, <1>5, <1>8, <2>2 DEF FrameOf
    <3> QED BY <1>2, <3>1, <3>2, PageKept
  <2> QED BY <2>1, <2>2
<1> QED BY <1>2, <1>9, Settles

\* The sweep ends at a frame that the table does not know: it is clean.
LEMMA FetchKeyErrorSettles == ASSUME IInv, IInv', NEW k \in Key, FetchKeyError(k) PROVE Store!Settle
<1> DEFINE v == Nth(StopAt)
           s == Swept(StopAt)
<1>1. TypeOK /\ LogOK /\ (\A f \in FrameId : FrameOK(f))
  BY DEF IInv
<1>2. /\ Rounds # {} /\ ~ Listed(v) /\ disk' = Written({v}) /\ frames' = s
      /\ UNCHANGED <<pageTable, state, size, pos, next, before>>
  BY DEF FetchKeyError, Misses, trans
<1>3. v \in FrameId /\ StopAt \in Nat
  BY <1>1, <1>2, VictimIs
<1>4. \A f \in FrameId : /\ s[f].bin = frames[f].bin
                         /\ f # v => s[f].dirty = frames[f].dirty
  BY <1>1, <1>3, SweptIs
<1>5. ~ Cached(frames[v].key)
  BY <1>2 DEF Listed
<1> HIDE DEF v, s
<1>6. ASSUME NEW j \in Key PROVE Page(j)' = Page(j)
  <2>1. Cached(j) => /\ pageTable[j] \in FrameId /\ FrameOf(j) = frames[pageTable[j]]
                     /\ pageTable[j] # v
    BY <1>1, <1>5, TableType DEF IInv, KeyOK
  <2>2. disk'[j] = disk[j]
    BY <1>1, <1>2, <1>3, <2>1, WrittenIs
  <2> QED BY <1>2, <1>4, <2>1, <2>2, PageKept
<1> QED BY <1>2, <1>6, Settles

\* One frame changes, and no other page is seen differently.
LEMMA OtherPages ==
  ASSUME IInv, NEW k \in Key, Cached(k), NEW fr, frames' = [frames EXCEPT ![pageTable[k]] = fr],
         UNCHANGED <<pageTable, size, disk>>,
         \A j \in Key : j # k => before'[j] = before[j]
  PROVE  /\ FrameOf(k)' = fr
         /\ \A j \in Key : j # k => Page(j)' = Page(j)
<1>1. TypeOK
  BY DEF IInv
<1>2. pageTable[k] \in FrameId /\ FrameOf(k).key = k
  BY <1>1, TableType DEF IInv, KeyOK
<1>3. frames'[pageTable[k]] = fr /\ \A f \in FrameId : f # pageTable[k] => frames'[f] = frames[f]
  BY <1>1, <1>2 DEF TypeOK
<1>4. ASSUME NEW j \in Key, j # k PROVE Page(j)' = Page(j)
  <2>1. Cached(j) => /\ pageTable[j] \in FrameId /\ FrameOf(j) = frames[pageTable[j]]
                     /\ pageTable[j] # pageTable[k]
    BY <1>1, <1>2, <1>4, TableType DEF IInv, KeyOK, FrameOf
  <2> QED BY <1>3, <1>4, <2>1, PageKept
<1> QED BY <1>3, <1>4 DEF FrameOf

LEMMA PinSettles ==
  ASSUME IInv, IInv', NEW k \in Key, FetchHit(k) \/ Unpin(k) PROVE Store!Settle
<1>1. TypeOK /\ Cached(k) /\ UNCHANGED <<pageTable, size, disk, before, next, pos>>
  BY DEF IInv, FetchHit, Unpin, files, trans
<1>2. pageTable[k] \in FrameId /\ FrameOf(k) = frames[pageTable[k]]
  BY <1>1, TableType
<1>3. PICK fr : /\ frames' = [frames EXCEPT ![pageTable[k]] = fr]
                /\ fr.bin = FrameOf(k).bin /\ fr.dirty = FrameOf(k).dirty
  <2>1. PICK g \in FrameRecord : g = frames[pageTable[k]]
    BY <1>1, <1>2, FrameType
  <2>2. CASE FetchHit(k)
    <3> DEFINE fr == [g EXCEPT !.pin = @ + 1, !.ref = TRUE]
    <3>1. frames' = [frames EXCEPT ![pageTable[k]] = fr]
      BY <1>1, <1>2, <2>1, <2>2 DEF FetchHit
    <3>2. fr.bin = g.bin /\ fr.dirty = g.dirty
      BY DEF FrameRecord
    <3> HIDE DEF fr
    <3> QED BY <1>2, <2>1, <3>1, <3>2
  <2>3. CASE Unpin(k)
    <3> DEFINE fr == [g EXCEPT !.pin = @ - 1]
    <3>1. frames' = [frames EXCEPT ![pageTable[k]] = fr]
      BY <1>1, <1>2, <2>1, <2>3 DEF Unpin
    <3>2. fr.bin = g.bin /\ fr.dirty = g.dirty
      BY DEF FrameRecord
    <3> HIDE DEF fr
    <3> QED BY <1>2, <2>1, <3>1, <3>2
  <2> QED BY <2>2, <2>3
<1>4. FrameOf(k)' = fr /\ \A j \in Key : j # k => Page(j)' = Page(j)
  BY <1>1, <1>3, OtherPages
<1>5. Page(k)' = Page(k)
  BY <1>1, <1>3, <1>4 DEF Page, Stale, Seen, Cached
<1> QED BY <1>1, <1>4, <1>5, Settles

\* A caller writes into a page.
LEMMA ChangeWrites ==
  ASSUME IInv, NEW k \in Key, Change(k) PROVE Store!Write(k)
<1>1. /\ TypeOK /\ Cached(k) /\ InFile(k) /\ next' = next + 1
      /\ frames' = [frames EXCEPT ![pageTable[k]].bin = next]
      /\ before' = [before EXCEPT ![k] = IF @ = None THEN FrameOf(k).bin ELSE @]
      /\ UNCHANGED <<pageTable, size, disk, pos>>
  BY DEF IInv, Change, files, trans
<1>2. pageTable[k] \in FrameId /\ FrameOf(k) = frames[pageTable[k]]
  BY <1>1, TableType
<1>3. PICK fr : frames' = [frames EXCEPT ![pageTable[k]] = fr] /\ fr.bin = next
  <2>1. PICK g \in FrameRecord : g = frames[pageTable[k]]
    BY <1>1, <1>2, FrameType
  <2> DEFINE fr == [g EXCEPT !.bin = next]
  <2>2. frames' = [frames EXCEPT ![pageTable[k]] = fr] /\ fr.bin = next
    BY <1>1, <1>2, <2>1 DEF FrameRecord
  <2> HIDE DEF fr
  <2> QED BY <2>2
<1>4. before'[k] # None /\ \A j \in Key : j # k => before'[j] = before[j]
  <2>1. FrameOf(k).bin \in Earlier /\ Earlier \subseteq Image
    BY <1>1, EarlierImages DEF IInv, KeyOK
  <2> QED BY <1>1, <2>1, NoneAssumption DEF TypeOK
<1>5. FrameOf(k)' = fr /\ \A j \in Key : j # k => Page(j)' = Page(j)
  BY <1>1, <1>3, <1>4, OtherPages
<1>6. k[2] < size[k[1]] /\ k[2] \in Nat /\ size[k[1]] \in Nat
  BY <1>1, KeyParts, PoolAssumption DEF InFile, TypeOK
<1>7. Page(k)' = next
  BY <1>1, <1>3, <1>4, <1>5, <1>6 DEF Page, Stale, Seen, Cached
<1>8. Page(k) # None
  <2>1. Seen(k) \in Image
    BY PagesType DEF PagesTyped
  <2> QED BY <1>6, <2>1, NoneAssumption DEF Page
<1>9. Pages' = [Pages EXCEPT ![k] = next] /\ Pages[k] # None
  BY <1>5, <1>7, <1>8 DEF Pages
<1> QED BY <1>1, <1>9 DEF Store!Write, Pages, Page

\* mark_dirty keeps what is seen, whether the logger raises or not.
LEMMA MarkKeeps ==
  ASSUME IInv, NEW k \in Key, MarkDirty(k) \/ MarkRaises(k) PROVE Pages' = Pages
<1>1. /\ TypeOK /\ Cached(k) /\ before[k] # None /\ before' = [before EXCEPT ![k] = None]
      /\ UNCHANGED <<pageTable, size, disk>>
  BY DEF IInv, MarkDirty, MarkRaises, files, Changing
<1>2. pageTable[k] \in FrameId /\ FrameOf(k) = frames[pageTable[k]]
  BY <1>1, TableType
<1>3. PICK fr : frames' = [frames EXCEPT ![pageTable[k]] = fr] /\ fr.dirty /\ fr.bin = FrameOf(k).bin
  <2>1. PICK g \in FrameRecord : g = frames[pageTable[k]]
    BY <1>1, <1>2, FrameType
  <2>2. CASE MarkDirty(k)
    <3> DEFINE fr == [g EXCEPT !.dirty = TRUE, !.orig = IF txn = 0 \/ Logs(k) THEN g.bin ELSE @]
    <3>1. frames' = [frames EXCEPT ![pageTable[k]] = fr]
      BY <1>1, <1>2, <2>1, <2>2 DEF MarkDirty
    <3>2. fr.bin = g.bin /\ fr.dirty
      BY DEF FrameRecord
    <3> HIDE DEF fr
    <3> QED BY <1>2, <2>1, <3>1, <3>2
  <2>3. CASE MarkRaises(k)
    <3> DEFINE fr == [g EXCEPT !.dirty = TRUE]
    <3>1. frames' = [frames EXCEPT ![pageTable[k]] = fr]
      BY <1>1, <1>2, <2>1, <2>3 DEF MarkRaises
    <3>2. fr.bin = g.bin /\ fr.dirty
      BY DEF FrameRecord
    <3> HIDE DEF fr
    <3> QED BY <1>2, <2>1, <3>1, <3>2
  <2> QED BY <2>2, <2>3
<1>4. FrameOf(k)' = fr /\ \A j \in Key : j # k => Page(j)' = Page(j)
  BY <1>1, <1>3, OtherPages DEF TypeOK
<1>5. Page(k)' = Page(k)
  BY <1>1, <1>3, <1>4 DEF Page, Stale, Seen, Cached
<1> QED BY <1>4, <1>5 DEF Pages

\* A file grows by the page after its last.
LEMMA AllocateGrows ==
  ASSUME IInv, IInv', NEW m \in Manager, Allocate(m)
  PROVE  \E k \in Key : Store!Grow(k)
<1>1. /\ TypeOK /\ size[m] < MaxPages[m] /\ size' = [size EXCEPT ![m] = @ + 1]
      /\ UNCHANGED <<frames, pageTable, disk, before, next, pos>>
  BY DEF IInv, Allocate, pool, trans
<1>2. size[m] \in Nat /\ MaxPages[m] \in Nat
  BY <1>1, PoolAssumption DEF TypeOK
<1>3. PICK k \in Key : k = <<m, size[m]>>
  <2>1. size[m] \in 0..(MaxPages[m] - 1)
    BY <1>1, <1>2
  <2> QED BY <2>1, KeyMade
<1>4. ASSUME NEW j \in Key, j # k PROVE Page(j)' = Page(j)
  <2>1. CASE j[1] = m
    <3>1. j[2] \in Nat /\ j[2] # size[m] /\ j = <<j[1], j[2]>>
      <4>1. MaxPages[j[1]] \in Nat
        BY <1>2, <2>1
      <4> QED BY <1>3, <1>4, <2>1, <4>1, KeyParts
    <3>2. size'[j[1]] = size[m] + 1 /\ size[j[1]] = size[m]
      BY <1>1, <2>1 DEF TypeOK
    <3>3. j[2] >= size'[j[1]] <=> j[2] >= size[j[1]]
      BY <1>2, <3>1, <3>2
    <3> QED BY <1>1, <3>3 DEF Page, Stale, Seen, Cached, FrameOf
  <2>2. CASE j[1] # m
    <3>1. size'[j[1]] = size[j[1]]
      BY <1>1, <2>2, KeyParts DEF TypeOK
    <3> QED BY <1>1, <3>1, PageKept DEF FrameOf
  <2> QED BY <2>1, <2>2
<1>5. Page(k) = None
  <2>1. k[1] = m /\ k[2] = size[m]
    BY <1>3
  <2> QED BY <1>2, <2>1 DEF Page
<1>6. Page(k)' \in Image \cup {Absent}
  <2>1. Page(k)' \in Image \cup {None, Absent} /\ Seen(k)' \in Image
    BY PagesTypeNext DEF PagesTyped, Image
  <2>2. ~ (k[2] >= size'[k[1]])
    <3>1. k[1] = m /\ k[2] = size[m]
      BY <1>3
    <3>2. size'[m] = size[m] + 1
      BY <1>1 DEF TypeOK
    <3> QED BY <1>2, <3>1, <3>2
  <2> QED BY <2>1, <2>2 DEF Page
<1>7. Pages' = [Pages EXCEPT ![k] = Page(k)'] /\ Pages[k] = None
  BY <1>4, <1>5 DEF Pages
<1>8. \E v \in Store!Image \cup {Absent} : Pages' = [Pages EXCEPT ![k] = v]
  BY <1>6, <1>7 DEF Store!Image, Image
<1> QED BY <1>1, <1>7, <1>8 DEF Store!Grow, Pages, Page

LEMMA PagesCount ==
  ASSUME NEW m \in Manager PROVE Cardinality(Key) \in Nat /\ MaxPages[m] <= Cardinality(Key)
<1> DEFINE P == {m} \X (0..(MaxPages[m] - 1))
<1>1. MaxPages[m] \in Nat \ {0}
  BY PoolAssumption
<1>2. IsFiniteSet(0..(MaxPages[m] - 1)) /\ Cardinality(0..(MaxPages[m] - 1)) = MaxPages[m]
  <2>1. MaxPages[m] - 1 \in Int /\ 0 <= MaxPages[m] - 1 /\ (MaxPages[m] - 1) - 0 + 1 = MaxPages[m]
    BY <1>1
  <2> QED BY <2>1, FS_Interval, SMTT(30)
<1>3. IsFiniteSet({m}) /\ Cardinality({m}) = 1
  BY FS_Singleton
<1>4. Cardinality(P) = 1 * MaxPages[m]
  BY <1>2, <1>3, FS_Product, ZenonT(30)
<1>5. P \in SUBSET Key
  BY DEF Key
<1>6. Cardinality(P) <= Cardinality(Key) /\ Cardinality(Key) \in Nat
  BY <1>5, KeysFinite, FS_Subset, FS_CardinalityType
<1> QED BY <1>1, <1>4, <1>6

\* _truncate flushes the pages that it keeps.
LEMMA TruncateShrinks ==
  ASSUME IInv, NEW m \in Manager, NEW n \in 1..MaxPages[m], Truncate(m, n)
  PROVE  Store!Shrink(m, n) /\ n \in 1..Cardinality(Key)
<1> DEFINE fs == FramesOf(m)
<1>1. TypeOK /\ LogOK /\ \A f \in FrameId : FrameOK(f)
  BY DEF IInv
<1>2. /\ n < size[m] /\ Quiet(m) /\ frames' = Flushed(fs)
      /\ disk' = [k \in Key |-> IF k[1] = m /\ k[2] >= n THEN 0 ELSE Written(fs)[k]]
      /\ size' = [size EXCEPT ![m] = n]
      /\ UNCHANGED <<pageTable, pos, next, before>>
  BY DEF Truncate, trans
<1>3. /\ fs \in SUBSET FrameId
      /\ \A j \in Key : Cached(j) =>
           /\ pageTable[j] \in FrameId /\ FrameOf(j) = frames[pageTable[j]]
           /\ pageTable[j] \in fs <=> j[1] = m
  BY FramesOfFile
<1>4. \A f \in FrameId : /\ f \in fs => Flushed(fs)[f] = Clean(frames[f])
                         /\ f \notin fs => Flushed(fs)[f] = frames[f]
  BY DEF Flushed
<1> HIDE DEF fs
<1>5. size[m] \in Nat /\ MaxPages[m] \in Nat /\ n \in Nat
  BY <1>1, PoolAssumption DEF TypeOK
<1>6. ASSUME NEW j \in Key PROVE Page(j)' = IF j[1] = m /\ j[2] >= n THEN None ELSE Page(j)
  <2>1. j[1] \in Manager /\ (j[1] = m => j[2] \in Nat)
    BY <1>5, KeyParts
  <2>2. size'[j[1]] = IF j[1] = m THEN n ELSE size[j[1]]
    BY <1>1, <1>2, <2>1 DEF TypeOK
  <2>3. CASE j[1] = m /\ j[2] >= n
    BY <2>2, <2>3 DEF Page
  <2>4. CASE j[1] = m /\ ~ (j[2] >= n)
    <3>1. ~ (j[2] >= size'[j[1]]) /\ ~ (j[2] >= size[j[1]])
      BY <1>2, <1>5, <2>1, <2>2, <2>4
    <3>2. before[j] = None /\ before'[j] = None
      BY <1>2, <2>4 DEF Quiet, Changing
    <3>3. disk'[j] = Written(fs)[j]
      BY <1>2, <2>4
    <3>4. CASE Cached(j)
      <4>1. /\ pageTable[j] \in FrameId /\ FrameOf(j) = frames[pageTable[j]]
            /\ FrameOf(j)' = Clean(frames[pageTable[j]]) /\ Cached(j)'
        BY <1>2, <1>3, <1>4, <2>4, <3>4 DEF FrameOf, Cached
      <4>2. PICK g \in FrameRecord : g = frames[pageTable[j]]
        BY <1>1, <4>1, FrameType
      <4>3. Clean(g).dirty = FALSE /\ Clean(g).bin = g.bin
        BY CleanIs
      <4>4. Written(fs)[j] = IF FrameOf(j).dirty THEN FrameOf(j).bin ELSE disk[j]
        BY <1>1, <1>3, <2>4, <3>4, WrittenIs DEF IInv, KeyOK
      <4>5. /\ FrameOf(j)'.bin = FrameOf(j).bin /\ ~ FrameOf(j)'.dirty
            /\ FrameOf(j).dirty => disk'[j] = FrameOf(j).bin
            /\ ~ FrameOf(j).dirty => disk'[j] = disk[j]
        BY <3>3, <4>1, <4>2, <4>3, <4>4, <3>4
      <4> QED BY <2>4, <3>1, <3>2, <3>4, <4>1, <4>5 DEF Page, Stale, Seen
    <3>5. CASE ~ Cached(j)
      <4>1. Written(fs)[j] = disk[j]
        BY <1>1, <1>3, <3>5, WrittenIs
      <4> QED BY <1>2, <2>4, <3>1, <3>3, <3>5, <4>1 DEF Page, Stale, Seen, Cached
    <3> QED BY <3>4, <3>5
  <2>5. CASE j[1] # m
    <3>1. Written(fs)[j] = disk[j]
      BY <1>1, <1>3, <2>5, WrittenIs
    <3>2. disk'[j] = disk[j] /\ (Cached(j) => frames'[pageTable[j]] = FrameOf(j))
      BY <1>2, <1>3, <1>4, <2>5, <3>1
    <3> QED BY <1>2, <2>2, <2>5, <3>2, PageKept
  <2> QED BY <2>3, <2>4, <2>5
<1>7. Pages' = [k \in Key |-> IF k[1] = m /\ k[2] >= n THEN None ELSE Pages[k]]
  BY <1>6 DEF Pages
<1>8. n \in 1..Cardinality(Key)
  BY <1>5, PagesCount
<1> QED BY <1>2, <1>7, <1>8 DEF Store!Shrink, Pages, Page

\* invalidate_all, truncate and allocate_page leave one page of zeros.
LEMMA ReinitRenews ==
  ASSUME IInv, NEW m \in Manager, Reinit(m) PROVE Store!Renew(m)
<1>1. /\ TypeOK
      /\ frames' = Dropped(FramesOf(m)) /\ pageTable' = Unlisted(m)
      /\ disk' = [k \in Key |-> IF k[1] = m THEN 0 ELSE disk[k]]
      /\ size' = [size EXCEPT ![m] = 1]
      /\ UNCHANGED <<state, pos, next, before>>
  BY DEF IInv, Reinit, trans
<1>2. /\ \A j \in Key : j[1] = m => pageTable'[j] = Absent
      /\ \A j \in Key : j[1] # m =>
           /\ pageTable'[j] = pageTable[j]
           /\ Cached(j) => frames'[pageTable[j]] = FrameOf(j)
  BY <1>1, FileLeaves
<1>3. ASSUME NEW j \in Key
      PROVE  Page(j)' = IF j[1] # m THEN Page(j) ELSE IF j[2] = 0 THEN 0 ELSE None
  <2>1. CASE j[1] = m
    <3>1. size'[j[1]] = 1 /\ ~ Cached(j)' /\ disk'[j] = 0
      BY <1>1, <1>2, <2>1 DEF TypeOK, Cached
    <3>2. j[2] \in Nat
      BY <2>1, KeyParts, PoolAssumption
    <3>3. j[2] >= 1 <=> j[2] # 0
      BY <3>2
    <3> QED BY <2>1, <3>1, <3>3 DEF Page, Stale, Seen
  <2>2. CASE j[1] # m
    <3>1. size'[j[1]] = size[j[1]] /\ disk'[j] = disk[j]
      BY <1>1, <2>2, KeyParts DEF TypeOK
    <3> QED BY <1>1, <1>2, <2>2, <3>1, PageKept
  <2> QED BY <2>1, <2>2
<1>4. Pages' = [k \in Key |-> IF k[1] # m THEN Pages[k] ELSE IF k[2] = 0 THEN 0 ELSE None]
  BY <1>3 DEF Pages
<1> QED BY <1>1, <1>4 DEF Store!Renew, Pages, Page

\* Pages of files that are closed leave the pool, and their files have them.
LEMMA CloseSettles ==
  ASSUME IInv, IInv', CloseAll \/ \E m \in Manager : CloseFile(m)
  PROVE  Store!Settle
<1>1. TypeOK /\ LogOK /\ \A f \in FrameId : FrameOK(f)
  BY DEF IInv
<1>2. CASE CloseAll
  <2> DEFINE fs == {f \in FrameId : frames[f].key # None /\ state[frames[f].key[1]] = "open"}
  <2>1. /\ Changing = {} /\ disk' = Written(fs) /\ pageTable' = [k \in Key |-> Absent]
        /\ UNCHANGED <<size, pos, next>>
    BY <1>2 DEF CloseAll, trans
  <2>2. ASSUME NEW j \in Key, Cached(j) PROVE pageTable[j] \in fs
    <3>1. FrameOf(j).key = j /\ state[j[1]] = "open" /\ j # None
      BY <2>2, NoneAssumption DEF IInv, KeyOK
    <3> QED BY <1>1, <2>2, <3>1, TableType
  <2>3. fs \in SUBSET FrameId
    OBVIOUS
  <2> HIDE DEF fs
  <2>4. ASSUME NEW j \in Key PROVE Page(j)' = Page(j) \/ Page(j) = Absent
    <3>1. Written(fs)[j] = IF Cached(j) /\ FrameOf(j).dirty THEN FrameOf(j).bin ELSE disk[j]
      BY <1>1, <2>2, <2>3, WrittenIs DEF IInv, KeyOK
    <3>2. before[j] = None
      BY <2>1 DEF Changing
    <3> QED BY <2>1, <3>1, <3>2, PageLeaves
  <2> QED BY <2>1, <2>4, Settles
<1>3. ASSUME NEW m \in Manager, CloseFile(m) PROVE Store!Settle
  <2>1. /\ Quiet(m) /\ disk' = IF state[m] = "open" THEN Written(FramesOf(m)) ELSE disk
        /\ frames' = Dropped(FramesOf(m)) /\ pageTable' = Unlisted(m)
        /\ state' = [state EXCEPT ![m] = "closed"]
        /\ UNCHANGED <<size, pos, next, before>>
    BY <1>3 DEF CloseFile, trans
  <2>2. \A h \in Manager : h # m => state'[h] = state[h]
    BY <1>1, <2>1 DEF TypeOK
  <2>3. /\ \A j \in Key : j[1] = m => pageTable'[j] = Absent
        /\ \A j \in Key : j[1] # m =>
             /\ pageTable'[j] = pageTable[j]
             /\ Cached(j) => frames'[pageTable[j]] = FrameOf(j)
    BY <2>1, <2>2, FileLeaves
  <2>4. /\ FramesOf(m) \in SUBSET FrameId
        /\ \A j \in Key : Cached(j) => (pageTable[j] \in FramesOf(m) <=> j[1] = m)
    BY FramesOfFile
  <2>5. ASSUME NEW j \in Key PROVE Page(j)' = Page(j) \/ Page(j) = Absent
    <3>1. Written(FramesOf(m))[j] = IF j[1] = m /\ Cached(j) /\ FrameOf(j).dirty
                                    THEN FrameOf(j).bin ELSE disk[j]
      BY <1>1, <2>4, WrittenIs DEF IInv, KeyOK
    <3>2. CASE j[1] = m
      <4>1. before[j] = None
        BY <2>1, <3>2 DEF Quiet, Changing
      <4>2. disk'[j] = IF Cached(j) /\ FrameOf(j).dirty THEN FrameOf(j).bin ELSE disk[j]
        BY <2>1, <3>1, <3>2 DEF IInv, KeyOK
      <4> QED BY <2>1, <2>3, <3>2, <4>1, <4>2, PageLeaves
    <3>3. CASE j[1] # m
      <4>1. disk'[j] = disk[j]
        BY <2>1, <3>1, <3>3
      <4> QED BY <2>1, <2>3, <3>3, <4>1, PageKept
    <3> QED BY <3>2, <3>3
  <2> QED BY <2>1, <2>5, Settles
<1> QED BY <1>2, <1>3

\* An earlier record is at an earlier place.
LEMMA UndoMoves ==
  ASSUME IInv, RestorePage
  PROVE  pos' # pos /\ pos \in DOMAIN log
<1>1. Len(log) \in Nat /\ pos \in 1..Len(log) /\ DOMAIN log = 1..Len(log)
  BY LenProperties DEF IInv, TypeOK, RestorePage
<1>2. Preceding(rolling, pos - 1) \in 0..(pos - 1)
  <2>1. pos - 1 \in Nat
    BY <1>1
  <2> QED BY <2>1, PrecedingIs
<1> QED BY <1>1, <1>2 DEF RestorePage

\* restore_page puts an image back at once, or for later when a frame has the page.
LEMMA RestoreUndoes ==
  ASSUME IInv, RestorePage
  PROVE  \E k \in Key : Store!Undo(k)
<1>1. /\ TypeOK /\ LogOK /\ pos' # pos /\ pos \in DOMAIN log
      /\ disk' = [disk EXCEPT ![log[pos].key] = log[pos].before]
      /\ UNCHANGED <<frames, pageTable, size, next, before>>
  BY UndoMoves DEF IInv, RestorePage, pool
<1>2. log[pos] \in LogRecord
  BY <1>1, ElementOfSeq DEF TypeOK
<1>3. PICK k \in Key : k = log[pos].key
  BY <1>2 DEF LogRecord
<1>4. disk'[k] \in Earlier /\ \A j \in Key : j # k => disk'[j] = disk[j]
  BY <1>1, <1>3 DEF TypeOK, LogOK
<1>5. ASSUME NEW j \in Key, j # k PROVE Page(j)' = Page(j)
  BY <1>1, <1>4, <1>5, PageKept DEF FrameOf
<1>6. Page(k)' \in 0..(next - 1) \cup {Absent, Page(k)}
  <2>1. CASE k[2] >= size[k[1]]
    BY <1>1, <2>1 DEF Page
  <2>2. CASE ~ (k[2] >= size[k[1]]) /\ Cached(k)
    <3>1. FrameOf(k).bin \in Earlier
      BY <2>2 DEF IInv, KeyOK
    <3>2. Page(k)' \in {Absent, FrameOf(k).bin}
      BY <1>1, <2>2 DEF Page, Stale, Seen, Cached, FrameOf
    <3> QED BY <3>1, <3>2 DEF Earlier
  <2>3. CASE ~ (k[2] >= size[k[1]]) /\ ~ Cached(k)
    BY <1>1, <1>4, <2>3 DEF Page, Stale, Seen, Cached, Earlier
  <2> QED BY <2>1, <2>2, <2>3
<1>7. Pages' = [Pages EXCEPT ![k] = Page(k)'] /\ Pages[k] = Page(k)
  BY <1>5 DEF Pages
<1>8. \E v \in 0..(next - 1) \cup {Absent, Pages[k]} : Pages' = [Pages EXCEPT ![k] = v]
  BY <1>6, <1>7
<1> QED BY <1>1, <1>8 DEF Store!Undo, Pages, Page

\* A rollback starts, or there is nothing to undo.
LEMMA RollbackStarts ==
  ASSUME IInv, RollsBack, Pages' = Pages, next' = next
  PROVE  Store!StartUndo \/ UNCHANGED <<Pages, next, pos>>
<1>1. TypeOK /\ pos = 0
  BY DEF IInv, LogOK, RollsBack
<1>2. Len(log) \in Nat
  BY <1>1, LenProperties DEF TypeOK
<1>3. pos' \in 0..Len(log)
  BY <1>2, PrecedingIs DEF RollsBack
<1>4. pos' # 0 => pos' \in Nat \ {0}
  BY <1>2, <1>3
<1> QED BY <1>1, <1>4 DEF Store!StartUndo, Pages, Page

LEMMA NextStore ==
  ASSUME IInv, IInv', [Next]_vars
  PROVE  [Store!Next]_<<Pages, next, pos>>
<1>1. CASE UNCHANGED vars
  BY <1>1 DEF vars, pool, files, trans, hist, Pages, Page, Stale, Seen, Cached, FrameOf
<1>2. ASSUME NEW k \in Key, FetchHit(k) \/ FetchMiss(k) \/ FetchRaises(k) \/ FetchKeyError(k) \/ Unpin(k)
      PROVE  Store!Next
  BY <1>2, PinSettles, FetchMissSettles, FetchRaisesSettles, FetchKeyErrorSettles DEF Store!Next
<1>3. ASSUME NEW k \in Key, Change(k) PROVE Store!Next
  BY <1>3, ChangeWrites DEF Store!Next
<1>4. ASSUME NEW k \in Key, MarkDirty(k) PROVE UNCHANGED <<Pages, next, pos>>
  BY <1>4, MarkKeeps DEF MarkDirty, trans
<1>5. ASSUME NEW k \in Key, MarkRaises(k) PROVE Store!Next \/ UNCHANGED <<Pages, next, pos>>
  BY <1>5, MarkKeeps, RollbackStarts DEF MarkRaises, Store!Next
<1>6. ASSUME NEW m \in Manager, Allocate(m) \/ Reinit(m) PROVE Store!Next
  BY <1>6, AllocateGrows, ReinitRenews DEF Store!Next
<1>7. ASSUME NEW m \in Manager, NEW n \in 1..MaxPages[m], Truncate(m, n) PROVE Store!Next
  <2>1. Store!Cardinality(Key) = Cardinality(Key)
    BY DEF Store!Cardinality, Cardinality
  <2> QED BY <1>7, <2>1, TruncateShrinks DEF Store!Next
<1>8. CASE CloseAll \/ \E m \in Manager : CloseFile(m)
  BY <1>8, CloseSettles DEF Store!Next
<1>9. CASE (\E t \in 1..MaxTxn : Begin(t)) \/ Commit \/ StartRollback \/ EndRollback
  <2>1. Pages' = Pages /\ next' = next
    BY <1>9 DEF Begin, Commit, StartRollback, EndRollback, pool, files, Pages, Page, Stale, Seen, Cached, FrameOf
  <2>2. CASE (\E t \in 1..MaxTxn : Begin(t)) \/ Commit \/ EndRollback
    BY <2>1, <2>2 DEF Begin, Commit, EndRollback
  <2>3. CASE StartRollback
    BY <2>1, <2>3, RollbackStarts DEF StartRollback, Store!Next
  <2> QED BY <1>9, <2>2, <2>3
<1>10. CASE RestorePage
  BY <1>10, RestoreUndoes DEF Store!Next
<1> QED BY <1>1, <1>2, <1>3, <1>4, <1>5, <1>6, <1>7, <1>8, <1>9, <1>10 DEF Next

LEMMA InitStore == Init => Store!Init
<1>1. SUFFICES ASSUME Init PROVE Store!Init
  OBVIOUS
<1>2. ASSUME NEW k \in Key PROVE Page(k) = 0
  <2>1. k[1] \in Manager /\ MaxPages[k[1]] \in Nat /\ k[2] \in 0..(MaxPages[k[1]] - 1)
    BY KeyParts, PoolAssumption
  <2>2. ~ (k[2] >= size[k[1]])
    BY <1>1, <2>1 DEF Init
  <2> QED BY <1>1, <2>2 DEF Init, Page, Stale, Seen, Cached
<1>3. Pages = [k \in Key |-> 0]
  BY <1>2 DEF Pages
<1> QED BY <1>1, <1>3 DEF Init, Store!Init, Pages, Page

-----------------------------------------------------------------------------
(* The theorems.                                                           *)

\* Frames, page table, files and log have their types, and only a frame with a
\* page is dirty or pinned.
THEOREM TypesHold == Spec => []TypeOK
BY Invariance, PTL DEF IInv

\* Frames, page_table and pins agree, whatever is fetched, evicted, truncated,
\* rebuilt or closed: no page is in two frames or taken from those who hold it, and
\* _find_victim gives up only when every frame is pinned.
THEOREM FramesAreSound == Spec => []FramesSound
BY Invariance, ImpliesFramesSound, PTL

\* mark_dirty logs the image from before the change, and no image that was made under
\* a transaction is in a file before the WAL has its record, with the exception of
\* pages whose logging failed.
THEOREM ImagesAreSound == Spec => []ImagesSound
BY Invariance, ImpliesImagesSound, PTL

\* The pool is transparent: nothing but a change, a rollback or the file's length
\* alters what a page contains, with any number of frames.
THEOREM PageStoreIsImplemented == Spec => ImplementsPageStore
<1>1. IInv /\ IInv' /\ [Next]_vars =>
        [Store!Next]_<<[k \in Key |-> IF k[2] >= size[k[1]] THEN None
                                     ELSE IF Stale(k) THEN Absent ELSE Seen(k)], next, pos>>
  BY NextStore DEF Pages, Page
<1> QED BY <1>1, InitStore, Invariance, PTL DEF Spec, ImplementsPageStore, Store!Spec
=============================================================================
