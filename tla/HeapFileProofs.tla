--------------------------- MODULE HeapFileProofs ---------------------------
(***************************************************************************)
(* Proofs about the heap file: its pages, its directory and the rows that  *)
(* fetch and scan find agree in every reachable state, and the file is the *)
(* store of rows RowStore describes, for any sizes of pages, directories   *)
(* and records, any number of pages and any sequence of operations and     *)
(* restarts that read the page count they wrote.                           *)
(***************************************************************************)
EXTENDS HeapFile, DataLemmas

-----------------------------------------------------------------------------
(* The inductive invariant.                                                *)

\* A slot in use holds a row, a dead one only the number of the next.
Slot == [at : Int, size : Nat, row : Value] \cup [at : Int, size : {0}]
Page == [slots : Seq(Slot), offset : Int, first : Int]
\* The numbers of the dead slots.
Dead(pg) == {s - 1 : s \in DOMAIN pg.slots \ Live(pg)}
\* Two records that do not overlap.
Apart(x, y) == x.at + x.size <= y.at \/ y.at + y.size <= x.at

\* The list of dead slots, up to and with the NoSlot at its end.
Links(pg, list) ==
  /\ list \in Seq(Int) /\ list # <<>> /\ IsInjective(list)
  /\ ToSet(list) = Dead(pg) \cup {NoSlot}
  /\ list[1] = pg.first /\ list[Len(list)] = NoSlot
  /\ \A i \in 1..(Len(list) - 1) : pg.slots[list[i] + 1].at = list[i + 1]

\* Live records are those of rows, lie between offset and the end, and do not overlap.
Records(pg) ==
  \A s \in Live(pg) :
    /\ pg.slots[s].row \in Value /\ pg.slots[s].size = Size[pg.slots[s].row]
    /\ pg.slots[s].at >= pg.offset /\ pg.slots[s].at + pg.slots[s].size <= PageCap
    /\ \A t \in Live(pg) \ {s} : Apart(pg.slots[s], pg.slots[t])

\* A page.  The records fit between offset and the end of the page: a
\* defragmentation never moves offset down.
PageOK(pg) ==
  /\ pg \in Page
  /\ Len(pg.slots) <= pg.offset /\ pg.offset <= Ends(pg.slots)[Len(pg.slots)]
  /\ Records(pg)
  /\ \E list \in Seq(Int) : Links(pg, list)

\* A directory page.
DirPage == [count : Nat, next : Nat, free : [0..(EntriesPerDir - 1) -> Int]]

\* The pages of a file, and the directory pages among them.
Pages(h) ==
  /\ h = [count |-> h.count, dirs |-> h.dirs, size |-> h.size, dir |-> h.dir, data |-> h.data]
  /\ h.count \in Nat /\ h.size \in Nat /\ h.dirs \in Seq(Nat) /\ h.dirs # <<>>
  /\ IsInjective(h.dirs) /\ h.dirs[1] = 0 /\ ToSet(h.dirs) = DOMAIN h.dir
  /\ h.dir \in [DOMAIN h.dir -> DirPage] /\ h.data = [p \in DOMAIN h.data |-> h.data[p]]
  /\ DOMAIN h.dir \cup DOMAIN h.data = 0..(h.size - 1) /\ DOMAIN h.dir \cap DOMAIN h.data = {}
  /\ Len(h.dirs) + h.count = h.size

\* The links of the directory pages, the count in the first, and an entry with the
\* free bytes of each data page.
Directory(h) ==
  /\ \A i \in DOMAIN h.dirs : h.dir[h.dirs[i]].next = IF i = Len(h.dirs) THEN NoDir ELSE h.dirs[i + 1]
  /\ h.dir[0].count = h.count
  /\ \A p \in 1..(h.size - 1) : DirAt(p) <= Len(h.dirs)
  /\ \A p \in DOMAIN h.data : FreeSpace(h, p) = FreeBytes(h.data[p])

\* A file that the operations may leave.
FileOK(h) == Pages(h) /\ Directory(h) /\ \A p \in DOMAIN h.data : PageOK(h.data[p])

\* The invariant: the file is one, rows is what fetch finds in it, and the bound holds.
IInv ==
  /\ FileOK(heap)
  /\ rows = Fetched(heap)
  /\ heap.size <= MaxPages \/ heap.size = 1
-----------------------------------------------------------------------------
(* Slots and where their records begin.                                    *)

\* What the type of a sequence of slots says of each slot.
LEMMA SlotFacts ==
  ASSUME NEW slots \in Seq(Slot)
  PROVE  /\ Len(slots) \in Nat /\ DOMAIN slots = 1..Len(slots)
         /\ \A s \in 1..Len(slots) : slots[s] \in Slot /\ slots[s].size \in Nat /\ slots[s].at \in Int
<1>1. \A s \in 1..Len(slots) : slots[s] \in Slot
  BY ElementOfSeq
<1>2. \A x \in Slot : x.size \in Nat /\ x.at \in Int
  BY DEF Slot
<1> QED BY <1>1, <1>2, LenProperties

\* Ends goes down from the end of the page by the size of each slot.
LEMMA EndsAre ==
  ASSUME NEW slots \in Seq(Slot)
  PROVE  /\ \A s \in 0..Len(slots) : Ends(slots)[s] \in Int
         /\ Ends(slots)[0] = PageCap
         /\ \A s \in 1..Len(slots) : Ends(slots)[s] = Ends(slots)[s - 1] - slots[s].size
<1> DEFINE n == Len(slots)
           g == [k \in 1..n |-> [x \in Int |-> x - slots[k].size]]
           Is(f) == f = [s \in 0..n |-> IF s = 0 THEN PageCap ELSE f[s - 1] - slots[s].size]
<1>0. n \in Nat /\ PageCap \in Int /\ \A k \in 1..n : slots[k].size \in Int
  BY SlotFacts, HeapAssumption
<1> HIDE DEF n
<1>1. PICK f \in [0..n -> Int] : Recurs(f, n, PageCap, g)
  <2> DEFINE T == Int
  <2>1. PageCap \in T /\ g \in Steps(n, T)
    BY <1>0 DEF Steps
  <2>2. \E f \in [0..n -> T] : Recurs(f, n, PageCap, g)
    <3> HIDE DEF g, T
    <3> QED BY <1>0, <2>1, RecursionExists
  <2> QED BY <2>2
<1>2. ASSUME NEW k \in 1..n PROVE f[k] = f[k - 1] - slots[k].size
  <2>1. f[k - 1] \in Int /\ f[k] = g[k][f[k - 1]]
    BY <1>0, <1>1, k - 1 \in 0..n DEF Recurs
  <2> QED BY <2>1
<1>3. Is(f)
  BY <1>1, <1>2 DEF Recurs
<1>4. Is(Ends(slots))
  <2>1. Ends(slots) = CHOOSE x : Is(x)
    BY DEF Ends, n
  <2> HIDE DEF Is
  <2> QED BY <1>3, <2>1
<1>5. \A s \in 0..n : Ends(slots)[s] = IF s = 0 THEN PageCap ELSE Ends(slots)[s - 1] - slots[s].size
  BY <1>4
<1> DEFINE S == {k \in 0..n : Ends(slots)[k] = f[k]}
<1>6. 0..n \subseteq S
  <2>1. 0 \in S
    BY <1>0, <1>1, <1>5 DEF Recurs
  <2>2. ASSUME NEW k \in 1..n, k - 1 \in S PROVE k \in S
    BY <1>2, <1>5, <2>2
  <2> HIDE DEF S
  <2> QED BY <1>0, <2>1, <2>2, BoundedInduction
<1>7. \A s \in 0..n : Ends(slots)[s] \in Int
  BY <1>6
<1>8. \A s \in 1..n : Ends(slots)[s] = Ends(slots)[s - 1] - slots[s].size
  BY <1>5
<1>9. Ends(slots)[0] = PageCap
  BY <1>0, <1>5
<1> QED BY <1>7, <1>8, <1>9 DEF n

\* Slots that agree in their sizes, but for one, begin where they did, but for the
\* difference of this one.
LEMMA EndsDiffer ==
  ASSUME NEW slots \in Seq(Slot), NEW new \in Seq(Slot),
         NEW n \in Nat, n <= Len(slots), n <= Len(new), NEW k \in 1..(n + 1),
         \A i \in 1..n : i # k => new[i].size = slots[i].size
  PROVE  \A i \in 0..n : Ends(new)[i] = Ends(slots)[i] + (IF i < k THEN 0 ELSE slots[k].size - new[k].size)
<1> DEFINE S == {i \in 0..n : Ends(new)[i] = Ends(slots)[i] + (IF i < k THEN 0 ELSE slots[k].size - new[k].size)}
<1>0. Len(slots) \in Nat /\ Len(new) \in Nat
  BY SlotFacts
<1>1. 0 \in S
  BY EndsAre, HeapAssumption
<1>2. ASSUME NEW i \in 1..n, i - 1 \in S PROVE i \in S
  <2>1. i \in 1..Len(slots) /\ i \in 1..Len(new) /\ i - 1 \in 0..Len(slots)
    BY <1>0
  <2>2. /\ Ends(new)[i] = Ends(new)[i - 1] - new[i].size
        /\ Ends(slots)[i] = Ends(slots)[i - 1] - slots[i].size
    BY <2>1, EndsAre
  <2>3. Ends(slots)[i - 1] \in Int /\ slots[i].size \in Int /\ new[i].size \in Int
    BY <2>1, EndsAre, SlotFacts
  <2>4. i < k \/ i = k \/ (i > k /\ k \in 1..Len(slots) /\ k \in 1..Len(new))
    BY <2>1, <1>0
  <2>5. i > k => slots[k].size \in Int /\ new[k].size \in Int
    BY <2>4, SlotFacts
  <2> QED BY <1>2, <2>2, <2>3, <2>4, <2>5, SMTT(30)
<1>3. 0..n \subseteq S
  <2> HIDE DEF S
  <2> QED BY <1>1, <1>2, BoundedInduction
<1> QED BY <1>3

\* A slot that is replaced moves the end of the records by the change of its size,
LEMMA EndsReplace ==
  ASSUME NEW slots \in Seq(Slot), NEW k \in 1..Len(slots), NEW x \in Slot, NEW new,
         new = [slots EXCEPT ![k] = x]
  PROVE  /\ new \in Seq(Slot) /\ Len(new) = Len(slots)
         /\ Ends(new)[Len(new)] = Ends(slots)[Len(slots)] + slots[k].size - x.size
<1>1. /\ new \in Seq(Slot) /\ Len(new) = Len(slots) /\ Len(slots) \in Nat
      /\ \A i \in 1..Len(slots) : new[i] = IF i = k THEN x ELSE slots[i]
  BY ExceptSeq, SlotFacts
<1>2. \A i \in 0..Len(slots) : Ends(new)[i] = Ends(slots)[i] + (IF i < k THEN 0 ELSE slots[k].size - new[k].size)
  <2>1. Len(slots) <= Len(new) /\ k \in 1..(Len(slots) + 1)
    BY <1>1
  <2>2. \A i \in 1..Len(slots) : i # k => new[i].size = slots[i].size
    BY <1>1
  <2> QED BY ONLY <1>1, <2>1, <2>2, EndsDiffer, slots \in Seq(Slot)
<1>3. Ends(slots)[Len(slots)] \in Int /\ slots[k].size \in Int /\ x.size \in Int
  BY <1>1, EndsAre, SlotFacts DEF Slot
<1>4. new[k] = x /\ Len(slots) \in 0..Len(slots) /\ ~ (Len(slots) < k)
  BY <1>1
<1>5. Ends(new)[Len(slots)] = Ends(slots)[Len(slots)] + (slots[k].size - x.size)
  BY ONLY <1>2, <1>4
<1> QED BY ONLY <1>1, <1>3, <1>5

\* and one that is appended by its size.
LEMMA EndsAppend ==
  ASSUME NEW slots \in Seq(Slot), NEW x \in Slot
  PROVE  /\ Append(slots, x) \in Seq(Slot) /\ Len(Append(slots, x)) = Len(slots) + 1
         /\ Ends(Append(slots, x))[Len(slots) + 1] = Ends(slots)[Len(slots)] - x.size
<1> DEFINE new == Append(slots, x)
<1>1. /\ new \in Seq(Slot) /\ Len(new) = Len(slots) + 1 /\ Len(slots) \in Nat
      /\ \A i \in 1..Len(slots) : new[i] = slots[i]
      /\ new[Len(slots) + 1] = x
  BY AppendProperties, SlotFacts
<1> HIDE DEF new
<1>2. Ends(new)[Len(slots)] = Ends(slots)[Len(slots)] + 0
  <2>1. \A i \in 0..Len(slots) : Ends(new)[i] = Ends(slots)[i]
           + (IF i < Len(slots) + 1 THEN 0 ELSE slots[Len(slots) + 1].size - new[Len(slots) + 1].size)
    BY <1>1, EndsDiffer, SMTT(30)
  <2> QED BY <2>1, <1>1
<1>3. Ends(new)[Len(slots) + 1] = Ends(new)[Len(slots)] - x.size
  BY <1>1, EndsAre
<1>4. Ends(slots)[Len(slots)] \in Int /\ x.size \in Int
  BY <1>1, EndsAre DEF Slot
<1> QED BY <1>1, <1>2, <1>3, <1>4 DEF new

\* Later slots begin lower.
LEMMA EndsFall ==
  ASSUME NEW slots \in Seq(Slot), NEW i \in 0..Len(slots), NEW j \in i..Len(slots)
  PROVE  Ends(slots)[j] <= Ends(slots)[i] /\ Ends(slots)[j] \in Int /\ Ends(slots)[i] \in Int
<1> DEFINE n == Len(slots)
           S == {k \in 0..n : k >= i => Ends(slots)[k] <= Ends(slots)[i]}
<1>0. n \in Nat /\ Ends(slots)[i] \in Int /\ Ends(slots)[j] \in Int
  BY EndsAre, SlotFacts
<1>1. 0 \in S
  BY <1>0
<1>2. ASSUME NEW k \in 1..n, k - 1 \in S PROVE k \in S
  <2>1. Ends(slots)[k] = Ends(slots)[k - 1] - slots[k].size /\ slots[k].size \in Nat
    BY EndsAre, SlotFacts
  <2>2. Ends(slots)[k - 1] \in Int /\ Ends(slots)[k] \in Int
    BY EndsAre, SlotFacts
  <2> QED BY <1>0, <1>2, <2>1, <2>2
<1>3. 0..n \subseteq S
  <2> HIDE DEF S
  <2> QED BY <1>0, <1>1, <1>2, BoundedInduction
<1> QED BY <1>0, <1>3

-----------------------------------------------------------------------------
(* What the operations do to a page.                                       *)

\* A record of a row is not empty, and fits a page with its slot.
LEMMA SizeIs ==
  ASSUME NEW v \in Value
  PROVE  Size[v] \in Nat /\ Size[v] >= 1 /\ Size[v] + 1 <= PageCap
<1>1. Size[v] \in 1..(PageCap - 1) /\ PageCap \in Nat
  BY HeapAssumption
<1> QED BY <1>1

\* What PageOK says of slots, offset and live records, unfolded once for all proofs.
LEMMA PageFacts ==
  ASSUME NEW pg, PageOK(pg)
  PROVE  /\ pg = [slots |-> pg.slots, offset |-> pg.offset, first |-> pg.first]
         /\ pg.slots \in Seq(Slot) /\ pg.offset \in Int /\ pg.first \in Int /\ pg \in Page
         /\ Len(pg.slots) \in Nat /\ DOMAIN pg.slots = 1..Len(pg.slots)
         /\ Len(pg.slots) <= pg.offset /\ pg.offset <= PageCap
         /\ Live(pg) \subseteq 1..Len(pg.slots)
         /\ \A s \in 1..Len(pg.slots) : /\ pg.slots[s] \in Slot
                                        /\ pg.slots[s].size \in Nat /\ pg.slots[s].at \in Int
                                        /\ s \in Live(pg) <=> pg.slots[s].size # 0
         /\ Dead(pg) = {s - 1 : s \in (1..Len(pg.slots)) \ Live(pg)}
<1>1. pg \in Page
  BY DEF PageOK
<1>2. /\ pg = [slots |-> pg.slots, offset |-> pg.offset, first |-> pg.first]
      /\ pg.slots \in Seq(Slot) /\ pg.offset \in Int /\ pg.first \in Int
  BY <1>1 DEF Page
<1>3. Len(pg.slots) \in Nat /\ DOMAIN pg.slots = 1..Len(pg.slots)
  BY <1>2, SlotFacts
<1>4. pg.offset <= PageCap
  <2>1. Ends(pg.slots)[Len(pg.slots)] <= Ends(pg.slots)[0] /\ Ends(pg.slots)[Len(pg.slots)] \in Int
    BY <1>2, <1>3, EndsFall
  <2>2. Ends(pg.slots)[0] = PageCap
    BY <1>2, EndsAre
  <2> QED BY <1>2, <2>1, <2>2, HeapAssumption DEF PageOK
<1>5. \A s \in 1..Len(pg.slots) : /\ pg.slots[s] \in Slot
                                  /\ pg.slots[s].size \in Nat /\ pg.slots[s].at \in Int
  BY <1>2, SlotFacts
<1>6. \A s \in 1..Len(pg.slots) : s \in Live(pg) <=> pg.slots[s].size # 0
  BY <1>3, <1>5 DEF Live
<1>7. Live(pg) \subseteq 1..Len(pg.slots)
  BY <1>3 DEF Live
<1>8. Len(pg.slots) <= pg.offset
  BY DEF PageOK
<1>9. Dead(pg) = {s - 1 : s \in (1..Len(pg.slots)) \ Live(pg)}
  BY <1>3 DEF Dead
<1> QED BY <1>1, <1>2, <1>3, <1>4, <1>5, <1>6, <1>7, <1>8, <1>9

\* A page whose live records are as they were, with the same dead slots.
LEMMA LinksKept ==
  ASSUME NEW pg, NEW q, NEW list, Links(pg, list),
         Dead(q) = Dead(pg), q.first = pg.first, NoSlot \notin Dead(pg),
         \A d \in Dead(pg) : q.slots[d + 1].at = pg.slots[d + 1].at
  PROVE  Links(q, list)
<1>1. list \in Seq(Int) /\ Len(list) \in Nat /\ DOMAIN list = 1..Len(list)
  BY LenProperties DEF Links
<1>2. ASSUME NEW i \in 1..(Len(list) - 1) PROVE q.slots[list[i] + 1].at = list[i + 1]
  <2>1. i \in DOMAIN list /\ Len(list) \in DOMAIN list /\ i # Len(list)
    <3> DEFINE n == Len(list)
    <3>1. n \in Nat /\ i \in 1..(n - 1) /\ DOMAIN list = 1..n
      BY <1>1
    <3> HIDE DEF n
    <3>2. i \in 1..n /\ n \in 1..n /\ i # n
      BY <3>1
    <3> QED BY <3>1, <3>2 DEF n
  <2>2. list[i] \in ToSet(list) /\ list[i] # list[Len(list)]
    BY <2>1, <1>1 DEF Links, IsInjective, ToSet
  <2>3. list[i] \in Dead(pg)
    BY <2>2 DEF Links
  <2> QED BY <2>3 DEF Links
<1> QED BY <1>2 DEF Links

\* The end of the list is not the number of a dead slot.
LEMMA DeadAreNat ==
  ASSUME NEW pg, PageOK(pg)
  PROVE  NoSlot \notin Dead(pg) /\ Dead(pg) \subseteq Nat
  BY PageFacts DEF NoSlot

\* defragment moves the live records and nothing else, and takes no room.
LEMMA DefragmentKeeps ==
  ASSUME NEW pg, PageOK(pg), NEW q, q = Defragmented(pg)
  PROVE  /\ PageOK(q) /\ Live(q) = Live(pg) /\ Len(q.slots) = Len(pg.slots)
         /\ \A s \in Live(pg) : q.slots[s].row = pg.slots[s].row
<1> DEFINE n == Len(pg.slots)
           end == Ends(pg.slots)
           new == [s \in 1..n |-> IF pg.slots[s].size = 0 THEN pg.slots[s] ELSE [pg.slots[s] EXCEPT !.at = end[s]]]
<1>1. /\ pg = [slots |-> pg.slots, offset |-> pg.offset, first |-> pg.first]
      /\ pg.slots \in Seq(Slot) /\ pg.offset \in Int /\ pg.first \in Int
      /\ n \in Nat /\ DOMAIN pg.slots = 1..n
  BY PageFacts
<1>2. q = [slots |-> new, offset |-> end[n], first |-> pg.first]
  BY <1>1 DEF Defragmented
<1>3. \A s \in 0..n : end[s] \in Int
  BY <1>1, EndsAre
<1>4. ASSUME NEW s \in 1..n
      PROVE  /\ new[s] \in Slot /\ new[s].size = pg.slots[s].size
             /\ s \notin Live(pg) => new[s] = pg.slots[s]
             /\ s \in Live(pg) => new[s].row = pg.slots[s].row /\ new[s].at = end[s]
  <2>1. pg.slots[s] \in Slot /\ (s \in Live(pg) <=> pg.slots[s].size # 0)
    BY PageFacts
  <2>2. CASE pg.slots[s].size = 0
    BY <2>1, <2>2
  <2>3. CASE pg.slots[s].size # 0
    <3>1. pg.slots[s] \in [at : Int, size : Nat, row : Value]
      BY <2>1, <2>3 DEF Slot
    <3>2. new[s] = [pg.slots[s] EXCEPT !.at = end[s]] /\ end[s] \in Int
      BY <1>3, <2>3
    <3> QED BY <2>1, <2>3, <3>1, <3>2 DEF Slot
  <2> QED BY <2>2, <2>3
<1>5. new \in Seq(Slot) /\ Len(new) = n /\ DOMAIN new = 1..n
  <2>1. new \in [1..n -> Slot]
    BY <1>4
  <2> HIDE DEF new
  <2>2. new \in Seq(Slot)
    BY <1>1, <2>1
  <2> QED BY <1>1, <2>1, <2>2, LenProperties
<1>6. q.slots = new /\ q.offset = end[n] /\ q.first = pg.first /\ q \in Page
  BY <1>1, <1>2, <1>3, <1>5 DEF Page
<1> HIDE DEF new
<1>7. Live(q) = Live(pg)
  BY <1>1, <1>4, <1>5, <1>6 DEF Live
<1>8. Ends(new)[n] = end[n]
  <2>1. n \in Nat /\ n <= Len(pg.slots) /\ n <= Len(new) /\ n + 1 \in 1..(n + 1)
    BY <1>1, <1>5
  <2>2. \A i \in 1..n : i # n + 1 => new[i].size = pg.slots[i].size
    BY <1>4
  <2>3. \A i \in 0..n : Ends(new)[i] = Ends(pg.slots)[i]
            + (IF i < n + 1 THEN 0 ELSE pg.slots[n + 1].size - new[n + 1].size)
    BY ONLY <1>1, <1>5, <2>1, <2>2, EndsDiffer
  <2> QED BY <2>3, <1>1, <1>3
<1>9. n <= end[n] /\ end[n] <= Ends(new)[n]
  <2>1. n <= pg.offset /\ pg.offset <= end[n]
    BY DEF PageOK
  <2> QED BY <1>1, <1>3, <1>8, <2>1
<1>10. Records(q)
  <2>1. ASSUME NEW s \in Live(q)
        PROVE  /\ q.slots[s].row \in Value /\ q.slots[s].size = Size[q.slots[s].row]
               /\ q.slots[s].at = end[s] /\ q.slots[s].at + q.slots[s].size = end[s - 1]
               /\ s \in 1..n
    <3>1. s \in 1..n /\ s \in Live(pg)
      BY <1>7, <2>1, PageFacts
    <3>2. pg.slots[s].row \in Value /\ pg.slots[s].size = Size[pg.slots[s].row]
      BY <3>1 DEF PageOK, Records
    <3>3. end[s] = end[s - 1] - pg.slots[s].size /\ end[s - 1] \in Int /\ pg.slots[s].size \in Nat
      BY <1>1, <3>1, EndsAre, PageFacts
    <3> QED BY <1>4, <1>6, <3>1, <3>2, <3>3
  <2>2. ASSUME NEW s \in Live(q)
        PROVE  q.slots[s].at >= q.offset /\ q.slots[s].at + q.slots[s].size <= PageCap
    <3>1. end[n] <= end[s]
      BY <1>1, <2>1, EndsFall
    <3>2. end[s - 1] <= end[0] /\ end[0] = PageCap
      BY <1>1, <2>1, EndsFall, EndsAre
    <3> QED BY <1>3, <1>1, <1>6, <2>1, <3>1, <3>2
  <2>3. ASSUME NEW s \in Live(q), NEW t \in Live(q) \ {s} PROVE Apart(q.slots[s], q.slots[t])
    <3>1. s < t \/ t < s
      BY <2>1
    <3>2. CASE s < t
      <4>1. end[t - 1] <= end[s]
        BY <1>1, <2>1, <3>2, EndsFall
      <4> QED BY <2>1, <4>1 DEF Apart
    <3>3. CASE t < s
      <4>1. end[s - 1] <= end[t]
        BY <1>1, <2>1, <3>3, EndsFall
      <4> QED BY <2>1, <4>1 DEF Apart
    <3> QED BY <3>1, <3>2, <3>3
  <2> QED BY <2>1, <2>2, <2>3 DEF Records
<1>11. \E list \in Seq(Int) : Links(q, list)
  <2>1. PICK list \in Seq(Int) : Links(pg, list)
    BY DEF PageOK
  <2>2. Dead(q) = Dead(pg)
    BY <1>1, <1>5, <1>6, <1>7 DEF Dead
  <2>3. \A d \in Dead(pg) : q.slots[d + 1].at = pg.slots[d + 1].at
    BY <1>4, <1>6, PageFacts
  <2> QED BY <1>6, <2>1, <2>2, <2>3, LinksKept, DeadAreNat
<1> QED BY <1>4, <1>5, <1>6, <1>7, <1>9, <1>10, <1>11, PageFacts DEF PageOK


\* A page with other slots, or other slots and another first.
LEMMA RecordExcept ==
  ASSUME NEW r, NEW q, NEW x, NEW y, r = [slots |-> r.slots, offset |-> r.offset, first |-> r.first]
  PROVE  /\ q = [r EXCEPT !.slots = x] => q = [slots |-> x, offset |-> r.offset, first |-> r.first]
         /\ q = [r EXCEPT !.slots = x, !.first = y] => q = [slots |-> x, offset |-> r.offset, first |-> y]
<1>1. ASSUME q = [r EXCEPT !.slots = x] PROVE q = [slots |-> x, offset |-> r.offset, first |-> r.first]
  BY <1>1
<1>2. ASSUME q = [r EXCEPT !.slots = x, !.first = y] PROVE q = [slots |-> x, offset |-> r.offset, first |-> y]
  BY <1>2
<1> QED BY <1>1, <1>2

\* A record below those that are there touches none of them.
LEMMA RecordsAdded ==
  ASSUME NEW pg, PageOK(pg), NEW v \in Value, NEW k, k \notin Live(pg), NEW q,
         Live(q) = Live(pg) \cup {k},
         q.slots[k] = [at |-> pg.offset - Size[v], size |-> Size[v], row |-> v],
         \A s \in Live(pg) : q.slots[s] = pg.slots[s],
         q.offset = pg.offset - Size[v]
  PROVE  Records(q)
<1>1. Size[v] \in Nat /\ PageCap \in Nat /\ pg.offset \in Int /\ pg.offset <= PageCap
  BY SizeIs, PageFacts, HeapAssumption
<1>2. ASSUME NEW s \in Live(pg)
      PROVE  /\ pg.slots[s].row \in Value /\ pg.slots[s].size = Size[pg.slots[s].row]
             /\ pg.slots[s].at >= pg.offset /\ pg.slots[s].at + pg.slots[s].size <= PageCap
             /\ pg.slots[s].at \in Int /\ pg.slots[s].size \in Nat
             /\ \A t \in Live(pg) \ {s} : Apart(pg.slots[s], pg.slots[t])
  BY PageFacts DEF PageOK, Records
<1>3. q.slots[k].at = pg.offset - Size[v] /\ q.slots[k].size = Size[v] /\ q.slots[k].row = v
  OBVIOUS
<1>4. ASSUME NEW s \in Live(q)
      PROVE  /\ q.slots[s].row \in Value /\ q.slots[s].size = Size[q.slots[s].row]
             /\ q.slots[s].at >= q.offset /\ q.slots[s].at + q.slots[s].size <= PageCap
  <2>1. CASE s = k
    BY <1>1, <1>3, <2>1
  <2>2. CASE s \in Live(pg)
    BY <1>1, <1>2, <2>2
  <2> QED BY <2>1, <2>2
<1>5. ASSUME NEW s \in Live(q), NEW t \in Live(q) \ {s} PROVE Apart(q.slots[s], q.slots[t])
  <2>1. CASE s = k
    <3>1. t \in Live(pg) /\ q.slots[t] = pg.slots[t] /\ pg.slots[t].at >= pg.offset /\ pg.slots[t].at \in Int
      BY <1>2, <2>1
    <3> QED BY <1>1, <1>3, <2>1, <3>1 DEF Apart
  <2>2. CASE t = k
    <3>1. s \in Live(pg) /\ q.slots[s] = pg.slots[s] /\ pg.slots[s].at >= pg.offset /\ pg.slots[s].at \in Int
      BY <1>2, <2>2
    <3> QED BY <1>1, <1>3, <2>2, <3>1 DEF Apart
  <2>3. CASE s # k /\ t # k
    <3>1. s \in Live(pg) /\ t \in Live(pg) \ {s}
      BY <2>3
    <3> QED BY <1>2, <3>1
  <2> QED BY <2>1, <2>2, <2>3
<1> QED BY <1>4, <1>5 DEF Records

\* The first dead slot is one, and the second link the at in it.
LEMMA FirstIsDead ==
  ASSUME NEW pg, PageOK(pg), pg.first # NoSlot, NEW list, Links(pg, list)
  PROVE  /\ pg.first + 1 \in 1..Len(pg.slots) /\ pg.first + 1 \notin Live(pg) /\ pg.first \in Nat
         /\ Len(list) \in Nat /\ Len(list) >= 2 /\ DOMAIN list = 1..Len(list)
         /\ pg.slots[pg.first + 1].at = list[2] /\ Head(list) = pg.first
<1>1. Len(list) \in Nat /\ DOMAIN list = 1..Len(list) /\ list \in Seq(Int) /\ list # <<>>
  BY LenProperties DEF Links
<1>2. Len(list) # 0
  BY <1>1, EmptySeq
<1>3. Len(list) # 1
  BY DEF Links
<1>4. 1 \in 1..Len(list) /\ 1 \in 1..(Len(list) - 1) /\ Len(list) >= 2
  BY <1>1, <1>2, <1>3
<1>5. pg.first \in ToSet(list)
  BY <1>1, <1>4 DEF Links, ToSet
<1>6. pg.first \in Dead(pg)
  BY <1>5 DEF Links
<1>7. PICK s \in (1..Len(pg.slots)) \ Live(pg) : pg.first = s - 1
  BY <1>6, PageFacts
<1>8. pg.first + 1 = s /\ pg.first \in Nat
  BY <1>7, PageFacts
<1>9. pg.slots[pg.first + 1].at = list[2]
  <2>1. pg.slots[list[1] + 1].at = list[1 + 1]
    BY <1>4 DEF Links
  <2> QED BY <2>1 DEF Links
<1>10. Head(list) = pg.first
  BY <1>1, HeadTailProperties DEF Links
<1> QED BY <1>1, <1>4, <1>7, <1>8, <1>9, <1>10

\* insert on a page with room: a record more, at a slot that was not live.
LEMMA InsertKeeps ==
  ASSUME NEW pg, PageOK(pg), NEW v \in Value, HasSpace(pg, Size[v]), NEW r, r = InsertedIn(pg, v)
  PROVE  /\ PageOK(r.page) /\ r.slot \in 0..PageCap /\ r.slot + 1 \notin Live(pg)
         /\ Live(r.page) = Live(pg) \cup {r.slot + 1}
         /\ r.page.slots[r.slot + 1].row = v
         /\ \A s \in Live(pg) : r.page.slots[s].row = pg.slots[s].row
<1> DEFINE n == Len(pg.slots)
           at == pg.offset - Size[v]
           slot == [at |-> at, size |-> Size[v], row |-> v]
           k == r.slot + 1
           q == r.page
<1>1. /\ pg = [slots |-> pg.slots, offset |-> pg.offset, first |-> pg.first]
      /\ pg.slots \in Seq(Slot) /\ pg.offset \in Int /\ pg.first \in Int
      /\ n \in Nat /\ DOMAIN pg.slots = 1..n
      /\ n <= pg.offset /\ pg.offset <= PageCap /\ PageCap \in Nat
  BY PageFacts, HeapAssumption
<1>2. Size[v] \in Nat /\ Size[v] >= 1
  BY SizeIs
<1>3. n + 1 <= at /\ at \in Int
  BY <1>1, <1>2 DEF HasSpace, FreeBytes
<1>4. slot \in Slot /\ slot.size = Size[v]
  BY <1>2, <1>3 DEF Slot
<1>5. Ends(pg.slots)[n] \in Int /\ pg.offset <= Ends(pg.slots)[n]
  BY <1>1, EndsAre DEF PageOK
<1>6. PICK list \in Seq(Int) : Links(pg, list)
  BY DEF PageOK
<1>7. r = LET full == [pg EXCEPT !.offset = at] IN
          IF pg.first # NoSlot THEN [page |-> Recycled(full, slot), slot |-> pg.first]
          ELSE [page |-> [full EXCEPT !.slots = Append(@, slot)], slot |-> n]
  BY DEF InsertedIn
<1> HIDE DEF at, slot, n
<1>8. CASE pg.first # NoSlot
  <2>1. /\ pg.first + 1 \in 1..n /\ pg.first + 1 \notin Live(pg) /\ pg.first \in Nat
        /\ Len(list) \in Nat /\ Len(list) >= 2 /\ DOMAIN list = 1..Len(list)
        /\ pg.slots[pg.first + 1].at = list[2] /\ Head(list) = pg.first
    BY <1>6, <1>8, FirstIsDead DEF n
  <2> DEFINE new == [pg.slots EXCEPT ![pg.first + 1] = slot]
  <2>2. r.slot = pg.first /\ q = [slots |-> new, offset |-> at, first |-> list[2]]
    <3>1. [pg EXCEPT !.offset = at] = [slots |-> pg.slots, offset |-> at, first |-> pg.first]
      BY <1>1
    <3>0. PICK full : full = [slots |-> pg.slots, offset |-> at, first |-> pg.first]
      OBVIOUS
    <3>2. full.slots = pg.slots /\ full.offset = at /\ full.first = pg.first
      BY <3>0
    <3>3. [full EXCEPT !.slots = new, !.first = list[2]] = [slots |-> new, offset |-> at, first |-> list[2]]
      <4> HIDE DEF new
      <4>1. PICK z : z = [full EXCEPT !.slots = new, !.first = list[2]]
        OBVIOUS
      <4>2. full = [slots |-> full.slots, offset |-> full.offset, first |-> full.first]
        BY <3>0, <3>2
      <4>3. z = [slots |-> new, offset |-> full.offset, first |-> list[2]]
        BY ONLY <4>1, <4>2, RecordExcept
      <4> QED BY <3>2, <4>1, <4>3
    <3>4. Recycled(full, slot) = [full EXCEPT !.slots = new, !.first = list[2]]
      BY <2>1, <3>2 DEF Recycled
    <3>5. r = [page |-> Recycled(full, slot), slot |-> pg.first]
      BY <1>7, <1>8, <3>0, <3>1
    <3> QED BY <3>3, <3>4, <3>5, <2>1, <1>8
  <2>3. /\ new \in Seq(Slot) /\ Len(new) = n /\ DOMAIN new = 1..n
        /\ Ends(new)[n] = Ends(pg.slots)[n] + pg.slots[k].size - Size[v]
    <3>1. /\ new \in Seq(Slot) /\ Len(new) = Len(pg.slots)
          /\ Ends(new)[Len(new)] = Ends(pg.slots)[Len(pg.slots)] + pg.slots[k].size - slot.size
      BY <1>1, <1>4, <2>1, <2>2, EndsReplace, SMTT(30) DEF n
    <3>2. DOMAIN new = 1..n
      BY <1>1
    <3> QED BY <1>4, <3>1, <3>2 DEF n
  <2>4. /\ new[k] = slot /\ k \in 1..n /\ k \notin Live(pg)
        /\ \A s \in 1..n : s # k => new[s] = pg.slots[s]
    BY <1>1, <2>1, <2>2
  <2> HIDE DEF new
  <2>5. q.slots = new /\ q.offset = at /\ q.first = list[2]
    BY <2>2
  <2>6. Live(q) = Live(pg) \cup {k}
    BY <1>1, <1>2, <1>4, <2>3, <2>4, <2>5 DEF Live, slot
  <2>7. Records(q)
    <3>1. q.slots[k] = [at |-> pg.offset - Size[v], size |-> Size[v], row |-> v]
      BY <2>4, <2>5 DEF slot, at
    <3>2. \A s \in Live(pg) : q.slots[s] = pg.slots[s]
      BY <2>4, <2>5, PageFacts DEF n
    <3> QED BY <2>4, <2>5, <2>6, <3>1, <3>2, RecordsAdded DEF at
  <2>8. Links(q, Tail(list))
    <3>1. list \in Seq(Int) /\ list # <<>> /\ IsInjective(list)
      BY <1>6 DEF Links
    <3>2. /\ Tail(list) \in Seq(Int) /\ IsInjective(Tail(list))
          /\ ToSet(Tail(list)) = ToSet(list) \ {pg.first}
      BY <2>1, <3>1, TailOfInjective
    <3>3. Len(Tail(list)) = Len(list) - 1 /\ \A i \in 1..(Len(list) - 1) : Tail(list)[i] = list[i + 1]
      BY <3>1, HeadTailProperties
    <3>4. Tail(list) # <<>>
      <4>1. Len(Tail(list)) # 0
        BY <2>1, <3>3
      <4> QED BY <3>2, <4>1, EmptySeq
    <3>5. Dead(q) = Dead(pg) \ {pg.first}
      BY <1>1, <2>1, <2>2, <2>3, <2>5, <2>6, SMTT(30) DEF Dead
    <3>6. ToSet(Tail(list)) = Dead(q) \cup {NoSlot}
      BY <1>8, <3>2, <3>5, <1>6 DEF Links
    <3>7. Tail(list)[1] = list[2] /\ Tail(list)[Len(Tail(list))] = NoSlot
      BY <2>1, <3>3, <1>6 DEF Links
    <3>8. ASSUME NEW i \in 1..(Len(Tail(list)) - 1)
          PROVE  q.slots[Tail(list)[i] + 1].at = Tail(list)[i + 1]
      <4>1. i + 1 \in 1..(Len(list) - 1) /\ i \in 1..(Len(list) - 1) /\ i + 1 \in DOMAIN list /\ 1 \in DOMAIN list
            /\ Len(list) \in DOMAIN list /\ i + 1 # Len(list) /\ i + 1 # 1
        <5>1. PICK m : m = Len(list)
          OBVIOUS
        <5>2. m \in Nat /\ m >= 2 /\ DOMAIN list = 1..m
          BY <2>1, <5>1
        <5>3. i \in 1..((m - 1) - 1)
          BY <3>3, <5>1
        <5>4. i \in Nat /\ i >= 1 /\ i <= m - 2
          BY ONLY <5>2, <5>3
        <5> QED BY ONLY <5>1, <5>2, <5>4
      <4>2. pg.slots[list[i + 1] + 1].at = list[(i + 1) + 1]
        BY <4>1, <1>6 DEF Links
      <4>3. list[i + 1] \in ToSet(list) /\ list[i + 1] # list[1] /\ list[i + 1] # list[Len(list)]
        BY <4>1, <3>1 DEF IsInjective, ToSet
      <4>4. list[i + 1] \in Dead(pg) /\ list[i + 1] # pg.first
        BY <4>3, <1>6 DEF Links
      <4>5. list[i + 1] + 1 \in 1..n /\ list[i + 1] + 1 # k
        <5>1. Dead(pg) = {s - 1 : s \in (1..n) \ Live(pg)}
          BY PageFacts DEF n
        <5>2. PICK s \in 1..n : list[i + 1] = s - 1
          BY <4>4, <5>1
        <5>3. list[i + 1] + 1 = s
          BY <1>1, <5>2
        <5> QED BY <1>1, <2>2, <4>4, <5>2, <5>3
      <4> QED BY <2>4, <2>5, <3>3, <4>1, <4>2, <4>5
    <3> QED BY <2>5, <3>2, <3>4, <3>6, <3>7, <3>8 DEF Links
  <2>9. PageOK(q)
    <3>1. list[2] \in Int
      BY <2>1, ElementOfSeq
    <3>2. q \in Page
      BY <1>3, <2>2, <2>3, <3>1 DEF Page
    <3>3. pg.slots[k].size = 0
      BY <2>4, PageFacts DEF n
    <3>4. n <= at /\ at <= Ends(new)[n]
      BY <1>1, <1>2, <1>3, <1>5, <2>3, <3>3 DEF at
    <3>5. Tail(list) \in Seq(Int)
      BY <2>8 DEF Links
    <3> QED BY <2>3, <2>5, <2>7, <2>8, <3>2, <3>4, <3>5 DEF PageOK
  <2>10. r.slot \in 0..PageCap
    BY <1>1, <2>1, <2>2
  <2>11. q.slots[k].row = v
    BY <2>4, <2>5 DEF slot
  <2>12. \A s \in Live(pg) : q.slots[s].row = pg.slots[s].row
    BY <2>4, <2>5, PageFacts DEF n
  <2> QED BY <2>4, <2>6, <2>9, <2>10, <2>11, <2>12
<1>9. CASE pg.first = NoSlot
  <2> DEFINE new == Append(pg.slots, slot)
  <2>1. r.slot = n /\ q = [slots |-> new, offset |-> at, first |-> pg.first]
    <3>0. PICK full : full = [slots |-> pg.slots, offset |-> at, first |-> pg.first]
      OBVIOUS
    <3>1. [pg EXCEPT !.offset = at] = full
      BY <1>1, <3>0
    <3>2. full.slots = pg.slots /\ full.offset = at /\ full.first = pg.first
      BY <3>0
    <3>3. [full EXCEPT !.slots = new] = [slots |-> new, offset |-> at, first |-> pg.first]
      <4> HIDE DEF new
      <4>1. PICK z : z = [full EXCEPT !.slots = new]
        OBVIOUS
      <4>2. full = [slots |-> full.slots, offset |-> full.offset, first |-> full.first]
        BY <3>0, <3>2
      <4>3. z = [slots |-> new, offset |-> full.offset, first |-> full.first]
        BY ONLY <4>1, <4>2, RecordExcept
      <4> QED BY <3>2, <4>1, <4>3
    <3>4. r = [page |-> [full EXCEPT !.slots = new], slot |-> n]
      BY <1>7, <1>9, <3>1, <3>2
    <3> QED BY <3>3, <3>4
  <2>2. /\ new \in Seq(Slot) /\ Len(new) = n + 1
        /\ Ends(new)[n + 1] = Ends(pg.slots)[n] - Size[v]
    BY <1>1, <1>4, EndsAppend DEF n
  <2>3. /\ new[k] = slot /\ k = n + 1 /\ k \notin Live(pg) /\ DOMAIN new = 1..(n + 1)
        /\ \A s \in 1..n : new[s] = pg.slots[s]
    <3>1. k \notin Live(pg)
      BY <1>1, <2>1, PageFacts DEF n
    <3> QED BY <1>1, <1>4, <2>1, <3>1, AppendProperties DEF n
  <2> HIDE DEF new
  <2>4. q.slots = new /\ q.offset = at /\ q.first = pg.first
    BY <2>1
  <2>5. Live(q) = Live(pg) \cup {k}
    BY <1>1, <1>2, <1>4, <2>2, <2>3, <2>4 DEF Live, slot
  <2>6. Records(q)
    <3>1. q.slots[k] = [at |-> pg.offset - Size[v], size |-> Size[v], row |-> v]
      BY <2>3, <2>4 DEF slot, at
    <3>2. \A s \in Live(pg) : q.slots[s] = pg.slots[s]
      BY <2>3, <2>4, PageFacts DEF n
    <3> QED BY <2>3, <2>4, <2>5, <3>1, <3>2, RecordsAdded DEF at
  <2>7. Links(q, list)
    <3>1. Dead(q) = Dead(pg)
      <4>1. (1..(n + 1)) \ Live(q) = (1..n) \ Live(pg)
        BY <1>1, <2>3, <2>5
      <4> QED BY <1>1, <2>3, <2>4, <4>1 DEF Dead
    <3>2. \A d \in Dead(pg) : q.slots[d + 1].at = pg.slots[d + 1].at
      BY <1>1, <2>3, <2>4, PageFacts DEF n
    <3> QED BY <1>6, <2>4, <3>1, <3>2, LinksKept, DeadAreNat
  <2>8. PageOK(q)
    <3>1. q \in Page
      BY <1>1, <1>3, <2>1, <2>2 DEF Page
    <3>2. n + 1 <= at /\ at <= Ends(new)[n + 1]
      BY <1>1, <1>2, <1>3, <1>5, <2>2 DEF at
    <3> QED BY <2>2, <2>4, <2>6, <2>7, <3>1, <3>2 DEF PageOK
  <2>9. r.slot \in 0..PageCap
    BY <1>1, <2>1
  <2>10. q.slots[k].row = v
    BY <2>3, <2>4 DEF slot
  <2>11. \A s \in Live(pg) : q.slots[s].row = pg.slots[s].row
    BY <2>3, <2>4, PageFacts DEF n
  <2> QED BY <2>3, <2>5, <2>8, <2>9, <2>10, <2>11
<1> QED BY <1>8, <1>9

\* delete_record: the slot is the first of the dead ones.
LEMMA DeleteKeeps ==
  ASSUME NEW pg, PageOK(pg), NEW s, s + 1 \in Live(pg), s \in Int, NEW q, q = DeletedIn(pg, s)
  PROVE  /\ PageOK(q) /\ Live(q) = Live(pg) \ {s + 1}
         /\ \A t \in Live(q) : q.slots[t].row = pg.slots[t].row
<1> DEFINE n == Len(pg.slots)
           k == s + 1
           dead == [at |-> pg.first, size |-> 0]
           new == [pg.slots EXCEPT ![k] = dead]
<1>1. /\ pg = [slots |-> pg.slots, offset |-> pg.offset, first |-> pg.first]
      /\ pg.slots \in Seq(Slot) /\ pg.offset \in Int /\ pg.first \in Int
      /\ n \in Nat /\ DOMAIN pg.slots = 1..n
      /\ n <= pg.offset /\ pg.offset <= PageCap /\ PageCap \in Nat
  BY PageFacts, HeapAssumption
<1>2. k \in 1..n /\ pg.slots[k].size \in Nat
  BY PageFacts
<1>3. dead \in Slot /\ dead.size = 0 /\ dead.at = pg.first
  BY <1>1 DEF Slot
<1> HIDE DEF dead
<1>4. q = [slots |-> new, offset |-> pg.offset, first |-> s]
  <2>1. q = [pg EXCEPT !.slots = new, !.first = s]
    BY DEF DeletedIn, dead
  <2> HIDE DEF new
  <2> QED BY ONLY <1>1, <2>1, RecordExcept
<1>5. /\ new \in Seq(Slot) /\ Len(new) = n /\ Ends(new)[n] = Ends(pg.slots)[n] + pg.slots[k].size
  <2>1. /\ new \in Seq(Slot) /\ Len(new) = Len(pg.slots)
        /\ Ends(new)[Len(new)] = Ends(pg.slots)[Len(pg.slots)] + pg.slots[k].size - dead.size
    BY <1>1, <1>2, <1>3, EndsReplace
  <2>2. Ends(pg.slots)[n] \in Int
    BY <1>1, EndsAre
  <2> QED BY <1>2, <1>3, <2>1, <2>2
<1>6. DOMAIN new = 1..n /\ new[k] = dead /\ \A t \in 1..n : t # k => new[t] = pg.slots[t]
  BY <1>1, <1>2
<1> HIDE DEF new
<1>7. q.slots = new /\ q.offset = pg.offset /\ q.first = s
  BY <1>4
<1>8. Live(q) = Live(pg) \ {k}
  BY <1>1, <1>2, <1>3, <1>6, <1>7 DEF Live
<1>9. \A t \in Live(q) : t \in Live(pg) /\ q.slots[t] = pg.slots[t]
  BY <1>6, <1>7, <1>8, PageFacts
<1>10. Records(q)
  BY <1>7, <1>8, <1>9 DEF PageOK, Records
<1>11. PICK list \in Seq(Int) : Links(pg, list)
  BY DEF PageOK
<1>12. Links(q, <<s>> \o list)
  <2> DEFINE all == <<s>> \o list
  <2>1. /\ list \in Seq(Int) /\ list # <<>> /\ IsInjective(list)
        /\ ToSet(list) = Dead(pg) \cup {NoSlot} /\ list[1] = pg.first /\ list[Len(list)] = NoSlot
    BY <1>11 DEF Links
  <2>2. Len(list) \in Nat /\ Len(list) >= 1 /\ DOMAIN list = 1..Len(list)
    BY <2>1, EmptySeq, LenProperties
  <2>3. Dead(pg) = {t - 1 : t \in (1..n) \ Live(pg)}
    BY PageFacts
  <2>4. s \notin Dead(pg) /\ s # NoSlot
    BY <1>1, <1>2, <2>3 DEF NoSlot
  <2>5. <<s>> \in Seq(Int) /\ IsInjective(<<s>>) /\ ToSet(<<s>>) = {s} /\ Len(<<s>>) = 1 /\ <<s>>[1] = s
    BY DEF IsInjective, ToSet
  <2>6. IsInjective(all)
    <3>1. ToSet(<<s>>) \cap ToSet(list) = {}
      BY <2>1, <2>4, <2>5
    <3> QED BY <2>1, <2>5, <3>1, ConcatOfInjective
  <2>7. all \in Seq(Int) /\ ToSet(all) = Dead(pg) \cup {s, NoSlot}
    <3>1. all \in Seq(Int) /\ ToSet(all) = ToSet(<<s>>) \cup ToSet(list)
      <4>1. PICK one : one = <<s>>
        OBVIOUS
      <4>2. one \in Seq(Int) /\ list \in Seq(Int)
        BY <2>1, <2>5, <4>1
      <4>3. one \o list \in Seq(Int) /\ ToSet(one \o list) = ToSet(one) \cup ToSet(list)
        BY ONLY <4>2, ElementsOfConcat
      <4> QED BY <4>1, <4>3
    <3> QED BY ONLY <2>1, <2>5, <3>1
  <2>8. Len(all) = Len(list) + 1 /\ all[1] = s /\ \A i \in 1..Len(list) : all[i + 1] = list[i]
    BY <2>1, <2>2, <2>5, ConcatProperties
  <2> HIDE DEF all
  <2>9. Dead(q) = Dead(pg) \cup {s}
    <3>1. (1..n) \ Live(q) = ((1..n) \ Live(pg)) \cup {k}
      BY <1>2, <1>8
    <3>2. Dead(q) = {t - 1 : t \in (1..n) \ Live(q)}
      BY <1>6, <1>7 DEF Dead
    <3>3. k - 1 = s
      OBVIOUS
    <3> QED BY ONLY <2>3, <3>1, <3>2, <3>3
  <2>10. all[Len(all)] = NoSlot /\ all # <<>>
    <3>1. Len(list) \in 1..Len(list) /\ Len(all) = Len(list) + 1
      BY <2>2, <2>8
    <3>2. Len(all) # 0
      BY <2>2, <3>1
    <3>3. all # <<>>
      BY <3>2, EmptySeq
    <3> QED BY <2>1, <2>8, <3>1, <3>3
  <2>11. ASSUME NEW i \in 1..(Len(all) - 1) PROVE q.slots[all[i] + 1].at = all[i + 1]
    <3>1. i \in 1..Len(list)
      BY <2>2, <2>8
    <3>2. CASE i = 1
      BY <1>3, <1>6, <1>7, <2>1, <2>8, <3>1, <3>2
    <3>3. CASE i # 1
      <4> DEFINE j == i - 1
      <4>1. j \in 1..(Len(list) - 1) /\ j \in DOMAIN list /\ Len(list) \in DOMAIN list /\ j # Len(list)
            /\ j + 1 = i /\ j \in 1..Len(list)
        BY <2>2, <3>1, <3>3
      <4> HIDE DEF j
      <4>2. all[i] = list[j] /\ all[i + 1] = list[i]
        BY <2>8, <3>1, <4>1
      <4>3. pg.slots[list[j] + 1].at = list[i]
        BY <1>11, <4>1 DEF Links
      <4>4. list[j] \in ToSet(list) /\ list[j] # list[Len(list)]
        BY <2>1, <4>1 DEF IsInjective, ToSet
      <4>5. list[j] \in Dead(pg)
        BY <2>1, <4>4
      <4>6. PICK t \in (1..n) \ Live(pg) : list[j] = t - 1
        BY <2>3, <4>5
      <4>7. list[j] + 1 \in 1..n /\ list[j] + 1 # k
        BY <1>1, <4>6, SMTT(30)
      <4> QED BY <1>6, <1>7, <4>2, <4>3, <4>7
    <3> QED BY <3>2, <3>3
  <2>12. ToSet(all) = Dead(q) \cup {NoSlot}
    BY <2>7, <2>9
  <2> QED BY <1>7, <2>6, <2>7, <2>8, <2>10, <2>11, <2>12 DEF Links, all
<1>13. PageOK(q)
  <2>1. q \in Page
    BY <1>1, <1>2, <1>4, <1>5 DEF Page
  <2>2. n <= pg.offset /\ pg.offset <= Ends(new)[n]
    <3>1. pg.offset <= Ends(pg.slots)[n] /\ Ends(pg.slots)[n] \in Int
      BY <1>1, EndsAre DEF PageOK
    <3> QED BY <1>1, <1>2, <1>5, <3>1
  <2>3. \E l \in Seq(Int) : Links(q, l)
    BY <1>12 DEF Links
  <2> QED BY <1>5, <1>7, <1>10, <2>1, <2>2, <2>3 DEF PageOK
<1> QED BY <1>8, <1>9, <1>13

\* update in place.
RowSet(pg, k, v) == [pg EXCEPT !.slots[k].row = v]

\* update in place: the row of one live slot is another of the same size.
LEMMA UpdateKeeps ==
  ASSUME NEW pg, PageOK(pg), NEW k \in Live(pg), NEW v \in Value, pg.slots[k].size = Size[v],
         NEW q, q = RowSet(pg, k, v)
  PROVE  /\ PageOK(q) /\ Live(q) = Live(pg) /\ Len(q.slots) = Len(pg.slots) /\ q.offset = pg.offset
         /\ \A t \in Live(pg) : q.slots[t].row = IF t = k THEN v ELSE pg.slots[t].row
<1> DEFINE n == Len(pg.slots)
           slot == [pg.slots[k] EXCEPT !.row = v]
           new == [pg.slots EXCEPT ![k] = slot]
<1>1. /\ pg = [slots |-> pg.slots, offset |-> pg.offset, first |-> pg.first]
      /\ pg.slots \in Seq(Slot) /\ pg.offset \in Int /\ pg.first \in Int
      /\ n \in Nat /\ DOMAIN pg.slots = 1..n
      /\ n <= pg.offset /\ pg.offset <= PageCap /\ PageCap \in Nat
  BY PageFacts, HeapAssumption
<1>2. k \in 1..n /\ pg.slots[k].size \in Nat /\ pg.slots[k].size # 0 /\ pg.slots[k] \in Slot
  BY PageFacts
<1>3. slot \in Slot /\ slot.size = pg.slots[k].size /\ slot.at = pg.slots[k].at /\ slot.row = v
  <2>1. pg.slots[k] \in [at : Int, size : Nat, row : Value]
    BY <1>2 DEF Slot
  <2> QED BY <2>1 DEF Slot
<1>4. q = [slots |-> new, offset |-> pg.offset, first |-> pg.first]
  <2>1. q = [pg EXCEPT !.slots = new]
    BY <1>1 DEF RowSet
  <2> HIDE DEF new
  <2> QED BY ONLY <1>1, <2>1, RecordExcept
<1> HIDE DEF slot
<1>5. new \in Seq(Slot) /\ Len(new) = n /\ Ends(new)[n] = Ends(pg.slots)[n]
  <2>1. /\ new \in Seq(Slot) /\ Len(new) = Len(pg.slots)
        /\ Ends(new)[Len(new)] = Ends(pg.slots)[Len(pg.slots)] + pg.slots[k].size - slot.size
    BY <1>1, <1>2, <1>3, EndsReplace
  <2>2. Ends(pg.slots)[n] \in Int
    BY <1>1, EndsAre
  <2> QED BY <1>2, <1>3, <2>1, <2>2
<1>6. DOMAIN new = 1..n /\ new[k] = slot /\ \A t \in 1..n : t # k => new[t] = pg.slots[t]
  BY <1>1, <1>2
<1> HIDE DEF new
<1>7. q.slots = new /\ q.offset = pg.offset /\ q.first = pg.first
  BY <1>4
<1>8. \A t \in 1..n : q.slots[t].size = pg.slots[t].size /\ q.slots[t].at = pg.slots[t].at
  BY <1>3, <1>6, <1>7
<1>9. Live(q) = Live(pg)
  BY <1>1, <1>6, <1>7, <1>8 DEF Live
<1>10. \A t \in Live(pg) : t \in 1..n /\ q.slots[t].row = IF t = k THEN v ELSE pg.slots[t].row
  BY <1>3, <1>6, <1>7, PageFacts
<1>11. Records(q)
  <2>1. ASSUME NEW t \in Live(q)
        PROVE  /\ q.slots[t].row \in Value /\ q.slots[t].size = Size[q.slots[t].row]
               /\ q.slots[t].at >= q.offset /\ q.slots[t].at + q.slots[t].size <= PageCap
               /\ \A u \in Live(q) \ {t} : Apart(q.slots[t], q.slots[u])
    <3>1. t \in Live(pg) /\ t \in 1..n
      BY <1>9, <1>10
    <3>2. /\ pg.slots[t].row \in Value /\ pg.slots[t].size = Size[pg.slots[t].row]
          /\ pg.slots[t].at >= pg.offset /\ pg.slots[t].at + pg.slots[t].size <= PageCap
          /\ \A u \in Live(pg) \ {t} : Apart(pg.slots[t], pg.slots[u])
      BY <3>1 DEF PageOK, Records
    <3>3. \A u \in Live(q) \ {t} : Apart(q.slots[t], q.slots[u])
      BY <1>8, <1>9, <1>10, <3>1, <3>2 DEF Apart
    <3> QED BY <1>7, <1>8, <1>10, <3>1, <3>2, <3>3
  <2> QED BY <2>1 DEF Records
<1>12. \E list \in Seq(Int) : Links(q, list)
  <2>1. PICK list \in Seq(Int) : Links(pg, list)
    BY DEF PageOK
  <2>2. Dead(q) = Dead(pg)
    BY <1>1, <1>6, <1>7, <1>9 DEF Dead
  <2>3. \A d \in Dead(pg) : q.slots[d + 1].at = pg.slots[d + 1].at
    <3>1. ASSUME NEW d \in Dead(pg) PROVE d + 1 \in 1..n
      <4>1. PICK t \in 1..n : d = t - 1
        BY <1>1 DEF Dead
      <4>2. d + 1 = t
        BY <1>1, <4>1
      <4> QED BY <4>2
    <3> QED BY <1>8, <3>1
  <2> QED BY <1>7, <2>1, <2>2, <2>3, LinksKept, DeadAreNat
<1>13. PageOK(q)
  <2>1. q \in Page
    BY <1>1, <1>4, <1>5 DEF Page
  <2> QED BY <1>5, <1>7, <1>11, <1>12, <2>1 DEF PageOK
<1> QED BY <1>5, <1>7, <1>9, <1>10, <1>13

-----------------------------------------------------------------------------
(* Links that are followed.                                                *)

\* Walk follows links that a sequence lists to the end of that sequence, and stays there.
LEMMA WalkIs ==
  ASSUME NEW link, NEW list \in Seq(Int), list # <<>>,
         \A i \in 1..(Len(list) - 1) : list[i] \in DOMAIN link /\ link[list[i]] = list[i + 1],
         list[Len(list)] \notin DOMAIN link,
         NEW start, start = list[1], NEW n \in Nat, Len(list) <= n + 1
  PROVE  Walk(link, start, n) = list
<1> DEFINE m == Len(list)
           upto(i) == IF i + 1 <= m THEN i + 1 ELSE m
           part(k) == [i \in 1..k |-> list[i]]
           f == [i \in 0..n |-> part(upto(i))]
           next(ids) == IF Last(ids) \in DOMAIN link THEN Append(ids, link[Last(ids)]) ELSE ids
           Is(g) == g = [i \in 0..n |-> IF i = 0 THEN <<start>> ELSE next(g[i - 1])]
<1>1. m \in Nat /\ m >= 1 /\ \A i \in 1..m : list[i] \in Int
  BY EmptySeq, LenProperties, ElementOfSeq
<1>2. ASSUME NEW k \in 1..m PROVE part(k) \in Seq(Int) /\ Len(part(k)) = k /\ Last(part(k)) = list[k]
  <2>1. part(k) \in [1..k -> Int] /\ k \in Nat
    BY <1>1
  <2>2. part(k) \in Seq(Int) /\ Len(part(k)) = k
    BY <2>1, LenProperties
  <2> QED BY <2>2 DEF Last
<1>3. \A i \in 0..n : upto(i) \in 1..m
  BY <1>1
<1>4. ASSUME NEW i \in 1..n PROVE part(upto(i)) = next(part(upto(i - 1)))
  <2> HIDE DEF m
  <2>1. i - 1 \in 0..n /\ i \in 0..n /\ i - 1 + 1 = i
    OBVIOUS
  <2>2. CASE i + 1 <= m
    <3>1. upto(i) = i + 1 /\ upto(i - 1) = i /\ i \in 1..m /\ i + 1 \in 1..m /\ i \in 1..(m - 1)
      BY <1>1, <2>2
    <3>2. Last(part(i)) = list[i] /\ list[i] \in DOMAIN link /\ link[list[i]] = list[i + 1]
      BY <1>2, <3>1 DEF m
    <3> HIDE DEF part, upto
    <3>3. next(part(i)) = Append(part(i), list[i + 1])
      BY <3>2
    <3>4. Append(part(i), list[i + 1]) = part(i + 1)
      <4>1. /\ part(i) \in Seq(Int) /\ Len(part(i)) = i
            /\ part(i + 1) \in Seq(Int) /\ Len(part(i + 1)) = i + 1 /\ list[i + 1] \in Int
        BY <1>1, <1>2, <3>1
      <4>2. /\ Append(part(i), list[i + 1]) \in Seq(Int) /\ Len(Append(part(i), list[i + 1])) = i + 1
            /\ \A j \in 1..i : Append(part(i), list[i + 1])[j] = part(i)[j]
            /\ Append(part(i), list[i + 1])[i + 1] = list[i + 1]
        BY <4>1, AppendProperties
      <4>3. \A j \in 1..(i + 1) : part(i + 1)[j] = IF j = i + 1 THEN list[i + 1] ELSE part(i)[j]
        BY DEF part
      <4>4. \A j \in 1..(i + 1) : Append(part(i), list[i + 1])[j] = part(i + 1)[j]
        BY <4>2, <4>3, SMTT(30)
      <4>5. PICK x : x = Append(part(i), list[i + 1])
        OBVIOUS
      <4>6. x \in Seq(Int) /\ Len(x) = i + 1 /\ \A j \in 1..(i + 1) : x[j] = part(i + 1)[j]
        BY <4>2, <4>4, <4>5
      <4>7. x = part(i + 1)
        BY ONLY <4>1, <4>6, SeqEqual
      <4> QED BY <4>5, <4>7
    <3> QED BY <3>1, <3>3, <3>4
  <2>3. CASE ~ (i + 1 <= m)
    <3>1. upto(i) = m /\ upto(i - 1) = m /\ m \in 1..m
      BY <1>1, <2>3
    <3>2. Last(part(m)) = list[m] /\ list[m] \notin DOMAIN link
      BY <1>2, <3>1 DEF m
    <3> HIDE DEF part, upto
    <3> QED BY <3>1, <3>2
  <2> QED BY <2>2, <2>3
<1>5. part(upto(0)) = <<start>>
  <2>1. upto(0) = 1 /\ 1 \in 1..m
    BY <1>1
  <2>2. part(1) = <<list[1]>>
    BY SeqEqual
  <2> HIDE DEF part, upto
  <2> QED BY <2>1, <2>2
<1> HIDE DEF part, upto, next
<1>6. Is(f)
  <2>1. \A i \in 1..n : i - 1 \in 0..n
    OBVIOUS
  <2> QED BY <1>4, <1>5, <2>1
<1> HIDE DEF f
<1> DEFINE ids == CHOOSE g : Is(g)
<1>7. Is(ids)
  <2> HIDE DEF Is
  <2> QED BY <1>6
<1>8. Walk(link, start, n) = ids[n]
  BY DEF Walk, next
<1> HIDE DEF ids
<1> DEFINE S == {i \in 0..n : ids[i] = f[i]}
<1>9. 0..n \subseteq S
  <2>1. 0 \in S
    BY <1>6, <1>7
  <2>2. ASSUME NEW i \in 1..n, i - 1 \in S PROVE i \in S
    <3>1. i \in 0..n /\ i # 0 /\ ids[i - 1] = f[i - 1]
      BY <2>2
    <3>2. ids[i] = next(ids[i - 1]) /\ f[i] = next(f[i - 1])
      BY <1>6, <1>7, <3>1
    <3> QED BY <3>1, <3>2
  <2> HIDE DEF S
  <2> QED BY <2>1, <2>2, BoundedInduction
<1>10. ids[n] = part(upto(n))
  BY <1>9, n \in 0..n DEF f
<1>11. upto(n) = m
  BY <1>1 DEF upto
<1>12. part(m) = list
  <2>1. m \in 1..m
    BY <1>1
  <2>2. part(m) \in Seq(Int) /\ Len(part(m)) = m /\ \A i \in 1..m : part(m)[i] = list[i]
    BY <1>2, <2>1 DEF part
  <2> QED BY <2>2, SeqEqual
<1> QED BY <1>8, <1>10, <1>11, <1>12

\* From the first dead slot on the list leads through each of them to its end.
LEMMA DeadAreListed ==
  ASSUME NEW pg, PageOK(pg), NEW walk,
         walk = Walk([s \in Dead(pg) |-> pg.slots[s + 1].at], pg.first, Len(pg.slots) + 1)
  PROVE  Range(walk) = Dead(pg) \cup {NoSlot} /\ Len(walk) = Cardinality(Dead(pg)) + 1
<1> DEFINE n == Len(pg.slots)
           link == [s \in Dead(pg) |-> pg.slots[s + 1].at]
<1>1. PICK list \in Seq(Int) : Links(pg, list)
  BY DEF PageOK
<1>2. /\ list # <<>> /\ IsInjective(list) /\ ToSet(list) = Dead(pg) \cup {NoSlot}
      /\ list[1] = pg.first /\ list[Len(list)] = NoSlot
  BY <1>1 DEF Links
<1>3. Len(list) \in Nat /\ DOMAIN list = 1..Len(list) /\ Cardinality(ToSet(list)) = Len(list)
      /\ IsFiniteSet(ToSet(list))
  BY <1>2, InjectiveCounts, LenProperties
<1>4. NoSlot \notin Dead(pg) /\ n \in Nat /\ Dead(pg) \subseteq 0..(n - 1)
  <2>1. n \in Nat /\ Dead(pg) = {s - 1 : s \in (1..n) \ Live(pg)}
    BY PageFacts
  <2> QED BY <2>1 DEF NoSlot
<1>5. IsFiniteSet(Dead(pg)) /\ Cardinality(Dead(pg)) \in Nat /\ Cardinality(Dead(pg)) <= n
  <2>1. IsFiniteSet(0..(n - 1)) /\ Cardinality(0..(n - 1)) = n
    <3>1. 0 \in Int /\ n - 1 \in Int /\ n - 1 - 0 + 1 = n /\ (0 > n - 1 => n = 0)
      BY <1>4
    <3> HIDE DEF n
    <3> QED BY ONLY <3>1, FS_Interval
  <2> QED BY <1>4, <2>1, FS_Subset, FS_CardinalityType
<1>6. Len(list) = Cardinality(Dead(pg)) + 1
  BY <1>2, <1>3, <1>4, <1>5, FS_AddElement
<1>7. ASSUME NEW i \in 1..(Len(list) - 1) PROVE list[i] \in DOMAIN link /\ link[list[i]] = list[i + 1]
  <2>1. list[i] \in Dead(pg)
    <3> DEFINE m == Len(list)
    <3>1. m \in Nat /\ i \in 1..(m - 1) /\ DOMAIN list = 1..m
      BY <1>3
    <3> HIDE DEF m
    <3>2. i \in 1..m /\ m \in 1..m /\ i # m
      BY <3>1
    <3>3. list[i] \in ToSet(list) /\ list[i] # list[m]
      BY <1>2, <3>1, <3>2 DEF IsInjective, ToSet
    <3> QED BY <1>2, <3>3 DEF m
  <2> QED BY <1>1, <2>1 DEF Links
<1>8. list[Len(list)] \notin DOMAIN link
  BY <1>2, <1>4
<1>9. walk = list
  <2>1. n + 1 \in Nat /\ Len(list) <= (n + 1) + 1
    BY <1>4, <1>5, <1>6
  <2> HIDE DEF link
  <2>2. Walk(link, pg.first, n + 1) = list
    BY <1>2, <1>7, <1>8, <2>1, WalkIs, SMTT(30)
  <2> QED BY <2>2 DEF link
<1>10. Range(list) = ToSet(list)
  BY DEF Range, ToSet
<1> QED BY <1>2, <1>6, <1>9, <1>10

\* A file that is opened again is as it was.
LEMMA OpenedSame ==
  ASSUME NEW h, Pages(h), Directory(h)
  PROVE  Opened(h) = h
<1> DEFINE n == Len(h.dirs)
           linked == {p \in DOMAIN h.dir : h.dir[p].next # NoDir}
           link == [p \in linked |-> h.dir[p].next]
<1>1. /\ h.dirs \in Seq(Int) /\ h.dirs # <<>> /\ h.dirs \in Seq(Nat)
      /\ IsInjective(h.dirs) /\ h.dirs[1] = 0 /\ ToSet(h.dirs) = DOMAIN h.dir
      /\ h = [count |-> h.count, dirs |-> h.dirs, size |-> h.size, dir |-> h.dir, data |-> h.data]
  <2>1. h.dirs \in Seq(Nat) /\ \A x \in Nat : x \in Int
    BY DEF Pages
  <2>2. h.dirs \in Seq(Int)
    BY <2>1
  <2> QED BY <2>1, <2>2 DEF Pages
<1>2. n \in Nat /\ n >= 1 /\ DOMAIN h.dirs = 1..n
  BY <1>1, EmptySeq, LenProperties
<1>3. \A i \in 1..n : h.dirs[i] \in DOMAIN h.dir
  BY <1>1, <1>2 DEF ToSet
<1> HIDE DEF n
<1>4. \A i \in 1..(n - 1) : h.dirs[i] \in DOMAIN link /\ link[h.dirs[i]] = h.dirs[i + 1]
  <2>1. ASSUME NEW i \in 1..(n - 1) PROVE h.dirs[i] \in linked /\ h.dir[h.dirs[i]].next = h.dirs[i + 1]
    <3>1. i \in 1..n /\ i + 1 \in 1..n /\ i # n /\ 1 \in 1..n /\ i + 1 # 1
      BY <1>2
    <3>2. h.dir[h.dirs[i]].next = h.dirs[i + 1]
      BY <1>2, <3>1 DEF Directory, n
    <3>3. h.dirs[i + 1] # h.dirs[1]
      BY <1>1, <1>2, <3>1 DEF IsInjective
    <3> QED BY <1>1, <1>3, <3>1, <3>2, <3>3 DEF NoDir
  <2> QED BY <2>1
<1>5. h.dirs[n] \notin DOMAIN link
  <2>1. n \in 1..n
    BY <1>2
  <2>2. h.dir[h.dirs[n]].next = NoDir
    BY <1>2, <2>1 DEF Directory, n
  <2> QED BY <2>2
<1>6. DirChain(h) = h.dirs
  <2>1. DirChain(h) = Walk(link, 0, n)
    BY DEF DirChain, n
  <2> HIDE DEF link
  <2> QED BY <1>1, <1>2, <1>4, <1>5, <2>1, WalkIs DEF n
<1>7. h.dir[0].count = h.count
  BY DEF Directory
<1> QED BY <1>1, <1>6, <1>7 DEF Opened

-----------------------------------------------------------------------------
(* The directory.                                                          *)

\* The numbers of directory pages and of entries in them.
LEMMA DivFacts ==
  ASSUME NEW a \in Nat
  PROVE  /\ a \div EntriesPerDir \in Nat /\ a % EntriesPerDir \in 0..(EntriesPerDir - 1)
         /\ (a + 1) \div EntriesPerDir <= a \div EntriesPerDir + 1
         /\ (a + 2) \div EntriesPerDir <= a \div EntriesPerDir + 1
         /\ 0 \div EntriesPerDir = 0 /\ 1 \div EntriesPerDir = 0
<1> DEFINE E == EntriesPerDir
<1>0. E \in Nat /\ E > 1
  BY HeapAssumption
<1> HIDE DEF E
<1>1. a \div E \in Nat /\ a % E \in 0..(E - 1)
  BY <1>0, SMTT(20)
<1>2. (a + 1) \div E <= a \div E + 1
  BY <1>0, SMTT(20)
<1>3. (a + 2) \div E <= a \div E + 1
  BY <1>0, SMTT(20)
<1>4. 0 \div E = 0 /\ 1 \div E = 0
  BY <1>0, SMTT(20)
<1> QED BY <1>1, <1>2, <1>3, <1>4 DEF E

\* Two data pages have different entries.
LEMMA EntriesDiffer ==
  ASSUME NEW p \in Int, NEW q \in Int, DirAt(p) = DirAt(q), EntryAt(p) = EntryAt(q)
  PROVE  p = q
<1> DEFINE E == EntriesPerDir
           a == p - 1
           b == q - 1
<1>0. E \in Nat /\ E > 1 /\ a \in Int /\ b \in Int
  BY HeapAssumption
<1>1. (a \div E) + 1 = (b \div E) + 1 /\ a % E = b % E
  BY DEF DirAt, EntryAt
<1> HIDE DEF E, a, b
<1>2. a \div E = b \div E
  BY <1>0, <1>1, SMTT(20)
<1>3. a = b
  BY <1>0, <1>1, <1>2, SMTT(20)
<1> QED BY <1>3 DEF a, b

\* Each page number after 0 has a directory page and an entry in it.
LEMMA PlaceIs ==
  ASSUME NEW p \in Nat, p >= 1
  PROVE  DirAt(p) \in Nat /\ DirAt(p) >= 1 /\ EntryAt(p) \in 0..(EntriesPerDir - 1)
<1>1. p - 1 \in Nat
  OBVIOUS
<1>2. (p - 1) \div EntriesPerDir \in Nat /\ (p - 1) % EntriesPerDir \in 0..(EntriesPerDir - 1)
  BY <1>1, DivFacts
<1> QED BY <1>2 DEF DirAt, EntryAt

\* What Pages says of the numbers of pages, unfolded once for all proofs.
LEMMA PagesFacts ==
  ASSUME NEW h, Pages(h)
  PROVE  /\ h.size \in Nat /\ h.count \in Nat /\ h.size >= 1
         /\ Len(h.dirs) \in Nat /\ Len(h.dirs) >= 1 /\ DOMAIN h.dirs = 1..Len(h.dirs)
         /\ \A i \in 1..Len(h.dirs) : h.dirs[i] \in DOMAIN h.dir
         /\ \A i, j \in 1..Len(h.dirs) : h.dirs[i] = h.dirs[j] => i = j
         /\ h.dirs[1] = 0 /\ 0 \in DOMAIN h.dir
         /\ DOMAIN h.data \subseteq 1..(h.size - 1) /\ DOMAIN h.dir \subseteq 0..(h.size - 1)
         /\ Range(h.dirs) = DOMAIN h.dir /\ NextPageId(h) = h.size
         /\ \A p \in Int : IsData(h, p) <=> p \in DOMAIN h.data
<1>1. /\ h.size \in Nat /\ h.count \in Nat /\ h.dirs \in Seq(Nat) /\ h.dirs # <<>>
      /\ IsInjective(h.dirs) /\ h.dirs[1] = 0 /\ ToSet(h.dirs) = DOMAIN h.dir
      /\ DOMAIN h.dir \cup DOMAIN h.data = 0..(h.size - 1) /\ DOMAIN h.dir \cap DOMAIN h.data = {}
      /\ Len(h.dirs) + h.count = h.size
  BY DEF Pages
<1>2. Len(h.dirs) \in Nat /\ Len(h.dirs) >= 1 /\ DOMAIN h.dirs = 1..Len(h.dirs)
  BY <1>1, EmptySeq, LenProperties
<1>3. \A i \in 1..Len(h.dirs) : h.dirs[i] \in DOMAIN h.dir
  BY <1>1, <1>2 DEF ToSet
<1>4. 0 \in DOMAIN h.dir
  BY <1>1, <1>2, <1>3, 1 \in 1..Len(h.dirs)
<1>5. \A i, j \in 1..Len(h.dirs) : h.dirs[i] = h.dirs[j] => i = j
  BY <1>1, <1>2 DEF IsInjective
<1>6. Range(h.dirs) = DOMAIN h.dir
  BY <1>1 DEF Range, ToSet
<1>7. NextPageId(h) = h.size /\ h.size >= 1
  BY <1>1, <1>2 DEF NextPageId
<1>8. DOMAIN h.data \subseteq 1..(h.size - 1) /\ DOMAIN h.dir \subseteq 0..(h.size - 1)
  BY <1>1, <1>4
<1>9. ASSUME NEW p \in Int PROVE IsData(h, p) <=> p \in DOMAIN h.data
  <2>1. IsData(h, p) <=> 1 <= p /\ p < h.size /\ p \notin DOMAIN h.dir
    BY <1>6, <1>7 DEF IsData
  <2> QED BY <1>1, <1>8, <2>1
<1> QED BY <1>1, <1>2, <1>3, <1>4, <1>5, <1>6, <1>7, <1>8, <1>9

\* _set_free: the entry of one page changes, and no other.
LEMMA SetFreeIs ==
  ASSUME NEW h, Pages(h), NEW p \in 1..(h.size - 1), DirAt(p) <= Len(h.dirs), NEW n \in Int,
         NEW g, g = SetFree(h, p, n)
  PROVE  /\ Pages(g)
         /\ g.count = h.count /\ g.dirs = h.dirs /\ g.size = h.size /\ g.data = h.data
         /\ \A d \in DOMAIN h.dir : g.dir[d].next = h.dir[d].next /\ g.dir[d].count = h.dir[d].count
         /\ \A q \in 1..(h.size - 1) :
              DirAt(q) <= Len(h.dirs) => FreeSpace(g, q) = IF q = p THEN n ELSE FreeSpace(h, q)
<1> DEFINE at == h.dirs[DirAt(p)]
           page == [h.dir[at] EXCEPT !.free = [@ EXCEPT ![EntryAt(p)] = n]]
           dir == [h.dir EXCEPT ![at] = page]
<1>1. /\ h = [count |-> h.count, dirs |-> h.dirs, size |-> h.size, dir |-> h.dir, data |-> h.data]
      /\ h.dir \in [DOMAIN h.dir -> DirPage]
  BY DEF Pages
<1>2. \A q \in 1..(h.size - 1) : /\ q \in Int /\ DirAt(q) \in Nat /\ DirAt(q) >= 1
                                 /\ EntryAt(q) \in 0..(EntriesPerDir - 1)
  BY PlaceIs, PagesFacts, SMTT(30)
<1>3. \A q \in 1..(h.size - 1) : DirAt(q) <= Len(h.dirs) =>
         DirAt(q) \in 1..Len(h.dirs) /\ h.dirs[DirAt(q)] \in DOMAIN h.dir
  BY <1>2, PagesFacts
<1>4. at \in DOMAIN h.dir /\ h.dir[at] \in DirPage
  BY <1>1, <1>3
<1>5. /\ page \in DirPage /\ page.next = h.dir[at].next /\ page.count = h.dir[at].count
      /\ \A e \in 0..(EntriesPerDir - 1) : page.free[e] = IF e = EntryAt(p) THEN n ELSE h.dir[at].free[e]
  BY <1>2, <1>4 DEF DirPage
<1>6. g = [h EXCEPT !.dir = dir]
  BY <1>1, <1>4 DEF SetFree
<1> HIDE DEF page
<1>7. /\ dir \in [DOMAIN h.dir -> DirPage]
      /\ \A d \in DOMAIN h.dir : dir[d] = IF d = at THEN page ELSE h.dir[d]
  BY <1>1, <1>4, <1>5
<1> HIDE DEF dir
<1>8. g = [count |-> h.count, dirs |-> h.dirs, size |-> h.size, dir |-> dir, data |-> h.data]
  BY <1>1, <1>6
<1>9. g.count = h.count /\ g.dirs = h.dirs /\ g.size = h.size /\ g.data = h.data /\ g.dir = dir
  BY <1>8
<1>10. Pages(g)
  <2>1. g = [count |-> g.count, dirs |-> g.dirs, size |-> g.size, dir |-> g.dir, data |-> g.data]
    BY <1>8, <1>9
  <2>2. DOMAIN g.dir = DOMAIN h.dir /\ g.dir \in [DOMAIN g.dir -> DirPage]
    BY <1>7, <1>9
  <2> QED BY <1>9, <2>1, <2>2 DEF Pages
<1>11. \A d \in DOMAIN h.dir : g.dir[d].next = h.dir[d].next /\ g.dir[d].count = h.dir[d].count
  BY <1>5, <1>7, <1>9
<1>12. ASSUME NEW q \in 1..(h.size - 1), DirAt(q) <= Len(h.dirs)
       PROVE  FreeSpace(g, q) = IF q = p THEN n ELSE FreeSpace(h, q)
  <2> DEFINE d == h.dirs[DirAt(q)]
  <2>1. d \in DOMAIN h.dir /\ DirAt(q) \in 1..Len(h.dirs) /\ EntryAt(q) \in 0..(EntriesPerDir - 1)
    BY <1>2, <1>3, <1>12
  <2>2. FreeSpace(g, q) = dir[d].free[EntryAt(q)] /\ FreeSpace(h, q) = h.dir[d].free[EntryAt(q)]
    BY <1>9 DEF FreeSpace
  <2>3. CASE d # at
    <3>1. q # p
      BY <2>3
    <3> QED BY <1>7, <2>1, <2>2, <2>3, <3>1
  <2>4. CASE d = at
    <3>1. DirAt(q) = DirAt(p)
      BY <1>3, <2>1, <2>4, PagesFacts
    <3>2. EntryAt(q) = EntryAt(p) <=> q = p
      BY <1>2, <3>1, EntriesDiffer
    <3>3. FreeSpace(g, q) = page.free[EntryAt(q)]
      BY <1>7, <2>1, <2>2, <2>4
    <3> QED BY <1>5, <2>1, <2>2, <2>4, <3>2, <3>3
  <2> QED BY <2>3, <2>4
<1> QED BY <1>9, <1>10, <1>11, <1>12

\* The free bytes of a page are a number.
LEMMA BytesAre ==
  ASSUME NEW pg, PageOK(pg)
  PROVE  FreeBytes(pg) \in Int
  BY PageFacts DEF FreeBytes

\* A page that is written with its free bytes.
LEMMA SyncedKeeps ==
  ASSUME NEW h, FileOK(h), NEW p \in DOMAIN h.data, NEW pg, PageOK(pg), NEW g, g = Synced(h, p, pg)
  PROVE  /\ FileOK(g) /\ g.size = h.size
         /\ DOMAIN g.data = DOMAIN h.data
         /\ \A q \in DOMAIN h.data : g.data[q] = IF q = p THEN pg ELSE h.data[q]
<1> DEFINE data == [h.data EXCEPT ![p] = pg]
<1>0. Pages(h) /\ Directory(h) /\ \A q \in DOMAIN h.data : PageOK(h.data[q])
  BY DEF FileOK
<1>1. /\ h = [count |-> h.count, dirs |-> h.dirs, size |-> h.size, dir |-> h.dir, data |-> h.data]
      /\ h.data = [q \in DOMAIN h.data |-> h.data[q]]
  BY <1>0 DEF Pages
<1>2. PICK k : k = [h EXCEPT !.data = data]
  OBVIOUS
<1>3. /\ DOMAIN data = DOMAIN h.data /\ data = [q \in DOMAIN data |-> data[q]]
      /\ \A q \in DOMAIN h.data : data[q] = IF q = p THEN pg ELSE h.data[q]
  BY <1>1
<1>4. g = SetFree(k, p, FreeBytes(pg))
  BY <1>1, <1>2 DEF Synced
<1> HIDE DEF data
<1>5. /\ k = [count |-> h.count, dirs |-> h.dirs, size |-> h.size, dir |-> h.dir, data |-> data]
      /\ k.count = h.count /\ k.dirs = h.dirs /\ k.size = h.size /\ k.dir = h.dir /\ k.data = data
  BY <1>1, <1>2
<1>6. Pages(k)
  BY <1>0, <1>3, <1>5 DEF Pages
<1>7. p \in 1..(k.size - 1) /\ DirAt(p) <= Len(k.dirs)
  BY <1>0, <1>5, PagesFacts DEF Directory
<1>8. /\ Pages(g)
      /\ g.count = h.count /\ g.dirs = h.dirs /\ g.size = h.size /\ g.data = data
      /\ \A d \in DOMAIN h.dir : g.dir[d].next = h.dir[d].next /\ g.dir[d].count = h.dir[d].count
      /\ \A q \in 1..(h.size - 1) :
           DirAt(q) <= Len(h.dirs) => FreeSpace(g, q) = IF q = p THEN FreeBytes(pg) ELSE FreeSpace(k, q)
  BY <1>4, <1>5, <1>6, <1>7, BytesAre, SetFreeIs
<1>9. \A q \in 1..(h.size - 1) : FreeSpace(k, q) = FreeSpace(h, q)
  BY <1>5 DEF FreeSpace
<1>10. Directory(g)
  <2>1. ASSUME NEW i \in DOMAIN g.dirs
        PROVE  g.dir[g.dirs[i]].next = IF i = Len(g.dirs) THEN NoDir ELSE g.dirs[i + 1]
    <3>1. i \in DOMAIN h.dirs /\ h.dirs[i] \in DOMAIN h.dir
      BY <1>0, <1>8, PagesFacts
    <3> QED BY <1>0, <1>8, <3>1 DEF Directory
  <2>2. g.dir[0].count = g.count
    BY <1>0, <1>8, PagesFacts DEF Directory
  <2>3. \A q \in 1..(g.size - 1) : DirAt(q) <= Len(g.dirs)
    BY <1>0, <1>8 DEF Directory
  <2>4. ASSUME NEW q \in DOMAIN g.data PROVE FreeSpace(g, q) = FreeBytes(g.data[q])
    <3>1. q \in DOMAIN h.data /\ q \in 1..(h.size - 1) /\ DirAt(q) <= Len(h.dirs)
      BY <1>0, <1>3, <1>8, PagesFacts DEF Directory
    <3>2. FreeSpace(h, q) = FreeBytes(h.data[q])
      BY <1>0, <3>1 DEF Directory
    <3> QED BY <1>3, <1>8, <1>9, <3>1, <3>2
  <2> QED BY <2>1, <2>2, <2>3, <2>4 DEF Directory
<1>11. \A q \in DOMAIN g.data : PageOK(g.data[q])
  BY <1>0, <1>3, <1>8
<1> QED BY <1>3, <1>8, <1>10, <1>11 DEF FileOK

\* _add_dir_page: the new page is last in the list and has no entries.
LEMMA DirPageKeeps ==
  ASSUME NEW h, FileOK(h), NEW g, g = WithDirPage(h)
  PROVE  /\ FileOK(g) /\ g.size = h.size + 1 /\ g.data = h.data
         /\ Len(g.dirs) = Len(h.dirs) + 1
<1> DEFINE p == h.size
           n == Len(h.dirs)
           last == h.dirs[n]
           tail == [h.dir[last] EXCEPT !.next = p]
           linked == [h.dir EXCEPT ![last] = tail]
           dir == [d \in DOMAIN h.dir \cup {p} |-> IF d = p THEN NewDir ELSE linked[d]]
           dirs == Append(h.dirs, p)
<1>0. Pages(h) /\ Directory(h) /\ \A q \in DOMAIN h.data : PageOK(h.data[q])
  BY DEF FileOK
<1>1. /\ h = [count |-> h.count, dirs |-> h.dirs, size |-> h.size, dir |-> h.dir, data |-> h.data]
      /\ h.dir \in [DOMAIN h.dir -> DirPage] /\ h.dirs \in Seq(Nat) /\ IsInjective(h.dirs)
      /\ h.dirs[1] = 0 /\ ToSet(h.dirs) = DOMAIN h.dir
      /\ h.data = [q \in DOMAIN h.data |-> h.data[q]]
      /\ DOMAIN h.dir \cup DOMAIN h.data = 0..(h.size - 1) /\ DOMAIN h.dir \cap DOMAIN h.data = {}
      /\ n + h.count = h.size
  BY <1>0 DEF Pages
<1>2. /\ p \in Nat /\ h.count \in Nat /\ n \in Nat /\ n >= 1 /\ DOMAIN h.dirs = 1..n
      /\ \A i \in 1..n : h.dirs[i] \in DOMAIN h.dir
      /\ \A i, j \in 1..n : h.dirs[i] = h.dirs[j] => i = j
      /\ p \notin DOMAIN h.dir /\ p \notin DOMAIN h.data /\ 0 \in DOMAIN h.dir /\ p >= 1
      /\ NextPageId(h) = p
  BY <1>0, PagesFacts
<1>3. last \in DOMAIN h.dir /\ h.dir[last] \in DirPage
  BY <1>1, <1>2
<1>4. tail \in DirPage /\ tail.next = p /\ tail.count = h.dir[last].count /\ tail.free = h.dir[last].free
  BY <1>2, <1>3 DEF DirPage
<1>5. NewDir \in DirPage /\ NewDir.next = NoDir
  BY DEF NewDir, DirPage, NoDir
<1>6. g = [count |-> h.count, dirs |-> dirs, size |-> h.size + 1, dir |-> dir, data |-> h.data]
  <2>1. linked = [h.dir EXCEPT ![last].next = NextPageId(h)] /\ DOMAIN linked = DOMAIN h.dir
    BY <1>1, <1>2, <1>3
  <2>2. g = [h EXCEPT !.size = h.size + 1, !.dirs = dirs, !.dir = dir]
    BY <2>1 DEF WithDirPage
  <2> HIDE DEF dirs, dir
  <2> QED BY ONLY <1>1, <2>2
<1> HIDE DEF tail
<1>7. /\ DOMAIN dir = DOMAIN h.dir \cup {p} /\ dir \in [DOMAIN dir -> DirPage]
      /\ dir[p] = NewDir
      /\ \A d \in DOMAIN h.dir : dir[d] = IF d = last THEN tail ELSE h.dir[d]
  BY <1>1, <1>2, <1>3, <1>4, <1>5
<1>8. /\ dirs \in Seq(Nat) /\ dirs # <<>> /\ IsInjective(dirs) /\ ToSet(dirs) = DOMAIN dir /\ Len(dirs) = n + 1
      /\ dirs[n + 1] = p /\ \A i \in 1..n : dirs[i] = h.dirs[i]
  <2>1. dirs \in Seq(Nat) /\ IsInjective(dirs) /\ ToSet(dirs) = ToSet(h.dirs) \cup {p}
    BY <1>1, <1>2, AppendToInjective
  <2>2. /\ Len(dirs) = n + 1 /\ dirs[n + 1] = p /\ \A i \in 1..n : dirs[i] = h.dirs[i]
    BY <1>1, <1>2, AppendProperties
  <2>3. Len(dirs) # 0
    BY <1>2, <2>2
  <2>4. dirs # <<>>
    <3> HIDE DEF dirs
    <3> QED BY <2>3, EmptySeq
  <2> HIDE DEF dirs, dir
  <2> QED BY <1>1, <1>7, <2>1, <2>2, <2>4
<1> HIDE DEF dir, dirs, linked, last, n
<1>9. g.count = h.count /\ g.dirs = dirs /\ g.size = h.size + 1 /\ g.dir = dir /\ g.data = h.data
  BY <1>6
<1>10. Pages(g)
  <2>1. g = [count |-> g.count, dirs |-> g.dirs, size |-> g.size, dir |-> g.dir, data |-> g.data]
    BY <1>6, <1>9
  <2>2. DOMAIN g.dir \cup DOMAIN g.data = 0..(g.size - 1) /\ DOMAIN g.dir \cap DOMAIN g.data = {}
    <3>1. 0..(g.size - 1) = 0..(h.size - 1) \cup {p}
      BY <1>2, <1>9
    <3>2. /\ DOMAIN h.dir \cup DOMAIN h.data = 0..(h.size - 1) /\ DOMAIN h.dir \cap DOMAIN h.data = {}
          /\ p \notin DOMAIN h.data
      BY <1>1, <1>2
    <3>3. DOMAIN g.dir = DOMAIN h.dir \cup {p} /\ DOMAIN g.data = DOMAIN h.data
      BY <1>7, <1>9
    <3> QED BY ONLY <3>1, <3>2, <3>3
  <2>3. Len(g.dirs) + g.count = g.size /\ g.size \in Nat
    <3>1. /\ n + h.count = p /\ n \in Nat /\ h.count \in Nat
          /\ Len(g.dirs) = n + 1 /\ g.size = p + 1 /\ g.count = h.count
      BY <1>1, <1>2, <1>8, <1>9
    <3> QED BY ONLY <3>1
  <2>4. g.dirs[1] = 0
    <3>1. 1 \in 1..n
      BY <1>2
    <3> QED BY <1>1, <1>8, <1>9, <3>1
  <2> QED BY <1>1, <1>2, <1>7, <1>8, <1>9, <2>1, <2>2, <2>3, <2>4 DEF Pages
<1>11. \A q \in 1..p : DirAt(q) <= n + 1
  <2>1. \A q \in 1..(p - 1) : DirAt(q) <= n
    BY <1>0 DEF Directory, n
  <2>2. DirAt(p) <= n + 1
    <3>1. CASE p = 1
      BY <1>2, <3>1, DivFacts DEF DirAt
    <3>2. CASE p # 1
      <4>1. p - 1 \in 1..(p - 1) /\ p - 1 - 1 \in Nat /\ p - 1 - 1 + 1 = p - 1
        BY <1>2, <3>2
      <4>2. /\ (p - 1) \div EntriesPerDir <= (p - 1 - 1) \div EntriesPerDir + 1
            /\ (p - 1) \div EntriesPerDir \in Nat /\ (p - 1 - 1) \div EntriesPerDir \in Nat
        BY <4>1, DivFacts, p - 1 \in Nat
      <4>3. ((p - 1 - 1) \div EntriesPerDir) + 1 <= n
        BY <2>1, <4>1 DEF DirAt
      <4> QED BY <1>2, <4>2, <4>3 DEF DirAt
    <3> QED BY <3>1, <3>2
  <2>3. ASSUME NEW q \in 1..p, q # p PROVE DirAt(q) <= n + 1
    <3>1. q \in 1..(p - 1) /\ q \in Nat /\ q >= 1
      BY <1>2, <2>3
    <3>2. DirAt(q) <= n /\ DirAt(q) \in Nat
      BY <2>1, <3>1, PlaceIs
    <3> QED BY <1>2, <3>2
  <2> QED BY <2>2, <2>3
<1>12. Directory(g)
  <2>1. ASSUME NEW i \in DOMAIN g.dirs
        PROVE  g.dir[g.dirs[i]].next = IF i = Len(g.dirs) THEN NoDir ELSE g.dirs[i + 1]
    <3>1. i \in 1..(n + 1)
      BY <1>8, <1>9, LenProperties
    <3>2. CASE i = n + 1
      BY <1>5, <1>7, <1>8, <1>9, <3>2
    <3>3. CASE i = n
      <4>1. dirs[i] = last /\ i \in 1..n /\ i # n + 1 /\ dirs[i + 1] = p
        BY <1>2, <1>8, <3>3 DEF last
      <4> QED BY <1>3, <1>4, <1>7, <1>8, <1>9, <4>1
    <3>4. CASE i \in 1..(n - 1)
      <4>1. i \in 1..n /\ i + 1 \in 1..n /\ i # n /\ n \in 1..n /\ i # n + 1
        BY <1>2, <3>4
      <4>2. h.dirs[i] # last /\ h.dirs[i] \in DOMAIN h.dir
        BY <1>2, <4>1 DEF last
      <4>3. h.dir[h.dirs[i]].next = h.dirs[i + 1]
        BY <1>0, <1>2, <4>1 DEF Directory, n
      <4> QED BY <1>7, <1>8, <1>9, <4>1, <4>2, <4>3
    <3> QED BY <1>2, <3>1, <3>2, <3>3, <3>4
  <2>2. g.dir[0].count = g.count
    <3>1. h.dir[0].count = h.count
      BY <1>0 DEF Directory
    <3> QED BY <1>2, <1>4, <1>7, <1>9, <3>1
  <2>3. \A q \in 1..(g.size - 1) : DirAt(q) <= Len(g.dirs)
    BY <1>2, <1>8, <1>9, <1>11
  <2>4. ASSUME NEW q \in DOMAIN g.data PROVE FreeSpace(g, q) = FreeBytes(g.data[q])
    <3>1. q \in DOMAIN h.data /\ q \in 1..(h.size - 1) /\ q \in Nat /\ q >= 1
      BY <1>0, <1>9, PagesFacts
    <3>2. DirAt(q) <= n /\ DirAt(q) >= 1 /\ DirAt(q) \in Nat
      BY <1>0, <3>1, PlaceIs DEF Directory, n
    <3>3. DirAt(q) \in 1..n
      BY <1>2, <3>2
    <3>4. dir[h.dirs[DirAt(q)]].free = h.dir[h.dirs[DirAt(q)]].free
      BY <1>2, <1>4, <1>7, <3>3
    <3>5. FreeSpace(g, q) = FreeSpace(h, q)
      BY <1>8, <1>9, <3>3, <3>4 DEF FreeSpace
    <3>6. FreeSpace(h, q) = FreeBytes(h.data[q])
      BY <1>0, <3>1 DEF Directory
    <3> QED BY <1>9, <3>5, <3>6
  <2> QED BY <2>1, <2>2, <2>3, <2>4 DEF Directory
<1> QED BY <1>0, <1>8, <1>9, <1>10, <1>12 DEF FileOK, n

\* reset: a page without slots, all of it free.
LEMMA ResetIsPage == PageOK(ResetPage) /\ Live(ResetPage) = {} /\ FreeBytes(ResetPage) = PageCap
<1> DEFINE pg == ResetPage
           list == <<NoSlot>>
<1>0. PageCap \in Nat
  BY HeapAssumption
<1>1. pg.slots = <<>> /\ pg.offset = PageCap /\ pg.first = NoSlot /\ pg \in Page
  BY <1>0 DEF ResetPage, Page, NoSlot
<1>2. <<>> \in Seq(Slot) /\ Len(<<>>) = 0 /\ DOMAIN <<>> = {}
  BY EmptySeq
<1>3. Ends(<<>>)[0] = PageCap
  BY <1>2, EndsAre
<1>4. Live(pg) = {} /\ Dead(pg) = {}
  BY <1>1, <1>2 DEF Live, Dead
<1>5. Links(pg, list)
  <2>1. list \in Seq(Int) /\ list # <<>> /\ IsInjective(list) /\ ToSet(list) = {NoSlot} /\ Len(list) = 1 /\ list[1] = NoSlot
    BY DEF NoSlot, IsInjective, ToSet
  <2>2. 1..(Len(list) - 1) = {}
    BY <2>1
  <2> QED BY <1>1, <1>4, <2>1, <2>2 DEF Links
<1>6. Records(pg)
  BY <1>4 DEF Records
<1>7. Len(pg.slots) <= pg.offset /\ pg.offset <= Ends(pg.slots)[Len(pg.slots)]
  BY <1>0, <1>1, <1>2, <1>3
<1>8. \E l \in Seq(Int) : Links(pg, l)
  BY <1>5 DEF Links
<1> QED BY <1>0, <1>1, <1>2, <1>4, <1>6, <1>7, <1>8 DEF PageOK, FreeBytes

\* A directory page is added when the next data page would find no entry.
LEMMA EntryIsThere ==
  ASSUME NEW h, FileOK(h), NEW g, g = IF NeedsDirPage(h) THEN WithDirPage(h) ELSE h
  PROVE  /\ FileOK(g) /\ g.size \in {h.size, h.size + 1} /\ g.data = h.data
         /\ DirAt(g.size) <= Len(g.dirs)
<1>0. Pages(h) /\ Directory(h)
  BY DEF FileOK
<1>1. h.size \in Nat /\ h.size >= 1 /\ NextPageId(h) = h.size /\ Len(h.dirs) \in Nat /\ Len(h.dirs) >= 1
  BY <1>0, PagesFacts
<1>2. CASE ~ NeedsDirPage(h)
  <2>1. DirAt(h.size) \in Nat
    BY <1>1, PlaceIs
  <2> QED BY <1>1, <1>2, <2>1 DEF NeedsDirPage
<1>3. CASE NeedsDirPage(h)
  <2>1. FileOK(g) /\ g.size = h.size + 1 /\ g.data = h.data /\ Len(g.dirs) = Len(h.dirs) + 1
    BY <1>3, DirPageKeeps
  <2>2. DirAt(h.size + 1) = (h.size \div EntriesPerDir) + 1
    BY <1>1 DEF DirAt
  <2>3. h.size \div EntriesPerDir <= Len(h.dirs) /\ h.size \div EntriesPerDir \in Nat
    <3>1. CASE h.size = 1
      <4>1. 1 \div EntriesPerDir = 0
        BY DivFacts, 1 \in Nat
      <4> QED BY <1>1, <3>1, <4>1
    <3>2. CASE h.size # 1
      <4> DEFINE a == h.size - 2
      <4>1. a \in Nat /\ a + 2 = h.size /\ h.size - 1 \in 1..(h.size - 1) /\ (h.size - 1) - 1 = a
        BY <1>1, <3>2
      <4> HIDE DEF a
      <4>2. h.size \div EntriesPerDir <= a \div EntriesPerDir + 1 /\ a \div EntriesPerDir \in Nat
        BY <4>1, DivFacts
      <4>3. (a \div EntriesPerDir) + 1 <= Len(h.dirs)
        BY <1>0, <4>1 DEF Directory, DirAt
      <4>4. h.size \div EntriesPerDir \in Nat
        BY <1>1, DivFacts
      <4> QED BY <1>1, <4>2, <4>3, <4>4
    <3> QED BY <3>1, <3>2
  <2>4. DirAt(g.size) <= Len(g.dirs)
    BY <1>1, <2>1, <2>2, <2>3
  <2> QED BY <2>1, <2>4
<1> QED BY <1>2, <1>3

\* _new_page: an empty page more, with its entry.
LEMMA NewPageKeeps ==
  ASSUME NEW h, FileOK(h), NEW n, n = WithPage(h)
  PROVE  /\ FileOK(n.h) /\ n.p \in {h.size, h.size + 1} /\ n.h.size = n.p + 1 /\ n.p \in 1..(n.h.size - 1)
         /\ n.p \notin DOMAIN h.data /\ DOMAIN n.h.data = DOMAIN h.data \cup {n.p}
         /\ n.h.data[n.p] = ResetPage
         /\ \A q \in DOMAIN h.data : n.h.data[q] = h.data[q]
<1>1. PICK g : g = IF NeedsDirPage(h) THEN WithDirPage(h) ELSE h
  OBVIOUS
<1>2. FileOK(g) /\ g.size \in {h.size, h.size + 1} /\ g.data = h.data /\ DirAt(g.size) <= Len(g.dirs)
  BY <1>1, EntryIsThere
<1>3. Pages(g) /\ Directory(g) /\ \A q \in DOMAIN g.data : PageOK(g.data[q])
  BY <1>2 DEF FileOK
<1> DEFINE p == g.size
           data == [d \in DOMAIN g.data \cup {p} |-> IF d = p THEN ResetPage ELSE g.data[d]]
           first == [g.dir[0] EXCEPT !.count = g.count + 1]
           dir == [g.dir EXCEPT ![0] = first]
<1>4. /\ g = [count |-> g.count, dirs |-> g.dirs, size |-> g.size, dir |-> g.dir, data |-> g.data]
      /\ g.dir \in [DOMAIN g.dir -> DirPage] /\ ToSet(g.dirs) = DOMAIN g.dir
      /\ DOMAIN g.dir \cup DOMAIN g.data = 0..(g.size - 1) /\ DOMAIN g.dir \cap DOMAIN g.data = {}
      /\ Len(g.dirs) + g.count = g.size
  BY <1>3 DEF Pages
<1>5. /\ g.size \in Nat /\ g.count \in Nat /\ g.size >= 1
      /\ Len(g.dirs) \in Nat /\ DOMAIN g.dirs = 1..Len(g.dirs)
      /\ \A i \in 1..Len(g.dirs) : g.dirs[i] \in DOMAIN g.dir
      /\ 0 \in DOMAIN g.dir /\ g.size \notin DOMAIN g.data /\ g.size \notin DOMAIN g.dir
  BY <1>3, PagesFacts
<1>6. g.dir[0] \in DirPage
  BY <1>4, <1>5
<1>7. first \in DirPage /\ first.next = g.dir[0].next /\ first.free = g.dir[0].free /\ first.count = g.count + 1
  BY <1>5, <1>6 DEF DirPage
<1>8. PICK k : k = Counted([g EXCEPT !.size = g.size + 1, !.data = data])
  OBVIOUS
<1>9. n = [h |-> SetFree(k, p, PageCap), p |-> p]
  BY <1>1, <1>8 DEF WithPage
<1>10. k = [count |-> g.count + 1, dirs |-> g.dirs, size |-> g.size + 1, dir |-> dir, data |-> data]
  <2>1. PICK e : e = [g EXCEPT !.size = g.size + 1, !.data = data]
    OBVIOUS
  <2> HIDE DEF data
  <2>2. e = [count |-> g.count, dirs |-> g.dirs, size |-> g.size + 1, dir |-> g.dir, data |-> data]
    BY ONLY <1>4, <2>1
  <2>3. e.count = g.count /\ e.dirs = g.dirs /\ e.size = g.size + 1 /\ e.dir = g.dir /\ e.data = data
    BY <2>2
  <2>4. e = [count |-> e.count, dirs |-> e.dirs, size |-> e.size, dir |-> e.dir, data |-> e.data]
    BY <2>2, <2>3
  <2>5. [e.dir EXCEPT ![0].count = e.count + 1] = dir
    BY <1>4, <1>5, <2>3
  <2>6. k = [e EXCEPT !.count = @ + 1, !.dir = dir]
    BY <1>8, <2>1, <2>3, <2>5 DEF Counted
  <2> HIDE DEF dir
  <2>7. k = [count |-> e.count + 1, dirs |-> e.dirs, size |-> e.size, dir |-> dir, data |-> e.data]
    BY ONLY <2>4, <2>6
  <2> QED BY <2>3, <2>7
<1> HIDE DEF first
<1>11. /\ DOMAIN dir = DOMAIN g.dir /\ dir \in [DOMAIN dir -> DirPage]
       /\ \A d \in DOMAIN g.dir : dir[d].next = g.dir[d].next /\ dir[d].free = g.dir[d].free
       /\ dir[0].count = g.count + 1
  BY <1>4, <1>5, <1>7
<1>12. /\ DOMAIN data = DOMAIN g.data \cup {p} /\ data = [d \in DOMAIN data |-> data[d]] /\ data[p] = ResetPage
       /\ \A q \in DOMAIN g.data : data[q] = g.data[q]
  BY <1>5
<1> HIDE DEF dir, data
<1>13. k.count = g.count + 1 /\ k.dirs = g.dirs /\ k.size = p + 1 /\ k.dir = dir /\ k.data = data
  BY <1>10
<1>14. Pages(k)
  <2>1. k = [count |-> k.count, dirs |-> k.dirs, size |-> k.size, dir |-> k.dir, data |-> k.data]
    BY <1>10, <1>13
  <2>2. DOMAIN k.dir \cup DOMAIN k.data = 0..(k.size - 1) /\ DOMAIN k.dir \cap DOMAIN k.data = {}
    <3>1. 0..(k.size - 1) = 0..(g.size - 1) \cup {p}
      BY <1>5, <1>13
    <3>2. /\ DOMAIN g.dir \cup DOMAIN g.data = 0..(g.size - 1) /\ DOMAIN g.dir \cap DOMAIN g.data = {}
          /\ p \notin DOMAIN g.dir
      BY <1>4, <1>5
    <3>3. DOMAIN k.dir = DOMAIN g.dir /\ DOMAIN k.data = DOMAIN g.data \cup {p}
      BY <1>11, <1>12, <1>13
    <3> QED BY ONLY <3>1, <3>2, <3>3
  <2>3. Len(k.dirs) + k.count = k.size /\ k.size \in Nat /\ k.count \in Nat
    <3>1. Len(g.dirs) + g.count = p /\ Len(g.dirs) \in Nat /\ g.count \in Nat
      BY <1>4, <1>5
    <3> QED BY ONLY <1>13, <3>1
  <2>4. k.dirs \in Seq(Nat) /\ k.dirs # <<>> /\ IsInjective(k.dirs) /\ k.dirs[1] = 0
    BY <1>3, <1>13 DEF Pages
  <2>5. ToSet(k.dirs) = DOMAIN k.dir /\ k.dir \in [DOMAIN k.dir -> DirPage]
    BY <1>4, <1>11, <1>13
  <2>6. k.data = [q \in DOMAIN k.data |-> k.data[q]]
    BY <1>12, <1>13
  <2> QED BY ONLY <2>1, <2>2, <2>3, <2>4, <2>5, <2>6 DEF Pages
<1>15. \A q \in 1..p : DirAt(q) <= Len(g.dirs)
  <2>1. ASSUME NEW q \in 1..p PROVE q = p \/ q \in 1..(p - 1)
    BY <1>5
  <2> QED BY <1>2, <1>3, <2>1 DEF Directory
<1>16. p \in 1..(k.size - 1) /\ k.size - 1 = p
  BY <1>5, <1>13
<1>17. PICK f : f = SetFree(k, p, PageCap)
  OBVIOUS
<1>18. /\ Pages(f)
       /\ f.count = g.count + 1 /\ f.dirs = g.dirs /\ f.size = p + 1 /\ f.data = data
       /\ \A d \in DOMAIN g.dir : f.dir[d].next = dir[d].next /\ f.dir[d].count = dir[d].count
       /\ \A q \in 1..p :
            DirAt(q) <= Len(g.dirs) => FreeSpace(f, q) = IF q = p THEN PageCap ELSE FreeSpace(k, q)
  <2>1. PageCap \in Int /\ DirAt(p) <= Len(k.dirs)
    BY <1>13, <1>15, <1>16, HeapAssumption
  <2>2. /\ Pages(f) /\ f.count = k.count /\ f.dirs = k.dirs /\ f.size = k.size /\ f.data = k.data
        /\ \A d \in DOMAIN k.dir : f.dir[d].next = k.dir[d].next /\ f.dir[d].count = k.dir[d].count
        /\ \A q \in 1..(k.size - 1) :
             DirAt(q) <= Len(k.dirs) => FreeSpace(f, q) = IF q = p THEN PageCap ELSE FreeSpace(k, q)
    BY <1>14, <1>16, <1>17, <2>1, SetFreeIs
  <2> QED BY <1>11, <1>13, <1>16, <2>2
<1>19. Directory(f)
  <2>1. ASSUME NEW i \in DOMAIN f.dirs
        PROVE  f.dir[f.dirs[i]].next = IF i = Len(f.dirs) THEN NoDir ELSE f.dirs[i + 1]
    <3>1. i \in DOMAIN g.dirs /\ g.dirs[i] \in DOMAIN g.dir
      BY <1>5, <1>18
    <3> QED BY <1>3, <1>11, <1>18, <3>1 DEF Directory
  <2>2. f.dir[0].count = f.count
    BY <1>5, <1>11, <1>18
  <2>3. \A q \in 1..(f.size - 1) : DirAt(q) <= Len(f.dirs)
    <3>1. f.size - 1 = p
      BY <1>5, <1>18
    <3> QED BY <1>15, <1>18, <3>1
  <2>4. ASSUME NEW q \in DOMAIN f.data PROVE FreeSpace(f, q) = FreeBytes(f.data[q])
    <3>1. CASE q = p
      <4>1. q \in 1..p /\ DirAt(q) <= Len(g.dirs)
        BY <1>15, <1>16, <3>1
      <4> QED BY <1>12, <1>18, <3>1, <4>1, ResetIsPage
    <3>2. CASE q # p
      <4>1. q \in DOMAIN g.data
        BY <1>12, <1>18, <3>2
      <4>2. q \in 1..(g.size - 1) /\ q \in 1..p /\ q \in Nat /\ q >= 1
        BY <1>3, <1>5, <4>1, PagesFacts
      <4>3. DirAt(q) <= Len(g.dirs) /\ DirAt(q) \in 1..Len(g.dirs)
        <5>1. DirAt(q) <= Len(g.dirs)
          BY <1>15, <4>2
        <5>2. DirAt(q) \in Nat /\ DirAt(q) >= 1
          BY <4>2, PlaceIs
        <5> QED BY <1>5, <5>1, <5>2
      <4>4. FreeSpace(k, q) = FreeSpace(g, q)
        BY <1>5, <1>11, <1>13, <4>3 DEF FreeSpace
      <4>5. FreeSpace(g, q) = FreeBytes(g.data[q])
        BY <1>3, <4>1 DEF Directory
      <4> QED BY <1>12, <1>18, <3>2, <4>1, <4>2, <4>3, <4>4, <4>5
    <3> QED BY <3>1, <3>2
  <2> QED BY <2>1, <2>2, <2>3, <2>4 DEF Directory
<1>20. \A q \in DOMAIN f.data : PageOK(f.data[q])
  BY <1>3, <1>12, <1>18, ResetIsPage
<1>21. n.h = f /\ n.p = p
  BY <1>9, <1>17
<1> QED BY <1>2, <1>5, <1>12, <1>13, <1>16, <1>18, <1>19, <1>20, <1>21 DEF FileOK

-----------------------------------------------------------------------------
(* What fetch finds, and what the operations do to it.                     *)

\* fetch finds the live slots of the data pages, and in each its row.
LEMMA FetchedIs ==
  ASSUME NEW h, FileOK(h)
  PROVE  /\ \A p, s : <<p, s>> \in DOMAIN Fetched(h)
                        <=> p \in DOMAIN h.data /\ s \in Int /\ s + 1 \in Live(h.data[p])
         /\ \A a \in DOMAIN Fetched(h) : /\ a = <<a[1], a[2]>>
                                         /\ Fetched(h)[a] = h.data[a[1]].slots[a[2] + 1].row
         /\ Fetched(h) = [a \in DOMAIN Fetched(h) |-> Fetched(h)[a]]
<1> DEFINE page == {q \in DOMAIN h.data : IsData(h, q)}
           at == UNION {{p} \X {s - 1 : s \in Live(h.data[p])} : p \in page}
<1>1. Pages(h) /\ \A p \in DOMAIN h.data : PageOK(h.data[p]) /\ p \in Int
  BY PagesFacts DEF FileOK
<1>2. page = DOMAIN h.data
  BY <1>1, PagesFacts
<1>3. \A p \in DOMAIN h.data : \A s \in Live(h.data[p]) : s \in Nat
  BY <1>1, PageFacts
<1>4. Fetched(h) = [a \in at |-> h.data[a[1]].slots[a[2] + 1].row]
  BY DEF Fetched
<1> HIDE DEF page
<1>5. ASSUME NEW p, NEW s
      PROVE  <<p, s>> \in at <=> p \in DOMAIN h.data /\ s \in Int /\ s + 1 \in Live(h.data[p])
  <2>1. ASSUME <<p, s>> \in at PROVE p \in DOMAIN h.data /\ s \in Int /\ s + 1 \in Live(h.data[p])
    <3>1. PICK r \in page : <<p, s>> \in {r} \X {t - 1 : t \in Live(h.data[r])}
      BY <2>1
    <3>2. p \in DOMAIN h.data /\ s \in {t - 1 : t \in Live(h.data[p])}
      BY <1>2, <3>1
    <3>3. PICK t \in Live(h.data[p]) : s = t - 1
      BY <3>2
    <3>4. t \in Nat
      BY <1>3, <3>2
    <3>5. s \in Int /\ s + 1 = t
      BY <3>3, <3>4
    <3> QED BY <3>2, <3>5
  <2>2. ASSUME p \in DOMAIN h.data, s \in Int, s + 1 \in Live(h.data[p]) PROVE <<p, s>> \in at
    <3>1. s = (s + 1) - 1
      BY <2>2
    <3>2. <<p, s>> \in {p} \X {t - 1 : t \in Live(h.data[p])} /\ p \in page
      BY <1>2, <2>2, <3>1
    <3> QED BY <3>2
  <2> QED BY <2>1, <2>2
<1>6. \A a \in at : a = <<a[1], a[2]>>
  OBVIOUS
<1> HIDE DEF at
<1>7. DOMAIN Fetched(h) = at
  BY <1>4
<1>8. \A a \in at : Fetched(h)[a] = h.data[a[1]].slots[a[2] + 1].row
  BY <1>4
<1> QED BY <1>4, <1>5, <1>6, <1>7, <1>8

\* The rows with one more, or another at one address.
With(f, b, v) == [a \in DOMAIN f \cup {b} |-> IF a = b THEN v ELSE f[a]]

\* The slots of two files, but for one, and the rows in them are the same.
SameElsewhere(h, g, p, k) ==
  /\ \A q, t : q \in DOMAIN g.data /\ t \in Live(g.data[q]) /\ (q # p \/ t # k)
              <=> q \in DOMAIN h.data /\ t \in Live(h.data[q]) /\ (q # p \/ t # k)
  /\ \A q \in DOMAIN h.data : \A t \in Live(h.data[q]) :
       q # p \/ t # k => g.data[q].slots[t].row = h.data[q].slots[t].row

\* Two files whose pages have the same live slots, but for those of an address, and
\* the same rows there.
LEMMA FetchedWith ==
  ASSUME NEW h, FileOK(h), NEW g, FileOK(g), NEW p, NEW s \in Int,
         p \in DOMAIN g.data, s + 1 \in Live(g.data[p]),
         SameElsewhere(h, g, p, s + 1), NEW v, v = g.data[p].slots[s + 1].row
  PROVE  Fetched(g) = With(Fetched(h), <<p, s>>, v)
<1> DEFINE D == DOMAIN Fetched(h)
<1>1. /\ \A q, t : <<q, t>> \in D <=> q \in DOMAIN h.data /\ t \in Int /\ t + 1 \in Live(h.data[q])
      /\ \A a \in D : a = <<a[1], a[2]>> /\ Fetched(h)[a] = h.data[a[1]].slots[a[2] + 1].row
  BY FetchedIs
<1>2. /\ \A q, t : <<q, t>> \in DOMAIN Fetched(g) <=> q \in DOMAIN g.data /\ t \in Int /\ t + 1 \in Live(g.data[q])
      /\ \A a \in DOMAIN Fetched(g) : a = <<a[1], a[2]>> /\ Fetched(g)[a] = g.data[a[1]].slots[a[2] + 1].row
      /\ Fetched(g) = [a \in DOMAIN Fetched(g) |-> Fetched(g)[a]]
  BY FetchedIs
<1> HIDE DEF D
<1>3. ASSUME NEW q, NEW t
      PROVE  <<q, t>> \in DOMAIN Fetched(g) <=> <<q, t>> \in D \/ (q = p /\ t = s)
  <2>1. CASE q = p /\ t = s
    BY <1>2, <2>1
  <2>2. CASE ~ (q = p /\ t = s) /\ t \in Int
    <3>1. q # p \/ t + 1 # s + 1
      BY <2>2
    <3>2. q \in DOMAIN g.data /\ t + 1 \in Live(g.data[q]) <=> q \in DOMAIN h.data /\ t + 1 \in Live(h.data[q])
      BY <3>1 DEF SameElsewhere
    <3> QED BY <1>1, <1>2, <2>2, <3>2
  <2>3. CASE ~ (q = p /\ t = s) /\ t \notin Int
    BY <1>1, <1>2, <2>3
  <2> QED BY <2>1, <2>2, <2>3
<1>4. DOMAIN Fetched(g) = D \cup {<<p, s>>}
  <2>1. ASSUME NEW a \in DOMAIN Fetched(g) PROVE a \in D \cup {<<p, s>>}
    BY <1>2, <1>3
  <2>2. ASSUME NEW a \in D \cup {<<p, s>>} PROVE a \in DOMAIN Fetched(g)
    <3>1. CASE a = <<p, s>>
      BY <1>3, <3>1
    <3>2. CASE a \in D
      BY <1>1, <1>3, <3>2
    <3> QED BY <3>1, <3>2
  <2> QED BY <2>1, <2>2
<1>5. ASSUME NEW a \in DOMAIN Fetched(g)
      PROVE  Fetched(g)[a] = IF a = <<p, s>> THEN g.data[p].slots[s + 1].row ELSE Fetched(h)[a]
  <2>1. a = <<a[1], a[2]>> /\ Fetched(g)[a] = g.data[a[1]].slots[a[2] + 1].row
    BY <1>2
  <2>2. CASE a = <<p, s>>
    BY <2>1, <2>2
  <2>3. CASE a # <<p, s>>
    <3>1. a \in D
      BY <1>4, <2>3
    <3>2. a[1] \in DOMAIN h.data /\ a[2] \in Int /\ a[2] + 1 \in Live(h.data[a[1]])
          /\ Fetched(h)[a] = h.data[a[1]].slots[a[2] + 1].row
      BY <1>1, <3>1
    <3>3. a[1] # p \/ a[2] # s
      BY <2>1, <2>3
    <3>4. a[1] # p \/ a[2] + 1 # s + 1
      BY <3>2, <3>3
    <3> QED BY <2>1, <2>3, <3>2, <3>4 DEF SameElsewhere
  <2> QED BY <2>2, <2>3
<1> QED BY <1>2, <1>4, <1>5 DEF D, With

\* The same of a file that has no row at the address any more, or none more.
LEMMA FetchedWithout ==
  ASSUME NEW h, FileOK(h), NEW g, FileOK(g), NEW D, D \subseteq DOMAIN Fetched(h),
         \A q, t : q \in DOMAIN g.data /\ t \in Int /\ t + 1 \in Live(g.data[q]) <=> <<q, t>> \in D,
         \A q \in DOMAIN g.data : \A t \in Live(g.data[q]) : g.data[q].slots[t].row = h.data[q].slots[t].row
  PROVE  Fetched(g) = [a \in D |-> Fetched(h)[a]]
<1>1. \A a \in DOMAIN Fetched(h) : a = <<a[1], a[2]>> /\ Fetched(h)[a] = h.data[a[1]].slots[a[2] + 1].row
  BY FetchedIs
<1>2. /\ \A q, t : <<q, t>> \in DOMAIN Fetched(g) <=> q \in DOMAIN g.data /\ t \in Int /\ t + 1 \in Live(g.data[q])
      /\ \A a \in DOMAIN Fetched(g) : a = <<a[1], a[2]>> /\ Fetched(g)[a] = g.data[a[1]].slots[a[2] + 1].row
      /\ Fetched(g) = [a \in DOMAIN Fetched(g) |-> Fetched(g)[a]]
  BY FetchedIs
<1>3. DOMAIN Fetched(g) = D
  <2>1. ASSUME NEW a \in DOMAIN Fetched(g) PROVE a \in D
    BY <1>2
  <2>2. ASSUME NEW a \in D PROVE a \in DOMAIN Fetched(g)
    BY <1>1, <1>2
  <2> QED BY <2>1, <2>2
<1>4. ASSUME NEW a \in D PROVE Fetched(g)[a] = Fetched(h)[a]
  <2>1. a = <<a[1], a[2]>> /\ Fetched(g)[a] = g.data[a[1]].slots[a[2] + 1].row
        /\ a[1] \in DOMAIN g.data /\ a[2] + 1 \in Live(g.data[a[1]])
    BY <1>2, <1>3
  <2>2. Fetched(h)[a] = h.data[a[1]].slots[a[2] + 1].row
    BY <1>1
  <2> QED BY <2>1, <2>2
<1> QED BY <1>2, <1>3, <1>4

\* A row that is placed on a page with room for it.
LEMMA PlacedKeeps ==
  ASSUME NEW h, FileOK(h), NEW p \in DOMAIN h.data, NEW v \in Value, HasSpace(h.data[p], Size[v]),
         NEW r, r = Placed(h, p, v)
  PROVE  /\ FileOK(r.h) /\ r.h.size = h.size
         /\ r.rid \in {p} \X (0..PageCap) /\ r.rid \notin DOMAIN Fetched(h)
         /\ Fetched(r.h) = With(Fetched(h), r.rid, v)
<1>1. PICK i : i = InsertedIn(h.data[p], v)
  OBVIOUS
<1>2. PICK g : g = Synced(h, p, i.page)
  OBVIOUS
<1>3. r = [h |-> g, rid |-> <<p, i.slot>>]
  BY <1>1, <1>2 DEF Placed
<1>4. PageOK(h.data[p])
  BY DEF FileOK
<1>5. /\ PageOK(i.page) /\ i.slot \in 0..PageCap /\ i.slot + 1 \notin Live(h.data[p])
      /\ Live(i.page) = Live(h.data[p]) \cup {i.slot + 1}
      /\ i.page.slots[i.slot + 1].row = v
      /\ \A s \in Live(h.data[p]) : i.page.slots[s].row = h.data[p].slots[s].row
  BY <1>1, <1>4, InsertKeeps
<1>6. /\ FileOK(g) /\ g.size = h.size /\ DOMAIN g.data = DOMAIN h.data
      /\ \A q \in DOMAIN h.data : g.data[q] = IF q = p THEN i.page ELSE h.data[q]
  BY <1>2, <1>5, SyncedKeeps
<1>7. i.slot \in Int
  BY <1>5, HeapAssumption
<1>8. <<p, i.slot>> \notin DOMAIN Fetched(h)
  BY <1>5, FetchedIs
<1>9. Fetched(g) = With(Fetched(h), <<p, i.slot>>, v)
  <2>1. p \in DOMAIN g.data /\ i.slot + 1 \in Live(g.data[p]) /\ v = g.data[p].slots[i.slot + 1].row
    BY <1>5, <1>6
  <2>2. ASSUME NEW q, NEW t
        PROVE  q \in DOMAIN g.data /\ t \in Live(g.data[q]) /\ (q # p \/ t # i.slot + 1)
                 <=> q \in DOMAIN h.data /\ t \in Live(h.data[q]) /\ (q # p \/ t # i.slot + 1)
    BY <1>5, <1>6
  <2>3. \A q \in DOMAIN h.data : \A t \in Live(h.data[q]) :
            q # p \/ t # i.slot + 1 => g.data[q].slots[t].row = h.data[q].slots[t].row
    BY <1>5, <1>6
  <2>4. SameElsewhere(h, g, p, i.slot + 1)
    BY <2>2, <2>3 DEF SameElsewhere
  <2>5. PICK s : s = i.slot
    OBVIOUS
  <2> QED BY ONLY FileOK(h), <1>6, <1>7, <2>1, <2>4, <2>5, FetchedWith
<1>10. r.h = g /\ r.rid = <<p, i.slot>>
  BY <1>3
<1> QED BY <1>5, <1>6, <1>8, <1>9, <1>10

\* The page that insert takes first has room.
LEMMA FirstRoomy ==
  ASSUME NEW h, FileOK(h), NEW v \in Value, Roomy(h, v) # {}
  PROVE  Min(Roomy(h, v)) \in DOMAIN h.data /\ HasSpace(h.data[Min(Roomy(h, v))], Size[v])
<1>0. Pages(h) /\ Directory(h)
  BY DEF FileOK
<1>1. Roomy(h, v) \in SUBSET (0..h.size) /\ h.size \in Nat
  BY <1>0, PagesFacts DEF Roomy
<1>2. \E m \in Roomy(h, v) : \A x \in Roomy(h, v) : m <= x
  <2> DEFINE S == Roomy(h, v)
  <2> HIDE DEF S
  <2>1. S # {} /\ S \in SUBSET (0..h.size)
    BY <1>1 DEF S
  <2> QED BY ONLY <1>1, <2>1, LeastExists DEF S
<1>3. Min(Roomy(h, v)) \in Roomy(h, v)
  BY <1>2 DEF Min
<1> DEFINE p == Min(Roomy(h, v))
<1> HIDE DEF p
<1>4. p \in Int /\ IsData(h, p) /\ FreeSpace(h, p) >= Size[v] + 1
  <2>1. p \in Roomy(h, v)
    BY <1>3 DEF p
  <2>2. p \in 0..h.size
    BY <1>1, <2>1
  <2> QED BY <1>1, <2>1, <2>2 DEF Roomy
<1>5. p \in DOMAIN h.data
  BY <1>0, <1>4, PagesFacts
<1>6. FreeSpace(h, p) = FreeBytes(h.data[p])
  BY <1>0, <1>5 DEF Directory
<1> QED BY <1>4, <1>5, <1>6 DEF HasSpace, p

\* insert: the row is at an address that was free, next to those that were there.
LEMMA InsertedIs ==
  ASSUME NEW h, FileOK(h), NEW v \in Value, NEW r, r = InsertedRow(h, v)
  PROVE  /\ FileOK(r.h) /\ r.h.size \in h.size..(h.size + 2) /\ (Roomy(h, v) # {} => r.h.size = h.size)
         /\ r.rid \in (1..(r.h.size - 1)) \X (0..PageCap) /\ r.rid \notin DOMAIN Fetched(h)
         /\ Fetched(r.h) = With(Fetched(h), r.rid, v)
<1>0. h.size \in Nat /\ DOMAIN h.data \subseteq 1..(h.size - 1)
  BY PagesFacts DEF FileOK
<1>1. CASE Roomy(h, v) # {}
  <2>1. PICK p : p = Min(Roomy(h, v))
    OBVIOUS
  <2>2. r = Placed(h, p, v)
    BY <1>1, <2>1 DEF InsertedRow
  <2>3. p \in DOMAIN h.data /\ HasSpace(h.data[p], Size[v])
    BY <1>1, <2>1, FirstRoomy
  <2>4. /\ FileOK(r.h) /\ r.h.size = h.size
        /\ r.rid \in {p} \X (0..PageCap) /\ r.rid \notin DOMAIN Fetched(h)
        /\ Fetched(r.h) = With(Fetched(h), r.rid, v)
    BY <2>2, <2>3, PlacedKeeps
  <2>5. r.rid \in (1..(r.h.size - 1)) \X (0..PageCap)
    BY <1>0, <2>3, <2>4
  <2> QED BY <1>0, <2>4, <2>5
<1>2. CASE Roomy(h, v) = {}
  <2>1. PICK n : n = WithPage(h)
    OBVIOUS
  <2>2. r = Placed(n.h, n.p, v)
    BY <1>2, <2>1 DEF InsertedRow
  <2>3. /\ FileOK(n.h) /\ n.p \in {h.size, h.size + 1} /\ n.h.size = n.p + 1 /\ n.p \in 1..(n.h.size - 1)
        /\ n.p \notin DOMAIN h.data /\ DOMAIN n.h.data = DOMAIN h.data \cup {n.p}
        /\ n.h.data[n.p] = ResetPage
        /\ \A q \in DOMAIN h.data : n.h.data[q] = h.data[q]
    BY <2>1, NewPageKeeps
  <2>4. n.p \in DOMAIN n.h.data /\ HasSpace(n.h.data[n.p], Size[v])
    BY <2>3, ResetIsPage, SizeIs, HeapAssumption DEF HasSpace
  <2>5. Fetched(n.h) = Fetched(h)
    <3>1. /\ \A q, t : <<q, t>> \in DOMAIN Fetched(h) <=> q \in DOMAIN h.data /\ t \in Int /\ t + 1 \in Live(h.data[q])
          /\ Fetched(h) = [a \in DOMAIN Fetched(h) |-> Fetched(h)[a]]
      BY FetchedIs
    <3>2. ASSUME NEW q, NEW t
          PROVE  q \in DOMAIN n.h.data /\ t \in Int /\ t + 1 \in Live(n.h.data[q])
                   <=> <<q, t>> \in DOMAIN Fetched(h)
      BY <2>3, <3>1, ResetIsPage
    <3>3. \A q \in DOMAIN n.h.data : \A t \in Live(n.h.data[q]) :
             n.h.data[q].slots[t].row = h.data[q].slots[t].row
      BY <2>3, ResetIsPage
    <3>4. Fetched(n.h) = [a \in DOMAIN Fetched(h) |-> Fetched(h)[a]]
      BY ONLY FileOK(h), <2>3, <3>2, <3>3, FetchedWithout, SMTT(30)
    <3> QED BY <3>1, <3>4
  <2>6. /\ FileOK(r.h) /\ r.h.size = n.h.size
        /\ r.rid \in {n.p} \X (0..PageCap) /\ r.rid \notin DOMAIN Fetched(h)
        /\ Fetched(r.h) = With(Fetched(h), r.rid, v)
    <3>1. /\ FileOK(r.h) /\ r.h.size = n.h.size
          /\ r.rid \in {n.p} \X (0..PageCap) /\ r.rid \notin DOMAIN Fetched(n.h)
          /\ Fetched(r.h) = With(Fetched(n.h), r.rid, v)
      <4>1. PICK f : f = n.h
        OBVIOUS
      <4>2. PICK p : p = n.p
        OBVIOUS
      <4>3. FileOK(f) /\ p \in DOMAIN f.data /\ HasSpace(f.data[p], Size[v]) /\ r = Placed(f, p, v)
        BY <2>2, <2>3, <2>4, <4>1, <4>2
      <4>4. /\ FileOK(r.h) /\ r.h.size = f.size
            /\ r.rid \in {p} \X (0..PageCap) /\ r.rid \notin DOMAIN Fetched(f)
            /\ Fetched(r.h) = With(Fetched(f), r.rid, v)
        BY ONLY v \in Value, <4>3, PlacedKeeps
      <4> QED BY <4>1, <4>2, <4>4
    <3> QED BY <2>5, <3>1
  <2>7. r.rid \in (1..(r.h.size - 1)) \X (0..PageCap) /\ r.h.size \in h.size..(h.size + 2)
    BY <1>0, <2>3, <2>6
  <2> QED BY <1>2, <2>6, <2>7
<1> QED BY <1>1, <1>2

\* delete: the row at one address is gone, and the others are as they were.
LEMMA DeletedIs ==
  ASSUME NEW h, FileOK(h), NEW p, NEW s, <<p, s>> \in DOMAIN Fetched(h),
         NEW g, g = Synced(h, p, DeletedIn(h.data[p], s))
  PROVE  /\ FileOK(g) /\ g.size = h.size
         /\ Fetched(g) = [a \in DOMAIN Fetched(h) \ {<<p, s>>} |-> Fetched(h)[a]]
<1>1. p \in DOMAIN h.data /\ s \in Int /\ s + 1 \in Live(h.data[p])
  BY FetchedIs
<1>2. PICK pg : pg = DeletedIn(h.data[p], s)
  OBVIOUS
<1>3. PageOK(h.data[p])
  BY <1>1 DEF FileOK
<1>4. /\ PageOK(pg) /\ Live(pg) = Live(h.data[p]) \ {s + 1}
      /\ \A t \in Live(pg) : pg.slots[t].row = h.data[p].slots[t].row
  BY <1>1, <1>2, <1>3, DeleteKeeps
<1>5. /\ FileOK(g) /\ g.size = h.size /\ DOMAIN g.data = DOMAIN h.data
      /\ \A q \in DOMAIN h.data : g.data[q] = IF q = p THEN pg ELSE h.data[q]
  BY <1>1, <1>2, <1>4, SyncedKeeps
<1> DEFINE D == DOMAIN Fetched(h) \ {<<p, s>>}
<1>6. ASSUME NEW q, NEW t
      PROVE  q \in DOMAIN g.data /\ t \in Int /\ t + 1 \in Live(g.data[q]) <=> <<q, t>> \in D
  <2>1. <<q, t>> \in D <=> q \in DOMAIN h.data /\ t \in Int /\ t + 1 \in Live(h.data[q]) /\ (q # p \/ t # s)
    BY FetchedIs
  <2>2. t \in Int => (t # s <=> t + 1 # s + 1)
    BY <1>1
  <2> HIDE DEF D
  <2>3. CASE q = p
    BY <1>4, <1>5, <2>1, <2>2, <2>3
  <2>4. CASE q # p
    BY <1>5, <2>1, <2>4
  <2> QED BY <2>3, <2>4
<1>7. \A q \in DOMAIN g.data : \A t \in Live(g.data[q]) : g.data[q].slots[t].row = h.data[q].slots[t].row
  BY <1>4, <1>5
<1>8. Fetched(g) = [a \in D |-> Fetched(h)[a]]
  <2>1. D \subseteq DOMAIN Fetched(h)
    OBVIOUS
  <2> HIDE DEF D
  <2> QED BY ONLY FileOK(h), <1>5, <1>6, <1>7, <2>1, FetchedWithout
<1> QED BY <1>5, <1>8

\* update: the row at one address is another, and the others are as they were.
LEMMA UpdatedIs ==
  ASSUME NEW h, FileOK(h), NEW p, NEW s, <<p, s>> \in DOMAIN Fetched(h), NEW v \in Value,
         h.data[p].slots[s + 1].size = Size[v],
         NEW g, g = Synced(h, p, RowSet(h.data[p], s + 1, v))
  PROVE  /\ FileOK(g) /\ g.size = h.size
         /\ Fetched(g) = With(Fetched(h), <<p, s>>, v)
<1>1. p \in DOMAIN h.data /\ s \in Int /\ s + 1 \in Live(h.data[p])
  BY FetchedIs
<1>2. PICK pg : pg = RowSet(h.data[p], s + 1, v)
  OBVIOUS
<1>3. PageOK(h.data[p])
  BY <1>1 DEF FileOK
<1>4. /\ PageOK(pg) /\ Live(pg) = Live(h.data[p])
      /\ \A t \in Live(h.data[p]) : pg.slots[t].row = IF t = s + 1 THEN v ELSE h.data[p].slots[t].row
  <2>1. PICK old : old = h.data[p]
    OBVIOUS
  <2>2. PICK k : k = s + 1
    OBVIOUS
  <2>3. PageOK(old) /\ k \in Live(old) /\ old.slots[k].size = Size[v] /\ pg = RowSet(old, k, v)
    BY <1>1, <1>2, <1>3, <2>1, <2>2
  <2>4. /\ PageOK(pg) /\ Live(pg) = Live(old)
        /\ \A t \in Live(old) : pg.slots[t].row = IF t = k THEN v ELSE old.slots[t].row
    BY ONLY v \in Value, <2>3, UpdateKeeps
  <2> QED BY <2>1, <2>2, <2>4
<1>5. /\ FileOK(g) /\ g.size = h.size /\ DOMAIN g.data = DOMAIN h.data
      /\ \A q \in DOMAIN h.data : g.data[q] = IF q = p THEN pg ELSE h.data[q]
  BY <1>1, <1>2, <1>4, SyncedKeeps
<1>6. Fetched(g) = With(Fetched(h), <<p, s>>, v)
  <2>1. p \in DOMAIN g.data /\ s + 1 \in Live(g.data[p]) /\ v = g.data[p].slots[s + 1].row
    BY <1>1, <1>4, <1>5
  <2>2. ASSUME NEW q, NEW t
        PROVE  q \in DOMAIN g.data /\ t \in Live(g.data[q]) /\ (q # p \/ t # s + 1)
                 <=> q \in DOMAIN h.data /\ t \in Live(h.data[q]) /\ (q # p \/ t # s + 1)
    BY <1>4, <1>5
  <2>3. \A q \in DOMAIN h.data : \A t \in Live(h.data[q]) :
            q # p \/ t # s + 1 => g.data[q].slots[t].row = h.data[q].slots[t].row
    BY <1>4, <1>5
  <2>4. SameElsewhere(h, g, p, s + 1)
    BY <2>2, <2>3 DEF SameElsewhere
  <2> QED BY ONLY FileOK(h), <1>1, <1>5, <2>1, <2>4, FetchedWith
<1> QED BY <1>5, <1>6

\* compact: each row is where it was.
LEMMA CompactedIs ==
  ASSUME NEW h, FileOK(h), NEW p \in DOMAIN h.data, NEW g, g = Synced(h, p, Defragmented(h.data[p]))
  PROVE  FileOK(g) /\ g.size = h.size /\ Fetched(g) = Fetched(h)
<1>2. PICK pg : pg = Defragmented(h.data[p])
  OBVIOUS
<1>3. PageOK(h.data[p])
  BY DEF FileOK
<1>4. PageOK(pg) /\ Live(pg) = Live(h.data[p]) /\ \A t \in Live(h.data[p]) : pg.slots[t].row = h.data[p].slots[t].row
  BY <1>2, <1>3, DefragmentKeeps
<1>5. /\ FileOK(g) /\ g.size = h.size /\ DOMAIN g.data = DOMAIN h.data
      /\ \A q \in DOMAIN h.data : g.data[q] = IF q = p THEN pg ELSE h.data[q]
  BY <1>2, <1>4, SyncedKeeps
<1>6. /\ \A q, t : <<q, t>> \in DOMAIN Fetched(h) <=> q \in DOMAIN h.data /\ t \in Int /\ t + 1 \in Live(h.data[q])
      /\ Fetched(h) = [a \in DOMAIN Fetched(h) |-> Fetched(h)[a]]
  BY FetchedIs
<1>7. \A q, t : q \in DOMAIN g.data /\ t \in Int /\ t + 1 \in Live(g.data[q]) <=> <<q, t>> \in DOMAIN Fetched(h)
  BY <1>4, <1>5, <1>6
<1>8. \A q \in DOMAIN g.data : \A t \in Live(g.data[q]) : g.data[q].slots[t].row = h.data[q].slots[t].row
  BY <1>4, <1>5
<1>9. Fetched(g) = [a \in DOMAIN Fetched(h) |-> Fetched(h)[a]]
  BY ONLY FileOK(h), <1>5, <1>7, <1>8, FetchedWithout
<1> QED BY <1>5, <1>6, <1>9

-----------------------------------------------------------------------------
(* What scan lists.                                                        *)

\* What a scan lists: an address with the row there.
Item == (Int \X Int) \X Value

\* The rows of the first n slots of a page, and of the first n pages.
ItemsOf(p, pg, n) == {<<<<p, s - 1>>, pg.slots[s].row>> : s \in {t \in Live(pg) : t <= n}}
ItemsUpTo(h, n) == UNION {ItemsOf(q, h.data[q], Len(h.data[q].slots)) : q \in {r \in DOMAIN h.data : r <= n}}

\* Each row of a page is an item.
LEMMA ItemsAre ==
  ASSUME NEW p \in Int, NEW pg, PageOK(pg), NEW n \in Int
  PROVE  ItemsOf(p, pg, n) \subseteq Item
<1>1. \A s \in Live(pg) : s - 1 \in Int /\ pg.slots[s].row \in Value
  BY PageFacts DEF PageOK, Records
<1> QED BY <1>1 DEF ItemsOf, Item

\* A page lists each of its live records once.
LEMMA PageIsListed ==
  ASSUME NEW p \in Int, NEW pg, PageOK(pg)
  PROVE  /\ PageScan(p, pg) \in Seq(Item) /\ IsInjective(PageScan(p, pg))
         /\ ToSet(PageScan(p, pg)) = ItemsOf(p, pg, Len(pg.slots))
<1> DEFINE n == Len(pg.slots)
           T == Seq(Item)
           item(k) == <<<<p, k - 1>>, pg.slots[k].row>>
           step(x, k) == IF pg.slots[k].size = 0 THEN x ELSE Append(x, item(k))
           g == [k \in 1..n |-> [x \in T |-> step(x, k)]]
           Is(f) == f = [k \in 0..n |-> IF k = 0 THEN <<>>
                                        ELSE IF pg.slots[k].size = 0 THEN f[k - 1]
                                        ELSE Append(f[k - 1], item(k))]
<1>0. n \in Nat /\ \A k \in 1..n : k \in Live(pg) <=> pg.slots[k].size # 0
  BY PageFacts
<1>1. \A k \in 1..n : k \in Live(pg) => item(k) \in Item
  BY <1>0 DEF PageOK, Records, Item
<1>2. <<>> \in T
  OBVIOUS
<1> HIDE DEF n, item
<1>3. ASSUME NEW k \in 1..n, NEW x \in T PROVE step(x, k) \in T
  <2>1. CASE pg.slots[k].size = 0
    BY <2>1
  <2>2. CASE pg.slots[k].size # 0
    <3>1. item(k) \in Item
      BY <1>0, <1>1, <2>2
    <3> QED BY <2>2, <3>1, AppendProperties
  <2> QED BY <2>1, <2>2
<1> HIDE DEF T, step
<1>4. PICK f \in [0..n -> T] : Recurs(f, n, <<>>, g)
  <2>1. g \in Steps(n, T)
    BY <1>3 DEF Steps
  <2> HIDE DEF g
  <2>2. PICK b : b = <<>>
    OBVIOUS
  <2>3. \E f \in [0..n -> T] : Recurs(f, n, b, g)
    BY <1>0, <1>2, <2>1, <2>2, RecursionExists
  <2> QED BY <2>2, <2>3
<1>5. ASSUME NEW k \in 1..n PROVE f[k] = step(f[k - 1], k) /\ f[k - 1] \in T
  <2>1. f[k - 1] \in T /\ f[k] = g[k][f[k - 1]]
    BY <1>0, <1>4, k - 1 \in 0..n DEF Recurs
  <2> QED BY <2>1
<1>6. f[0] = <<>>
  BY <1>4 DEF Recurs
<1> HIDE DEF g
<1>7. Is(f)
  <2>1. f = [k \in 0..n |-> f[k]]
    BY <1>4
  <2>2. \A k \in 0..n : k # 0 => k \in 1..n
    BY <1>0
  <2>3. ASSUME NEW k \in 0..n
        PROVE  f[k] = IF k = 0 THEN <<>> ELSE IF pg.slots[k].size = 0 THEN f[k - 1] ELSE Append(f[k - 1], item(k))
    <3>1. CASE k = 0
      BY <1>6, <3>1
    <3>2. CASE k # 0
      <4>1. f[k] = step(f[k - 1], k)
        BY <1>5, <2>2, <3>2
      <4> QED BY <3>2, <4>1 DEF step
    <3> QED BY <3>1, <3>2
  <2> QED BY ONLY <2>1, <2>3
<1> DEFINE found == CHOOSE x : Is(x)
<1>8. Is(found)
  <2> HIDE DEF Is
  <2> QED BY <1>7
<1>9. PageScan(p, pg) = found[n]
  BY DEF PageScan, n, item
<1> HIDE DEF found
<1>10. found[0] = <<>> /\ \A k \in 1..n : found[k] = step(found[k - 1], k)
  <2>1. found[0] = <<>>
    BY <1>0, <1>8
  <2>2. ASSUME NEW k \in 1..n PROVE found[k] = step(found[k - 1], k)
    <3>1. k \in 0..n /\ k # 0
      OBVIOUS
    <3> QED BY <1>8, <3>1 DEF step
  <2> QED BY <2>1, <2>2
<1> HIDE DEF Is
<1> DEFINE S == {k \in 0..n : /\ found[k] \in T /\ IsInjective(found[k])
                              /\ ToSet(found[k]) = ItemsOf(p, pg, k)}
<1>11. 0 \in S
  <2>1. ItemsOf(p, pg, 0) = {}
    <3>1. \A t \in Live(pg) : t >= 1 /\ t \in Nat
      BY PageFacts
    <3>2. {t \in Live(pg) : t <= 0} = {}
      BY <3>1
    <3> QED BY <3>2 DEF ItemsOf
  <2>2. found[0] \in T /\ IsInjective(found[0]) /\ ToSet(found[0]) = ItemsOf(p, pg, 0)
    BY <1>2, <1>10, <2>1, EmptyIsInjective
  <2>3. 0 \in 0..n
    BY <1>0
  <2> QED BY <2>2, <2>3
<1>12. ASSUME NEW k \in 1..n, k - 1 \in S PROVE k \in S
  <2>1. found[k - 1] \in T /\ IsInjective(found[k - 1]) /\ ToSet(found[k - 1]) = ItemsOf(p, pg, k - 1)
    BY <1>12
  <2>2. found[k] = step(found[k - 1], k) /\ k \in 0..n
    BY <1>10
  <2>3. \A t \in Live(pg) : t \in Nat
    BY PageFacts
  <2>4. CASE k \notin Live(pg)
    <3>1. found[k] = found[k - 1]
      BY <1>0, <2>2, <2>4 DEF step
    <3>2. {t \in Live(pg) : t <= k} = {t \in Live(pg) : t <= k - 1}
      BY <2>3, <2>4
    <3>3. ItemsOf(p, pg, k) = ItemsOf(p, pg, k - 1)
      BY <3>2 DEF ItemsOf
    <3> QED BY <2>1, <2>2, <3>1, <3>3
  <2>5. CASE k \in Live(pg)
    <3>1. found[k] = Append(found[k - 1], item(k))
      BY <1>0, <2>2, <2>5 DEF step
    <3>2. {t \in Live(pg) : t <= k} = {t \in Live(pg) : t <= k - 1} \cup {k}
      <4>1. \A t \in Nat : t <= k <=> t <= k - 1 \/ t = k
        OBVIOUS
      <4>2. \A t \in Live(pg) : t <= k <=> t <= k - 1 \/ t = k
        BY <2>3, <4>1
      <4> QED BY <2>5, <4>2
    <3>3. ItemsOf(p, pg, k) = ItemsOf(p, pg, k - 1) \cup {item(k)}
      BY <3>2 DEF ItemsOf, item
    <3>4. item(k) \notin ItemsOf(p, pg, k - 1)
      <4>1. ASSUME NEW t \in Live(pg), t <= k - 1 PROVE t - 1 # k - 1
        BY <2>3, <4>1
      <4> QED BY <4>1 DEF ItemsOf, item
    <3>5. PICK x : x = found[k - 1]
      OBVIOUS
    <3>6. PICK y : y = item(k)
      OBVIOUS
    <3>7. x \in Seq(Item) /\ y \in Item /\ IsInjective(x) /\ y \notin ToSet(x)
      BY <1>1, <2>1, <2>5, <3>4, <3>5, <3>6 DEF T
    <3>8. Append(x, y) \in Seq(Item) /\ IsInjective(Append(x, y)) /\ ToSet(Append(x, y)) = ToSet(x) \cup {y}
      BY ONLY <3>7, AppendToInjective
    <3> QED BY <2>1, <2>2, <3>1, <3>3, <3>5, <3>6, <3>8 DEF T
  <2> QED BY <2>4, <2>5
<1>13. n \in S
  <2> HIDE DEF S
  <2>1. 0..n \subseteq S
    BY <1>0, <1>11, <1>12, BoundedInduction
  <2> QED BY <1>0, <2>1
<1> QED BY <1>9, <1>13 DEF T, n

\* A file lists the rows of each of its pages once.
LEMMA FileIsListed ==
  ASSUME NEW h, FileOK(h)
  PROVE  /\ Scan(h) \in Seq(Item) /\ IsInjective(Scan(h))
         /\ ToSet(Scan(h)) = ItemsUpTo(h, h.size - 1)
<1> DEFINE n == h.size - 1
           T == Seq(Item)
           list(k) == PageScan(k, h.data[k])
           items(k) == ItemsOf(k, h.data[k], Len(h.data[k].slots))
           step(x, k) == IF k \in Range(h.dirs) THEN x ELSE x \o list(k)
           g == [k \in 1..n |-> [x \in T |-> step(x, k)]]
           Is(f) == f = [k \in 0..n |-> IF k = 0 THEN <<>>
                                        ELSE IF k \in Range(h.dirs) THEN f[k - 1]
                                        ELSE f[k - 1] \o list(k)]
<1>0. /\ n \in Nat /\ NextPageId(h) - 1 = n
      /\ DOMAIN h.data \subseteq 1..n
      /\ \A k \in 1..n : k \in Range(h.dirs) <=> k \notin DOMAIN h.data
  <2>1. Pages(h)
    BY DEF FileOK
  <2>2. /\ h.size \in Nat /\ h.size >= 1 /\ NextPageId(h) = h.size /\ Range(h.dirs) = DOMAIN h.dir
        /\ DOMAIN h.data \subseteq 1..(h.size - 1)
    BY <2>1, PagesFacts
  <2>3. DOMAIN h.dir \cup DOMAIN h.data = 0..n /\ DOMAIN h.dir \cap DOMAIN h.data = {}
    BY <2>1 DEF Pages
  <2>4. \A k \in 1..n : k \in 0..n
    BY <2>2
  <2> QED BY <2>2, <2>3, <2>4
<1>1. \A k \in DOMAIN h.data : k \in Int /\ PageOK(h.data[k])
  BY <1>0 DEF FileOK
<1>2. <<>> \in T
  OBVIOUS
<1>3. \A k \in DOMAIN h.data : list(k) \in T /\ IsInjective(list(k)) /\ ToSet(list(k)) = items(k)
  BY <1>1, PageIsListed
<1> HIDE DEF n, list
<1>4. ASSUME NEW k \in 1..n, NEW x \in T PROVE step(x, k) \in T
  <2>1. CASE k \in Range(h.dirs)
    BY <2>1
  <2>2. CASE k \notin Range(h.dirs)
    <3>1. list(k) \in Seq(Item)
      BY <1>0, <1>3, <2>2
    <3>2. x \o list(k) \in Seq(Item)
      BY <3>1, ElementsOfConcat
    <3> QED BY <2>2, <3>2
  <2> QED BY <2>1, <2>2
<1> HIDE DEF T, step
<1>5. PICK f \in [0..n -> T] : Recurs(f, n, <<>>, g)
  <2>1. g \in Steps(n, T)
    BY <1>4 DEF Steps
  <2> HIDE DEF g
  <2>2. PICK b : b = <<>>
    OBVIOUS
  <2>3. \E f \in [0..n -> T] : Recurs(f, n, b, g)
    BY <1>0, <1>2, <2>1, <2>2, RecursionExists
  <2> QED BY <2>2, <2>3
<1>6. ASSUME NEW k \in 1..n PROVE f[k] = step(f[k - 1], k) /\ f[k - 1] \in T
  <2>1. f[k - 1] \in T /\ f[k] = g[k][f[k - 1]]
    BY <1>0, <1>5, k - 1 \in 0..n DEF Recurs
  <2> QED BY <2>1
<1>7. f[0] = <<>>
  BY <1>5 DEF Recurs
<1> HIDE DEF g
<1>8. Is(f)
  <2>1. f = [k \in 0..n |-> f[k]]
    BY <1>5
  <2>2. \A k \in 0..n : k # 0 => k \in 1..n
    BY <1>0
  <2>3. ASSUME NEW k \in 0..n
        PROVE  f[k] = IF k = 0 THEN <<>> ELSE IF k \in Range(h.dirs) THEN f[k - 1] ELSE f[k - 1] \o list(k)
    <3>1. CASE k = 0
      BY <1>7, <3>1
    <3>2. CASE k # 0
      <4>1. f[k] = step(f[k - 1], k)
        BY <1>6, <2>2, <3>2
      <4> QED BY <3>2, <4>1 DEF step
    <3> QED BY <3>1, <3>2
  <2> QED BY ONLY <2>1, <2>3
<1> DEFINE found == CHOOSE x : Is(x)
<1>9. Is(found)
  <2> HIDE DEF Is
  <2> QED BY <1>8
<1>10. Scan(h) = found[n]
  <2>1. PICK m : m = NextPageId(h) - 1
    OBVIOUS
  <2>2. Scan(h) = LET F[k \in 0..m] == IF k = 0 THEN <<>>
                                       ELSE IF k \in Range(h.dirs) THEN F[k - 1]
                                       ELSE F[k - 1] \o list(k)
                  IN  F[m]
    BY <2>1 DEF Scan, list
  <2>3. m = n
    BY <1>0, <2>1
  <2> QED BY <2>2, <2>3
<1> HIDE DEF found
<1>11. found[0] = <<>> /\ \A k \in 1..n : found[k] = step(found[k - 1], k)
  <2>1. found[0] = <<>>
    BY <1>0, <1>9
  <2>2. ASSUME NEW k \in 1..n PROVE found[k] = step(found[k - 1], k)
    <3>1. k \in 0..n /\ k # 0
      OBVIOUS
    <3> QED BY <1>9, <3>1 DEF step
  <2> QED BY <2>1, <2>2
<1> HIDE DEF Is, items
<1> DEFINE upto(k) == UNION {items(q) : q \in {r \in DOMAIN h.data : r <= k}}
           S == {k \in 0..n : found[k] \in T /\ IsInjective(found[k]) /\ ToSet(found[k]) = upto(k)}
<1>12. 0 \in S
  <2>1. {r \in DOMAIN h.data : r <= 0} = {}
    BY <1>0
  <2>2. upto(0) = {}
    BY <2>1
  <2>3. found[0] \in T /\ IsInjective(found[0]) /\ ToSet(found[0]) = upto(0) /\ 0 \in 0..n
    BY <1>0, <1>2, <1>11, <2>2, EmptyIsInjective
  <2> HIDE DEF upto
  <2> QED BY <2>3
<1>13. ASSUME NEW k \in 1..n, k - 1 \in S PROVE k \in S
  <2>1. found[k - 1] \in T /\ IsInjective(found[k - 1]) /\ ToSet(found[k - 1]) = upto(k - 1)
    BY <1>13
  <2>2. found[k] = step(found[k - 1], k) /\ k \in 0..n
    BY <1>11
  <2>3. \A r \in DOMAIN h.data : r \in Nat /\ (r <= k <=> r <= k - 1 \/ r = k)
    BY <1>0
  <2>4. CASE k \notin DOMAIN h.data
    <3>1. found[k] = found[k - 1]
      BY <1>0, <2>2, <2>4 DEF step
    <3>2. {r \in DOMAIN h.data : r <= k} = {r \in DOMAIN h.data : r <= k - 1}
      BY <2>3, <2>4
    <3>3. upto(k) = upto(k - 1)
      BY <3>2
    <3> HIDE DEF upto
    <3> QED BY <2>1, <2>2, <3>1, <3>3
  <2>5. CASE k \in DOMAIN h.data
    <3>1. found[k] = found[k - 1] \o list(k)
      BY <1>0, <2>2, <2>5 DEF step
    <3>2. {r \in DOMAIN h.data : r <= k} = {r \in DOMAIN h.data : r <= k - 1} \cup {k}
      BY <2>3, <2>5
    <3>3. upto(k) = upto(k - 1) \cup items(k)
      BY <3>2
    <3>4. upto(k - 1) \cap items(k) = {}
      <4>1. \A r : \A x \in items(r) : x[1][1] = r
        BY DEF items, ItemsOf
      <4>2. \A r \in {q \in DOMAIN h.data : q <= k - 1} : r # k
        BY <2>3
      <4>3. ASSUME NEW x \in upto(k - 1) PROVE x[1][1] # k
        <5>1. PICK r \in {q \in DOMAIN h.data : q <= k - 1} : x \in items(r)
          BY <4>3
        <5> QED BY <4>1, <4>2, <5>1
      <4> HIDE DEF upto
      <4> QED BY <4>1, <4>3
    <3> HIDE DEF upto
    <3>5. PICK x : x = found[k - 1]
      OBVIOUS
    <3>6. PICK y : y = list(k)
      OBVIOUS
    <3>7. /\ x \in Seq(Item) /\ y \in Seq(Item) /\ IsInjective(x) /\ IsInjective(y)
          /\ ToSet(x) = upto(k - 1) /\ ToSet(y) = items(k)
      BY <1>3, <2>1, <2>5, <3>5, <3>6 DEF T
    <3>8. x \o y \in Seq(Item) /\ ToSet(x \o y) = ToSet(x) \cup ToSet(y)
      BY ONLY <3>7, ElementsOfConcat
    <3>9. IsInjective(x \o y)
      BY ONLY <3>4, <3>7, ConcatOfInjective
    <3> QED BY <2>2, <3>1, <3>3, <3>5, <3>6, <3>7, <3>8, <3>9 DEF T
  <2> QED BY <2>4, <2>5
<1>14. n \in S
  <2> HIDE DEF S
  <2>1. 0..n \subseteq S
    BY <1>0, <1>12, <1>13, BoundedInduction
  <2> QED BY <1>0, <2>1
<1>15. upto(n) = ItemsUpTo(h, n)
  BY DEF ItemsUpTo, items
<1> HIDE DEF upto
<1> QED BY <1>10, <1>14, <1>15 DEF T, n

\* The rows that are listed are those that fetch finds.
LEMMA ListedAreFetched ==
  ASSUME NEW h, FileOK(h)
  PROVE  ItemsUpTo(h, h.size - 1) = {<<a, Fetched(h)[a]>> : a \in DOMAIN Fetched(h)}
<1>1. /\ \A p, s : <<p, s>> \in DOMAIN Fetched(h) <=> p \in DOMAIN h.data /\ s \in Int /\ s + 1 \in Live(h.data[p])
      /\ \A a \in DOMAIN Fetched(h) : a = <<a[1], a[2]>> /\ Fetched(h)[a] = h.data[a[1]].slots[a[2] + 1].row
  BY FetchedIs
<1>2. h.size \in Nat /\ \A q \in DOMAIN h.data : q <= h.size - 1 /\ PageOK(h.data[q])
  <2>1. h.size \in Nat /\ DOMAIN h.data \subseteq 1..(h.size - 1)
    BY PagesFacts DEF FileOK
  <2> QED BY <2>1 DEF FileOK
<1>3. \A q \in DOMAIN h.data : \A s \in Live(h.data[q]) : s \in Nat /\ s <= Len(h.data[q].slots)
  BY <1>2, PageFacts
<1>4. ASSUME NEW x \in ItemsUpTo(h, h.size - 1)
      PROVE  \E a \in DOMAIN Fetched(h) : x = <<a, Fetched(h)[a]>>
  <2>1. PICK q \in DOMAIN h.data : x \in ItemsOf(q, h.data[q], Len(h.data[q].slots))
    BY DEF ItemsUpTo
  <2>2. PICK s \in Live(h.data[q]) : x = <<<<q, s - 1>>, h.data[q].slots[s].row>>
    BY <2>1 DEF ItemsOf
  <2>3. s - 1 \in Int /\ (s - 1) + 1 = s
    <3>1. s \in Nat
      BY <1>3
    <3> QED BY <3>1
  <2>4. <<q, s - 1>> \in DOMAIN Fetched(h)
    BY <1>1, <2>3
  <2>5. Fetched(h)[<<q, s - 1>>] = h.data[q].slots[s].row
    BY <1>1, <2>3, <2>4
  <2> QED BY <2>2, <2>4, <2>5
<1>5. ASSUME NEW a \in DOMAIN Fetched(h) PROVE <<a, Fetched(h)[a]>> \in ItemsUpTo(h, h.size - 1)
  <2>1. PICK q, s : a = <<q, s>> /\ q \in DOMAIN h.data /\ s \in Int /\ s + 1 \in Live(h.data[q])
    BY <1>1
  <2>2. Fetched(h)[a] = h.data[q].slots[s + 1].row
    BY <1>1, <2>1
  <2>3. (s + 1) - 1 = s /\ s + 1 <= Len(h.data[q].slots)
    BY <1>3, <2>1
  <2>4. <<a, Fetched(h)[a]>> \in ItemsOf(q, h.data[q], Len(h.data[q].slots))
    BY <2>1, <2>2, <2>3 DEF ItemsOf
  <2>5. q \in {r \in DOMAIN h.data : r <= h.size - 1}
    BY <1>2, <2>1
  <2> QED BY <2>4, <2>5 DEF ItemsUpTo
<1> QED BY <1>4, <1>5

\* scan lists each row that fetch finds, and each once.
LEMMA ScanIs ==
  ASSUME NEW h, FileOK(h)
  PROVE  LET s == Scan(h) IN
         /\ {s[i][1] : i \in DOMAIN s} = DOMAIN Fetched(h)
         /\ Len(s) = Cardinality(DOMAIN Fetched(h))
         /\ \A i \in DOMAIN s : Fetched(h)[s[i][1]] = s[i][2]
<1> DEFINE F == Fetched(h)
           pairs == {<<a, F[a]>> : a \in DOMAIN F}
<1>1. PICK s : s = Scan(h)
  OBVIOUS
<1>2. s \in Seq(Item) /\ IsInjective(s) /\ ToSet(s) = pairs
  BY <1>1, FileIsListed, ListedAreFetched
<1> HIDE DEF F
<1>0. /\ \A x \in pairs : x[1] \in DOMAIN F /\ x[2] = F[x[1]] /\ x = <<x[1], F[x[1]]>>
      /\ \A a \in DOMAIN F : <<a, F[a]>> \in pairs /\ <<a, F[a]>>[1] = a
  OBVIOUS
<1> HIDE DEF pairs
<1>3. IsFiniteSet(pairs) /\ Cardinality(pairs) = Len(s)
  <2>1. Cardinality(ToSet(s)) = Len(s) /\ IsFiniteSet(ToSet(s))
    BY ONLY <1>2, InjectiveCounts
  <2> QED BY <1>2, <2>1
<1>4. Cardinality(DOMAIN F) = Cardinality(pairs)
  <2> DEFINE b == [x \in pairs |-> x[1]]
  <2>0. \A x, y \in pairs : x[1] = y[1] => x = y
    BY <1>0
  <2>1. b \in Bijection(pairs, DOMAIN F)
    <3>1. b \in [pairs -> DOMAIN F] /\ \A x \in pairs : b[x] = x[1]
      BY <1>0
    <3>2. \A a \in DOMAIN F : \E x \in pairs : b[x] = a
      BY <1>0, <3>1
    <3> HIDE DEF b
    <3> QED BY <2>0, <3>1, <3>2 DEF Bijection, Injection, Surjection, IsInjective
  <2>2. ExistsBijection(pairs, DOMAIN F)
    BY <2>1 DEF ExistsBijection
  <2> QED BY <1>3, <2>2, FS_Bijection
<1>5. \A i \in DOMAIN s : s[i] \in pairs
  BY <1>2 DEF ToSet
<1>6. \A x \in pairs : \E i \in DOMAIN s : x = s[i]
  BY <1>2 DEF ToSet
<1>7. {s[i][1] : i \in DOMAIN s} = DOMAIN F
  <2>1. ASSUME NEW i \in DOMAIN s PROVE s[i][1] \in DOMAIN F
    BY <1>0, <1>5
  <2>2. ASSUME NEW a \in DOMAIN F PROVE \E i \in DOMAIN s : s[i][1] = a
    <3>1. <<a, F[a]>> \in pairs /\ <<a, F[a]>>[1] = a
      BY <1>0
    <3>2. PICK i \in DOMAIN s : <<a, F[a]>> = s[i]
      BY <1>6, <3>1
    <3> QED BY <3>1, <3>2
  <2> QED BY <2>1, <2>2
<1>8. \A i \in DOMAIN s : F[s[i][1]] = s[i][2]
  BY <1>0, <1>5
<1> QED BY <1>1, <1>3, <1>4, <1>7, <1>8 DEF F

-----------------------------------------------------------------------------
(* The steps.                                                              *)

\* What a step does to heap it does to rows.
LEMMA BecomesIs ==
  ASSUME NEW h, Becomes(h)
  PROVE  heap' = h /\ rows' = Fetched(h)
  BY DEF Becomes

\* An address of a row is a pair, of a page and a slot.
LEMMA RowsAre ==
  ASSUME IInv, NEW a \in DOMAIN rows
  PROVE  a = <<a[1], a[2]>> /\ <<a[1], a[2]>> \in DOMAIN Fetched(heap)
  BY FetchedIs DEF IInv

\* What a step leaves: a file, within the bound.
Stays(h) == FileOK(h) /\ (h.size <= MaxPages \/ h.size = 1)

\* The addresses that the bounds leave.
Address == (0..MaxPages) \X (0..PageCap)

\* fetch finds rows at addresses.
LEMMA RowAddresses ==
  ASSUME NEW h, Stays(h)
  PROVE  DOMAIN Fetched(h) \subseteq Address /\ \A a \in DOMAIN Fetched(h) : Fetched(h)[a] \in Value
<1>1. /\ \A p, s : <<p, s>> \in DOMAIN Fetched(h) <=> p \in DOMAIN h.data /\ s \in Int /\ s + 1 \in Live(h.data[p])
      /\ \A a \in DOMAIN Fetched(h) : a = <<a[1], a[2]>> /\ Fetched(h)[a] = h.data[a[1]].slots[a[2] + 1].row
  BY FetchedIs DEF Stays
<1>2. h.size \in Nat /\ DOMAIN h.data \subseteq 1..(h.size - 1)
  BY PagesFacts DEF Stays, FileOK
<1>3. MaxPages \in Nat /\ PageCap \in Nat
  BY HeapAssumption
<1>4. ASSUME NEW a \in DOMAIN Fetched(h) PROVE a \in Address /\ Fetched(h)[a] \in Value
  <2>1. PICK p, s : a = <<p, s>> /\ p \in DOMAIN h.data /\ s \in Int /\ s + 1 \in Live(h.data[p])
    BY <1>1
  <2>2. PageOK(h.data[p])
    BY <2>1 DEF Stays, FileOK
  <2>3. s + 1 \in 1..Len(h.data[p].slots) /\ Len(h.data[p].slots) <= PageCap /\ Len(h.data[p].slots) \in Nat
    <3>1. /\ Live(h.data[p]) \subseteq 1..Len(h.data[p].slots) /\ Len(h.data[p].slots) \in Nat
          /\ Len(h.data[p].slots) <= h.data[p].offset /\ h.data[p].offset <= PageCap /\ h.data[p].offset \in Int
      BY <2>2, PageFacts
    <3> QED BY <1>3, <2>1, <3>1
  <2>4. s \in 0..PageCap
    BY <1>3, <2>1, <2>3
  <2>5. p \in 0..MaxPages
    BY <1>2, <1>3, <2>1 DEF Stays
  <2>6. h.data[p].slots[s + 1].row \in Value
    BY <2>1, <2>2 DEF PageOK, Records
  <2> QED BY <1>1, <2>1, <2>4, <2>5, <2>6 DEF Address
<1> QED BY <1>4

\* Insert adds a row; that its address was free is in InsertedIs.
LEMMA InsertSteps ==
  ASSUME IInv, NEW v \in Value, Insert(v)
  PROVE  /\ Stays(heap') /\ rows' = Fetched(heap')
         /\ \E b \in Address : rows' = With(rows, b, v)
<1>0. /\ FileOK(heap) /\ rows = Fetched(heap) /\ (heap.size <= MaxPages \/ heap.size = 1)
      /\ MaxPages \in Nat /\ heap.size \in Nat
  BY HeapAssumption, PagesFacts DEF IInv, FileOK
<1>1. PICK r : r = InsertedRow(heap, v)
  OBVIOUS
<1>2. heap' = r.h /\ rows' = Fetched(r.h)
  BY <1>1, BecomesIs DEF Insert
<1>3. /\ FileOK(r.h) /\ r.h.size \in heap.size..(heap.size + 2) /\ (Roomy(heap, v) # {} => r.h.size = heap.size)
      /\ r.rid \in (1..(r.h.size - 1)) \X (0..PageCap) /\ r.rid \notin DOMAIN Fetched(heap)
      /\ Fetched(r.h) = With(Fetched(heap), r.rid, v)
  BY <1>0, <1>1, InsertedIs
<1>4. heap.size + 1 < MaxPages \/ Roomy(heap, v) # {}
  BY DEF Insert
<1>5. Stays(r.h)
  BY <1>0, <1>3, <1>4 DEF Stays
<1>6. r.rid \in Address
  <2>1. r.rid \in DOMAIN Fetched(r.h)
    BY <1>3 DEF With
  <2> QED BY <1>5, <2>1, RowAddresses
<1> QED BY <1>0, <1>2, <1>3, <1>5, <1>6

\* Delete takes one row away.
LEMMA DeleteSteps ==
  ASSUME IInv, NEW a \in DOMAIN rows, Delete(a[1], a[2])
  PROVE  /\ Stays(heap') /\ rows' = Fetched(heap')
         /\ rows' = [b \in DOMAIN rows \ {a} |-> rows[b]]
<1>1. PICK p, s : p = a[1] /\ s = a[2]
  OBVIOUS
<1>2. a = <<p, s>> /\ <<p, s>> \in DOMAIN Fetched(heap)
  BY <1>1, RowsAre
<1>3. PICK g : g = Synced(heap, p, DeletedIn(heap.data[p], s))
  OBVIOUS
<1>4. heap' = g /\ rows' = Fetched(g)
  BY <1>1, <1>3, BecomesIs DEF Delete
<1>5. FileOK(g) /\ g.size = heap.size /\ Fetched(g) = [b \in DOMAIN Fetched(heap) \ {<<p, s>>} |-> Fetched(heap)[b]]
  BY <1>2, <1>3, DeletedIs DEF IInv
<1> QED BY <1>2, <1>4, <1>5 DEF IInv, Stays

\* Update replaces one row.
LEMMA UpdateSteps ==
  ASSUME IInv, NEW a \in DOMAIN rows, NEW v \in Value, Update(a[1], a[2], v)
  PROVE  /\ Stays(heap') /\ rows' = Fetched(heap')
         /\ rows' = With(rows, a, v)
<1>1. PICK p, s : p = a[1] /\ s = a[2]
  OBVIOUS
<1>2. a = <<p, s>> /\ <<p, s>> \in DOMAIN Fetched(heap)
  BY <1>1, RowsAre
<1>3. PICK g : g = Synced(heap, p, RowSet(heap.data[p], s + 1, v))
  OBVIOUS
<1>4. heap' = g /\ rows' = Fetched(g) /\ heap.data[p].slots[s + 1].size = Size[v]
  <2>1. Becomes(Synced(heap, p, RowSet(heap.data[p], s + 1, v))) /\ heap.data[p].slots[s + 1].size = Size[v]
    BY <1>1 DEF Update, RowSet
  <2> QED BY <1>3, <2>1, BecomesIs
<1>5. FileOK(g) /\ g.size = heap.size /\ Fetched(g) = With(Fetched(heap), <<p, s>>, v)
  BY <1>2, <1>3, <1>4, UpdatedIs DEF IInv
<1> QED BY <1>2, <1>4, <1>5 DEF IInv, Stays

\* Compact changes no row.
LEMMA CompactSteps ==
  ASSUME IInv, NEW p \in DOMAIN heap.data, Compact(p)
  PROVE  Stays(heap') /\ rows' = Fetched(heap') /\ rows' = rows
<1>1. PICK g : g = Synced(heap, p, Defragmented(heap.data[p]))
  OBVIOUS
<1>2. heap' = g /\ rows' = Fetched(g)
  BY <1>1, BecomesIs DEF Compact
<1>3. FileOK(g) /\ g.size = heap.size /\ Fetched(g) = Fetched(heap)
  BY <1>1, CompactedIs DEF IInv
<1> QED BY <1>2, <1>3 DEF IInv, Stays

\* A restart that reads the count it wrote.
LEMMA ReopenSteps ==
  ASSUME IInv, Reopen, TRUE \notin Lost
  PROVE  Stays(heap') /\ rows' = Fetched(heap') /\ rows' = rows
<1>0. Pages(heap) /\ Directory(heap)
  BY DEF IInv, FileOK
<1>1. Becomes(Opened([heap EXCEPT !.dir[0].count = heap.count]))
  BY DEF Reopen
<1>2. [heap EXCEPT !.dir[0].count = heap.count] = heap
  <2>1. /\ heap = [count |-> heap.count, dirs |-> heap.dirs, size |-> heap.size, dir |-> heap.dir, data |-> heap.data]
        /\ heap.dir \in [DOMAIN heap.dir -> DirPage] /\ 0 \in DOMAIN heap.dir /\ heap.dir[0].count = heap.count
    BY <1>0, PagesFacts DEF Pages, Directory
  <2>2. heap.dir[0] \in DirPage
    BY <2>1
  <2>3. PICK first : first = [heap.dir[0] EXCEPT !.count = heap.count]
    OBVIOUS
  <2>4. first = heap.dir[0]
    BY <2>1, <2>2, <2>3 DEF DirPage
  <2>5. PICK dir : dir = [heap.dir EXCEPT ![0] = first]
    OBVIOUS
  <2>6. dir = heap.dir
    BY <2>1, <2>4, <2>5
  <2>7. [heap EXCEPT !.dir[0].count = heap.count] = [heap EXCEPT !.dir = dir]
    BY <2>3, <2>5
  <2>8. [heap EXCEPT !.dir = heap.dir] = heap
    BY <2>1
  <2> QED BY <2>6, <2>7, <2>8
<1>3. heap' = heap /\ rows' = Fetched(heap)
  BY <1>0, <1>1, <1>2, BecomesIs, OpenedSame
<1> QED BY <1>3 DEF IInv, Stays

-----------------------------------------------------------------------------
(* The invariant.                                                          *)

\* The new file: one directory page, no rows.
LEMMA EmptyIsFile == FileOK(Empty) /\ Empty.size = 1 /\ Fetched(Empty) = [a \in {} |-> 0]
<1> DEFINE h == Empty
<1>0. EntriesPerDir \in Nat /\ EntriesPerDir > 1
  BY HeapAssumption
<1>1. h.count = 0 /\ h.dirs = <<0>> /\ h.size = 1 /\ h.dir = [p \in {0} |-> NewDir] /\ DOMAIN h.data = {}
      /\ h.data = [p \in {} |-> NewDir]
      /\ h = [count |-> h.count, dirs |-> h.dirs, size |-> h.size, dir |-> h.dir, data |-> h.data]
  BY DEF Empty
<1>2. <<0>> \in Seq(Nat) /\ <<0>> # <<>> /\ Len(<<0>>) = 1 /\ <<0>>[1] = 0 /\ DOMAIN <<0>> = 1..1
      /\ IsInjective(<<0>>) /\ ToSet(<<0>>) = {0}
  BY DEF IsInjective, ToSet
<1>3. NewDir \in DirPage /\ NewDir.next = NoDir /\ NewDir.count = 0
  BY DEF NewDir, DirPage, NoDir
<1> HIDE DEF h
<1>4. Pages(h)
  <2>1. DOMAIN h.dir \cup DOMAIN h.data = 0..(h.size - 1)
    BY <1>1
  <2>2. h.dir \in [DOMAIN h.dir -> DirPage] /\ DOMAIN h.dir = {0}
    BY <1>1, <1>3
  <2>3. h.data = [p \in DOMAIN h.data |-> h.data[p]]
    BY <1>1
  <2> QED BY <1>1, <1>2, <2>1, <2>2, <2>3 DEF Pages
<1>5. Directory(h)
  BY <1>1, <1>2, <1>3 DEF Directory
<1>6. FileOK(h)
  BY <1>1, <1>4, <1>5 DEF FileOK
<1>7. Fetched(h) = [a \in {} |-> 0]
  <2>1. /\ \A p, s : <<p, s>> \in DOMAIN Fetched(h) <=> p \in DOMAIN h.data /\ s \in Int /\ s + 1 \in Live(h.data[p])
        /\ \A a \in DOMAIN Fetched(h) : a = <<a[1], a[2]>>
        /\ Fetched(h) = [a \in DOMAIN Fetched(h) |-> Fetched(h)[a]]
    BY <1>6, FetchedIs
  <2>2. DOMAIN Fetched(h) = {}
    <3>1. ASSUME NEW a \in DOMAIN Fetched(h) PROVE FALSE
      BY <1>1, <2>1
    <3> QED BY <3>1
  <2> QED BY <2>1, <2>2
<1> QED BY <1>1, <1>6, <1>7 DEF h

\* Each step keeps the invariant.
LEMMA StepsKeep ==
  ASSUME IInv, [Next]_vars, TRUE \notin Lost
  PROVE  IInv'
<1>1. ASSUME Stays(heap'), rows' = Fetched(heap') PROVE IInv'
  BY <1>1 DEF IInv, Stays
<1>2. ASSUME NEW v \in Value, Insert(v) PROVE IInv'
  BY <1>1, <1>2, InsertSteps
<1>3. ASSUME NEW a \in DOMAIN rows, Delete(a[1], a[2]) PROVE IInv'
  BY <1>1, <1>3, DeleteSteps
<1>4. ASSUME NEW a \in DOMAIN rows, NEW v \in Value, Update(a[1], a[2], v) PROVE IInv'
  BY <1>1, <1>4, UpdateSteps
<1>5. ASSUME NEW p \in DOMAIN heap.data, Compact(p) PROVE IInv'
  BY <1>1, <1>5, CompactSteps
<1>6. ASSUME Reopen PROVE IInv'
  BY <1>1, <1>6, ReopenSteps
<1>7. ASSUME UNCHANGED vars PROVE IInv'
  BY <1>7 DEF IInv, vars
<1> QED BY <1>2, <1>3, <1>4, <1>5, <1>6, <1>7 DEF Next

\* Pages, directory and rows agree in every reachable state, after any number of inserts,
\* deletes, updates, compactions and restarts that read the count they wrote.
THEOREM Invariance ==
  ASSUME TRUE \notin Lost
  PROVE  Spec => []IInv
<1>1. Init => IInv
  BY EmptyIsFile DEF Init, IInv
<1>2. IInv /\ [Next]_vars => IInv'
  BY StepsKeep
<1> QED BY <1>1, <1>2, PTL DEF Spec

\* The parts of HeapSound follow from the invariant: the records of a page,
LEMMA SlotsAreSound ==
  ASSUME IInv
  PROVE  TypeOK
<1>0. Pages(heap) /\ \A p \in DOMAIN heap.data : PageOK(heap.data[p])
  BY DEF IInv, FileOK
<1>1. DOMAIN heap.dir \cup DOMAIN heap.data = 0..(heap.size - 1) /\ DOMAIN heap.dir \cap DOMAIN heap.data = {}
  BY <1>0 DEF Pages
<1>2. ASSUME NEW pg, PageOK(pg)
      PROVE  /\ pg.offset \in Len(pg.slots)..PageCap
             /\ \A s \in Live(pg) :
                  /\ pg.slots[s].at >= pg.offset /\ pg.slots[s].at + pg.slots[s].size <= PageCap
                  /\ pg.slots[s].size = Size[pg.slots[s].row]
                  /\ \A t \in Live(pg) \ {s} :
                       \/ pg.slots[s].at + pg.slots[s].size <= pg.slots[t].at
                       \/ pg.slots[t].at + pg.slots[t].size <= pg.slots[s].at
  <2>1. pg.offset \in Len(pg.slots)..PageCap
    <3>1. pg.offset \in Int /\ Len(pg.slots) \in Nat /\ Len(pg.slots) <= pg.offset /\ pg.offset <= PageCap
      BY <1>2, PageFacts
    <3> QED BY <3>1, HeapAssumption
  <2> QED BY <1>2, <2>1 DEF PageOK, Records, Apart
<1> QED BY <1>0, <1>1, <1>2 DEF TypeOK

\* its list of dead slots,
LEMMA DeadAreExact ==
  ASSUME IInv
  PROVE  FreeListExact
<1>1. ASSUME NEW pg, PageOK(pg)
      PROVE  LET dead == {s - 1 : s \in DOMAIN pg.slots \ Live(pg)}
                 walk == Walk([s \in dead |-> pg.slots[s + 1].at], pg.first, Len(pg.slots) + 1)
             IN  /\ Range(walk) = dead \cup {NoSlot}
                 /\ Len(walk) = Cardinality(dead) + 1
  BY <1>1, DeadAreListed DEF Dead
<1> QED BY <1>1 DEF IInv, FileOK, FreeListExact

\* the directory and the file that is opened again,
LEMMA DirectoryIsTrue ==
  ASSUME IInv
  PROVE  DirectoryTrue /\ ReopensSame
<1>0. Pages(heap) /\ Directory(heap)
  BY DEF IInv, FileOK
<1>1. /\ heap.size \in Nat /\ DOMAIN heap.data \subseteq 1..(heap.size - 1)
      /\ Range(heap.dirs) = DOMAIN heap.dir /\ NextPageId(heap) = heap.size
      /\ \A p \in Int : IsData(heap, p) <=> p \in DOMAIN heap.data
  BY <1>0, PagesFacts
<1>2. {p \in 1..heap.size : IsData(heap, p)} = DOMAIN heap.data
  <2>1. \A p \in 1..heap.size : p \in Int
    OBVIOUS
  <2>2. \A p \in DOMAIN heap.data : p \in 1..heap.size
    BY <1>1
  <2> QED BY <1>1, <2>1, <2>2
<1>3. DirectoryTrue
  BY <1>0, <1>1, <1>2 DEF DirectoryTrue, Directory
<1> QED BY <1>0, <1>3, OpenedSame DEF ReopensSame

\* and the row that is inserted next.
LEMMA InsertsArePlaced ==
  ASSUME IInv
  PROVE  InsertPlaces
<1>1. ASSUME NEW v \in Value, NEW r, r = InsertedRow(heap, v)
      PROVE  /\ r.rid \notin DOMAIN rows
             /\ Fetched(Opened(r.h)) = [a \in DOMAIN rows \cup {r.rid} |-> IF a = r.rid THEN v ELSE rows[a]]
  <2>1. FileOK(r.h) /\ r.rid \notin DOMAIN Fetched(heap) /\ Fetched(r.h) = With(Fetched(heap), r.rid, v)
    BY <1>1, InsertedIs DEF IInv
  <2>2. Opened(r.h) = r.h
    BY <2>1, OpenedSame DEF FileOK
  <2> QED BY <2>1, <2>2 DEF IInv, With
<1> QED BY <1>1 DEF InsertPlaces

\* Records never overlap, the list of dead slots is exact, the directory is true, a file
\* that is opened again is the same, a scan lists what fetches find, and insert places a
\* row where none was: for any sizes of pages, directories and records, when no count is lost.
THEOREM HeapIsSound ==
  ASSUME TRUE \notin Lost
  PROVE  Spec => []HeapSound
<1>1. IInv => HeapSound
  <2>1. ASSUME IInv PROVE ScanMatchesFetch
    BY <2>1, ScanIs DEF IInv, ScanMatchesFetch
  <2> QED BY <2>1, SlotsAreSound, DeadAreExact, DirectoryIsTrue, InsertsArePlaced DEF HeapSound
<1> QED BY <1>1, Invariance, PTL

\* Each step is one of RowStore, or changes no row.
LEMMA StepsAreSteps ==
  ASSUME IInv, [Next]_vars, TRUE \notin Lost
  PROVE  [Map!Next]_rows
<1>1. ASSUME Stays(heap'), rows' = Fetched(heap') PROVE \A b \in DOMAIN rows' : rows'[b] \in Value
  BY <1>1, RowAddresses
<1>2. ASSUME NEW v \in Value, Insert(v) PROVE Map!Next
  <2>1. PICK b \in Address : rows' = With(rows, b, v)
    BY <1>2, InsertSteps
  <2>2. \A c \in (DOMAIN rows \cup DOMAIN rows') \ {b} :
          c \in DOMAIN rows /\ c \in DOMAIN rows' /\ rows'[c] = rows[c]
    BY <2>1 DEF With
  <2>3. \A c \in DOMAIN rows' : rows'[c] \in Value
    BY <1>1, <1>2, InsertSteps
  <2> QED BY <2>2, <2>3 DEF Map!Next, Address
<1>3. ASSUME NEW a \in DOMAIN rows, Delete(a[1], a[2]) PROVE Map!Next
  <2>1. rows' = [b \in DOMAIN rows \ {a} |-> rows[b]]
    BY <1>3, DeleteSteps
  <2>2. \A c \in (DOMAIN rows \cup DOMAIN rows') \ {a} :
          c \in DOMAIN rows /\ c \in DOMAIN rows' /\ rows'[c] = rows[c]
    BY <2>1
  <2>3. \A c \in DOMAIN rows' : rows'[c] \in Value
    BY <1>1, <1>3, DeleteSteps
  <2>4. a \in Address
    BY RowAddresses DEF IInv, Stays
  <2> QED BY <2>2, <2>3, <2>4 DEF Map!Next, Address
<1>4. ASSUME NEW a \in DOMAIN rows, NEW v \in Value, Update(a[1], a[2], v) PROVE Map!Next
  <2>1. rows' = With(rows, a, v)
    BY <1>4, UpdateSteps
  <2>2. \A c \in (DOMAIN rows \cup DOMAIN rows') \ {a} :
          c \in DOMAIN rows /\ c \in DOMAIN rows' /\ rows'[c] = rows[c]
    BY <2>1 DEF With
  <2>3. \A c \in DOMAIN rows' : rows'[c] \in Value
    BY <1>1, <1>4, UpdateSteps
  <2>4. a \in Address
    BY RowAddresses DEF IInv, Stays
  <2> QED BY <2>2, <2>3, <2>4 DEF Map!Next, Address
<1>5. ASSUME NEW p \in DOMAIN heap.data, Compact(p) PROVE UNCHANGED rows
  BY <1>5, CompactSteps
<1>6. ASSUME Reopen PROVE UNCHANGED rows
  BY <1>6, ReopenSteps
<1>7. ASSUME UNCHANGED vars PROVE UNCHANGED rows
  BY <1>7 DEF vars
<1> QED BY <1>2, <1>3, <1>4, <1>5, <1>6, <1>7 DEF Next

\* The heap file is a store of rows: each keeps its address and its value until it is
\* updated or deleted there; compaction and a restart change none.
THEOREM HeapIsRowStore ==
  ASSUME TRUE \notin Lost
  PROVE  Spec => ImplementsRowStore
<1>1. Init => Map!Init
  BY DEF Init, Map!Init
<1>2. IInv /\ [Next]_vars => [Map!Next]_rows
  BY StepsAreSteps
<1> QED BY <1>1, <1>2, Invariance, PTL DEF Spec, ImplementsRowStore, Map!Spec
=============================================================================
