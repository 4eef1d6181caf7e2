-------------------------- MODULE ExternalSortProofs --------------------------
(***************************************************************************)
(* ORDER BY with external_sort.py loses no row, hands out none twice, and  *)
(* hands them out in order whenever its consumer stops: for any budget and *)
(* any rows, in both directions.  That the order of the bytes does not     *)
(* contradict the order of the values is what the merge rests on.          *)
(*                                                                         *)
(* The inductive invariant says that each run is in order behind the entry *)
(* that the heap has of it, and that buffer, runs and output part the      *)
(* items that have come between them.                                      *)
(***************************************************************************)
EXTENDS ExternalSort, DataLemmas

\* What the assumptions say of the sizes and of the keys.
Sizes == Budget \in Nat /\ MaxItems \in Nat

OrderKept ==
  /\ Code \subseteq Int /\ ValueOf \in [Code -> Int]
  /\ \A c, d \in Code : c <= d => ValueOf[c] <= ValueOf[d]

-----------------------------------------------------------------------------
(* The inductive invariant.                                                *)

All  == {Item(i) : i \in 1..Len(input)}
Come == {Item(i) : i \in 1..taken}

\* x need not come after y; v is reverse.
MayPrecede(v, x, y) == ~ (IF v THEN Value(x) < Value(y) ELSE Value(y) < Value(x))
InOrder(v, s)       == \A i, j \in DOMAIN s : i < j => MayPrecede(v, s[i], s[j])

\* What is still to come of run i: its entries in the heap m and its file in r.
EntriesOf(m, i) == {e \in m : e.run = i}
Part(r, m, i)   == ToSet(r[i]) \cup {e.item : e \in EntriesOf(m, i)}

\* What the files r and the heap m have.
AllOf(r, m) == (UNION {ToSet(r[i]) : i \in DOMAIN r}) \cup {e.item : e \in m}

Sorts ==
  /\ input \in Seq(Code) /\ reverse \in BOOLEAN /\ taken \in 0..Len(input)
  /\ stage \in {"fill", "memory", "merge", "done"}
  /\ buffer \in Seq(All) /\ runs \in Seq(Seq(All)) /\ output \in Seq(All)
  /\ merging \subseteq [item: All, seq: Nat, run: DOMAIN runs]

\* A run lists items once and in order, and its entry, of which there is one at most,
\* is before them.
RunOK(v, r, m, i) ==
  /\ IsInjective(r[i]) /\ InOrder(v, r[i])
  /\ \A e, f \in EntriesOf(m, i) : e = f
  /\ \A e \in EntriesOf(m, i) : e.item \notin ToSet(r[i]) /\ \A x \in ToSet(r[i]) : MayPrecede(v, e.item, x)
RunsOK == \A i \in DOMAIN runs : RunOK(reverse, runs, merging, i)

\* No item is in two runs, or in a run and the buffer.
Apart(r, m, b) ==
  /\ \A i, j \in DOMAIN r : i # j => Part(r, m, i) \cap Part(r, m, j) = {}
  /\ \A i \in DOMAIN r : Part(r, m, i) \cap ToSet(b) = {}

BufferOK == IsInjective(buffer) /\ Len(buffer) <= Budget

\* What the stages have to do with the places.
StageOK ==
  /\ stage = "fill"   => merging = {} /\ output = <<>> /\ \A i \in DOMAIN runs : runs[i] # <<>>
  /\ stage = "memory" => merging = {} /\ runs = <<>> /\ InOrder(reverse, buffer)
  /\ stage = "merge"  => buffer = <<>> /\ \A i \in DOMAIN runs : runs[i] # <<>> => EntriesOf(merging, i) # {}
  /\ stage = "done"   => merging = {} /\ runs = <<>> /\ buffer = <<>>

\* Nothing is lost or doubled, and nothing that is left belongs before what is out.
OutputOK ==
  /\ IsInjective(output) /\ InOrder(reverse, output)
  /\ stage # "done" =>
       /\ ToSet(output) \cap Remaining = {} /\ ToSet(output) \cup Remaining = Come
       /\ \A x \in ToSet(output) : \A y \in Remaining : MayPrecede(reverse, x, y)

IInv == Sorts /\ RunsOK /\ Apart(runs, merging, buffer) /\ BufferOK /\ StageOK /\ OutputOK

-----------------------------------------------------------------------------
(* Items and their order.                                                  *)

LEMMA ItemsAre ==
  ASSUME Sorts, OrderKept
  PROVE  /\ Len(input) \in Nat
         /\ \A i \in 1..Len(input) : Item(i) \in All /\ Item(i)[2] = i
         /\ \A x \in All : x[1] \in Code /\ Value(x) \in Int /\ x[2] \in 1..Len(input) /\ x = Item(x[2])
         /\ \A x \in Come : x \in All /\ x[2] <= taken
<1>1. Len(input) \in Nat /\ \A i \in 1..Len(input) : input[i] \in Code
  BY LenProperties DEF Sorts
<1>2. \A i \in 1..Len(input) : Item(i) \in All /\ Item(i)[1] \in Code /\ Item(i)[2] = i
  BY <1>1 DEF Item, All
<1>3. \A x \in All : x[1] \in Code /\ x[2] \in 1..Len(input) /\ x = Item(x[2])
  BY <1>2 DEF All
<1>4. \A x \in All : Value(x) \in Int
  BY <1>3 DEF Value, OrderKept
<1>5. \A i \in 1..taken : i \in 1..Len(input) /\ i <= taken
  BY <1>1 DEF Sorts
<1> QED
  BY <1>1, <1>2, <1>3, <1>4, <1>5 DEF Come

\* Precedes is a strict order of the numbers, in both directions.
LEMMA OrderIsStrict ==
  ASSUME reverse \in BOOLEAN
  PROVE  /\ \A a \in Int : ~ Precedes(a, a)
         /\ \A a, b \in Int : Precedes(a, b) \/ Precedes(b, a) \/ a = b
         /\ \A a, b, c \in Int : Precedes(a, b) /\ Precedes(b, c) => Precedes(a, c)
  BY DEF Precedes

\* SortedItems has the items of s, each once, in order: the places of the items are a
\* permutation, since each item has its own and none is above the length.
LEMMA SortedItemsAre ==
  ASSUME reverse \in BOOLEAN, NEW S, \A x \in S : Value(x) \in Int,
         NEW s \in Seq(S), IsInjective(s)
  PROVE  /\ SortedItems(s) \in Seq(S) /\ Len(SortedItems(s)) = Len(s)
         /\ IsInjective(SortedItems(s)) /\ ToSet(SortedItems(s)) = ToSet(s)
         /\ InOrder(reverse, SortedItems(s))
<1> DEFINE n           == Len(s)
           ahead(i, j) == Precedes(Value(s[i]), Value(s[j])) \/ (Value(s[i]) = Value(s[j]) /\ i < j)
           before(j)   == {i \in 1..n : ahead(i, j)}
           place(j)    == Cardinality(before(j)) + 1
<1>1. n \in Nat /\ DOMAIN s = 1..n /\ \A i \in 1..n : s[i] \in S /\ Value(s[i]) \in Int
  BY LenProperties
<1>2. /\ \A i \in 1..n : ~ ahead(i, i)
      /\ \A i, j \in 1..n : i # j => ahead(i, j) \/ ahead(j, i)
      /\ \A i, j, k \in 1..n : ahead(i, j) /\ ahead(j, k) => ahead(i, k)
  <2>1. \A i \in 1..n : i \in Int
    OBVIOUS
  <2>2. ASSUME NEW i \in 1..n PROVE ~ ahead(i, i)
    BY <1>1, <2>1, OrderIsStrict
  <2>3. ASSUME NEW i \in 1..n, NEW j \in 1..n, i # j PROVE ahead(i, j) \/ ahead(j, i)
    <3>1. i < j \/ j < i
      BY <2>1, <2>3
    <3> QED
      BY <1>1, <3>1, OrderIsStrict
  <2>4. ASSUME NEW i \in 1..n, NEW j \in 1..n, NEW k \in 1..n, ahead(i, j), ahead(j, k) PROVE ahead(i, k)
    <3>1. i < j /\ j < k => i < k
      BY <2>1
    <3> QED
      BY <1>1, <2>4, <3>1, OrderIsStrict
  <2> QED
    BY <2>2, <2>3, <2>4
<1> HIDE DEF ahead
<1>3. IsFiniteSet(1..n) /\ Cardinality(1..n) = n
  BY <1>1, FS_Interval, 1 \in Int, n \in Int, n - 1 + 1 = n
<1>4. ASSUME NEW j \in 1..n PROVE IsFiniteSet(before(j)) /\ place(j) \in 1..n
  <2>1. IsFiniteSet((1..n) \ {j}) /\ Cardinality((1..n) \ {j}) = n - 1
    BY <1>3, FS_RemoveElement, ZenonT(30)
  <2>2. before(j) \in SUBSET ((1..n) \ {j})
    BY <1>2
  <2>3. IsFiniteSet(before(j)) /\ Cardinality(before(j)) <= n - 1
    BY <2>1, <2>2, FS_Subset
  <2>4. Cardinality(before(j)) \in Nat
    BY <2>3, FS_CardinalityType
  <2> QED
    BY <1>1, <2>3, <2>4
<1>5. ASSUME NEW i \in 1..n, NEW j \in 1..n, ahead(i, j) PROVE place(i) < place(j)
  <2>1. before(i) \in SUBSET before(j) /\ i \in before(j) /\ i \notin before(i)
    BY <1>2, <1>5
  <2>2. IsFiniteSet(before(j)) /\ before(i) # before(j)
    BY <1>4, <2>1
  <2>3. Cardinality(before(i)) <= Cardinality(before(j)) /\ Cardinality(before(i)) # Cardinality(before(j))
    BY <2>1, <2>2, FS_Subset
  <2>4. Cardinality(before(i)) \in Nat /\ Cardinality(before(j)) \in Nat
    BY <1>4, FS_CardinalityType
  <2> QED
    BY <2>3, <2>4
<1>6. PICK p : p = [j \in 1..n |-> place(j)]
  OBVIOUS
<1>7. PICK q : q = [k \in 1..n |-> CHOOSE i \in 1..n : place(i) = k]
  OBVIOUS
<1>8. SortedItems(s) = [k \in 1..n |-> s[q[k]]]
  BY <1>1, <1>7 DEF SortedItems, ahead
<1>9. \A i \in 1..n : p[i] = place(i)
  BY <1>6
<1>10. \A k \in 1..n : q[k] = CHOOSE i \in 1..n : place(i) = k
  BY <1>7
<1> HIDE DEF place, before
<1>11. p \in Injection(1..n, 1..n)
  <2>1. p \in [1..n -> 1..n]
    BY <1>4, <1>6
  <2>2. \A i, j \in 1..n : p[i] = p[j] => i = j
    <3> SUFFICES ASSUME NEW i \in 1..n, NEW j \in 1..n, i # j PROVE p[i] # p[j]
      OBVIOUS
    <3>1. place(i) < place(j) \/ place(j) < place(i)
      BY <1>2, <1>5
    <3>2. place(i) \in Int /\ place(j) \in Int
      BY <1>4
    <3> QED
      BY <1>9, <3>1, <3>2
  <2> QED
    BY <2>1, <2>2 DEF Injection, IsInjective
<1>12. p \in Surjection(1..n, 1..n)
  BY <1>3, <1>11, FS_Injection
<1>13. \A k \in 1..n : q[k] \in 1..n /\ place(q[k]) = k
  <2>1. \A k \in 1..n : \E i \in 1..n : place(i) = k
    BY <1>9, <1>12 DEF Surjection
  <2> QED
    BY <1>10, <2>1
<1>14. \A i \in 1..n : place(i) \in 1..n /\ q[place(i)] = i
  BY <1>4, <1>9, <1>11, <1>13 DEF Injection, IsInjective
<1>15. PICK r : r = SortedItems(s)
  OBVIOUS
<1>16. r \in [1..n -> S] /\ \A k \in 1..n : r[k] = s[q[k]]
  BY <1>1, <1>8, <1>13, <1>15
<1>17. r \in Seq(S) /\ Len(r) = n /\ DOMAIN r = 1..n
  <2>1. PICK l \in Nat : l = n
    BY <1>1
  <2>2. r \in [1..l -> S]
    BY <1>16, <2>1
  <2>3. r \in Seq(S)
    BY <2>2, SeqDef
  <2>4. DOMAIN r = 1..l
    BY <2>2
  <2> QED
    BY <2>1, <2>3, <2>4, LenProperties
<1>18. IsInjective(r)
  <2> SUFFICES ASSUME NEW k \in 1..n, NEW l \in 1..n, r[k] = r[l] PROVE k = l
    BY <1>17 DEF IsInjective
  <2>1. q[k] = q[l]
    BY <1>1, <1>13, <1>16 DEF IsInjective
  <2> QED
    BY <1>13, <2>1
<1>19. ToSet(r) = ToSet(s)
  <2>1. ASSUME NEW k \in 1..n PROVE r[k] \in ToSet(s)
    BY <1>1, <1>13, <1>16 DEF ToSet
  <2>2. ASSUME NEW i \in 1..n PROVE s[i] \in ToSet(r)
    <3>1. place(i) \in 1..n /\ r[place(i)] = s[i]
      BY <1>14, <1>16
    <3> QED
      BY <1>17, <3>1 DEF ToSet
  <2> QED
    BY <1>1, <1>17, <2>1, <2>2 DEF ToSet
<1>20. InOrder(reverse, r)
  <2> SUFFICES ASSUME NEW k \in 1..n, NEW l \in 1..n, k < l
               PROVE  ~ Precedes(Value(s[q[l]]), Value(s[q[k]]))
    BY <1>16, <1>17 DEF InOrder, MayPrecede, Precedes
  <2>1. q[k] \in 1..n /\ q[l] \in 1..n /\ place(q[k]) = k /\ place(q[l]) = l
    BY <1>13
  <2>2. ~ ahead(q[l], q[k])
    BY <1>5, <2>1
  <2> QED
    BY <2>2 DEF ahead
<1> QED
  BY <1>15, <1>17, <1>18, <1>19, <1>20

\* What files and heap have is in the parts of the runs.
LEMMA PartsAre ==
  ASSUME NEW r, NEW m, \A e \in m : e.run \in DOMAIN r
  PROVE  \A x : x \in AllOf(r, m) <=> \E i \in DOMAIN r : x \in Part(r, m, i)
  BY DEF AllOf, Part, EntriesOf

\* As long as the heap is empty, the parts of the runs are their files.
LEMMA NoEntries ==
  ASSUME NEW r, NEW i
  PROVE  EntriesOf({}, i) = {} /\ Part(r, {}, i) = ToSet(r[i])
  BY DEF Part, EntriesOf

\* The first of what is in order is before the rest.
LEMMA HeadIsFirst ==
  ASSUME NEW S, NEW s \in Seq(S), s # <<>>, NEW v, InOrder(v, s), IsInjective(s)
  PROVE  InOrder(v, Tail(s)) /\ \A x \in ToSet(Tail(s)) : MayPrecede(v, Head(s), x)
<1>1. /\ Len(s) \in Nat \ {0} /\ DOMAIN s = 1..Len(s) /\ Head(s) = s[1]
      /\ Tail(s) \in Seq(S) /\ Len(Tail(s)) = Len(s) - 1
      /\ \A i \in 1..Len(s) - 1 : Tail(s)[i] = s[i + 1]
  BY EmptySeq, LenProperties, HeadTailProperties
<1>2. DOMAIN Tail(s) = 1..Len(s) - 1
  BY <1>1, LenProperties
<1>3. \A i \in 1..Len(s) - 1 : i + 1 \in 1..Len(s) /\ 1 < i + 1 /\ 1 \in 1..Len(s)
  BY <1>1
<1>4. \A i, j \in 1..Len(s) - 1 : i < j => i + 1 < j + 1
  BY <1>1
<1>5. InOrder(v, Tail(s))
  BY <1>1, <1>2, <1>3, <1>4 DEF InOrder
<1>6. ASSUME NEW x \in ToSet(Tail(s)) PROVE MayPrecede(v, Head(s), x)
  <2>1. PICK i \in 1..Len(s) - 1 : x = s[i + 1]
    BY <1>1, <1>2, <1>6 DEF ToSet
  <2> QED
    BY <1>1, <1>3, <2>1 DEF InOrder
<1> QED
  BY <1>5, <1>6

\* What may come after all that is out is handed out.
LEMMA OutputGrows ==
  ASSUME NEW S, NEW s \in Seq(S), NEW v, InOrder(v, s), NEW x \in S, \A y \in ToSet(s) : MayPrecede(v, y, x)
  PROVE  InOrder(v, Append(s, x))
<1>1. /\ Len(s) \in Nat /\ DOMAIN s = 1..Len(s) /\ DOMAIN Append(s, x) = 1..Len(s) + 1
      /\ \A i \in 1..Len(s) : Append(s, x)[i] = s[i]
      /\ Append(s, x)[Len(s) + 1] = x
  BY AppendProperties, LenProperties
<1>2. SUFFICES ASSUME NEW i \in 1..Len(s) + 1, NEW j \in 1..Len(s) + 1, i < j
               PROVE  MayPrecede(v, Append(s, x)[i], Append(s, x)[j])
  BY <1>1 DEF InOrder
<1>3. i \in 1..Len(s)
  BY <1>1, <1>2
<1>4. CASE j = Len(s) + 1
  BY <1>1, <1>3, <1>4 DEF ToSet
<1>5. CASE j # Len(s) + 1
  <2>1. j \in 1..Len(s)
    BY <1>1, <1>5
  <2> QED
    BY <1>1, <1>2, <1>3, <2>1 DEF InOrder
<1> QED
  BY <1>4, <1>5

LEMMA EmptyIsInOrder == \A v : InOrder(v, <<>>)
<1>1. <<>> \in Seq({}) /\ Len(<<>>) = 0
  BY EmptySeq
<1>2. DOMAIN <<>> = {}
  BY <1>1, LenProperties
<1> QED
  BY <1>2 DEF InOrder

-----------------------------------------------------------------------------
(* The invariant holds at first, and every action keeps it.                *)

\* What depends on what no action changes.
LEMMA InputsStay ==
  ASSUME UNCHANGED input
  PROVE  All' = All /\ \A i : Item(i)' = Item(i)
  BY DEF All, Item

\* The members of what is left, and of what is left after a step.
LEMMA LeftNow ==
  ASSUME Sorts
  PROVE  \A x : x \in Remaining <=> x \in ToSet(buffer) \/ \E i \in DOMAIN runs : x \in Part(runs, merging, i)
<1>1. \A e \in merging : e.run \in DOMAIN runs
  BY DEF Sorts
<1> QED
  BY <1>1, PartsAre DEF Remaining, InRuns, AllOf

LEMMA LeftNext ==
  ASSUME \A e \in merging' : e.run \in DOMAIN runs'
  PROVE  \A x : x \in Remaining' <=> x \in ToSet(buffer') \/ \E i \in DOMAIN runs' : x \in Part(runs', merging', i)
  BY PartsAre DEF Remaining, InRuns, AllOf

LEMMA InitIsGood ==
  ASSUME Sizes, SortInit
  PROVE  IInv
<1>1. PICK n \in 0..MaxItems : input \in [1..n -> Code]
  BY DEF SortInit
<1>2. n \in Nat
  BY DEF Sizes
<1>3. input \in Seq(Code) /\ Len(input) = n
  BY <1>1, <1>2, SeqDef, LenProperties
<1>4. Sorts
  BY <1>2, <1>3, EmptySeq DEF Sorts, SortInit
<1>5. DOMAIN runs = {}
  <2>1. <<>> \in Seq({}) /\ Len(<<>>) = 0
    BY EmptySeq
  <2> QED
    BY <2>1, LenProperties DEF SortInit
<1>6. \A x : x \notin Remaining
  BY <1>4, <1>5, LeftNow, EmptyIsInjective DEF SortInit
<1>7. \A x : x \notin Come
  BY DEF Come, SortInit
<1>8. OutputOK
  BY <1>6, <1>7, EmptyIsInjective, EmptyIsInOrder DEF OutputOK, SortInit
<1>9. BufferOK
  <2>1. Len(<<>>) = 0
    BY EmptySeq
  <2> QED
    BY <2>1, EmptyIsInjective DEF BufferOK, SortInit, Sizes
<1>10. RunsOK /\ Apart(runs, merging, buffer) /\ StageOK
  BY <1>5 DEF RunsOK, Apart, StageOK, SortInit
<1> QED
  BY <1>4, <1>8, <1>9, <1>10 DEF IInv

\* Runs as they are written, and their items.
Written(v, q) ==
  /\ \A i \in DOMAIN q : q[i] # <<>> /\ IsInjective(q[i]) /\ InOrder(v, q[i])
  /\ \A i, j \in DOMAIN q : i # j => ToSet(q[i]) \cap ToSet(q[j]) = {}
InFiles(q) == UNION {ToSet(q[i]) : i \in DOMAIN q}

\* While the heap is empty and nothing is out, all that has come is in the buffer and in
\* the runs, which are as they were written.
LEMMA FilledWith ==
  ASSUME IInv, stage = "fill"
  PROVE  /\ merging = {} /\ output = <<>> /\ Written(reverse, runs)
         /\ Come = ToSet(buffer) \cup InFiles(runs) /\ ToSet(buffer) \cap InFiles(runs) = {}
<1>1. merging = {} /\ output = <<>> /\ \A i \in DOMAIN runs : runs[i] # <<>>
  BY DEF IInv, StageOK
<1>2. \A i : Part(runs, merging, i) = ToSet(runs[i])
  BY <1>1, NoEntries
<1>3. \A x : x \in Come <=> x \in ToSet(buffer) \/ \E i \in DOMAIN runs : x \in ToSet(runs[i])
  BY <1>1, <1>2, LeftNow, EmptyIsInjective DEF IInv, OutputOK
<1>4. \A i \in DOMAIN runs : IsInjective(runs[i]) /\ InOrder(reverse, runs[i])
  BY DEF IInv, RunsOK, RunOK
<1>5. Written(reverse, runs)
  BY <1>1, <1>2, <1>4 DEF IInv, Apart, Written
<1>6. ToSet(buffer) \cap InFiles(runs) = {}
  BY <1>2 DEF IInv, Apart, InFiles
<1> QED
  BY <1>1, <1>3, <1>5, <1>6 DEF InFiles

\* The same, as what is to be shown of a step that leaves the heap empty.
LEMMA StillFilled ==
  ASSUME NEW v, NEW q, NEW b, Written(v, q), ToSet(b) \cap InFiles(q) = {}
  PROVE  (\A i \in DOMAIN q : RunOK(v, q, {}, i)) /\ Apart(q, {}, b)
<1>1. \A i \in DOMAIN q : RunOK(v, q, {}, i)
  BY NoEntries DEF RunOK, Written
<1>2. \A i \in DOMAIN q : Part(q, {}, i) \subseteq InFiles(q)
  BY NoEntries DEF InFiles
<1> QED
  BY <1>1, <1>2, NoEntries DEF Apart, Written

\* A run that is written is one more of the same kind.
LEMMA RunAdded ==
  ASSUME NEW v, NEW S, NEW q \in Seq(Seq(S)), NEW s \in Seq(S), Written(v, q),
         s # <<>>, IsInjective(s), InOrder(v, s), ToSet(s) \cap InFiles(q) = {}
  PROVE  /\ Append(q, s) \in Seq(Seq(S)) /\ Written(v, Append(q, s))
         /\ InFiles(Append(q, s)) = InFiles(q) \cup ToSet(s)
<1>1. PICK r : r = Append(q, s)
  OBVIOUS
<1>2. /\ r \in Seq(Seq(S)) /\ Len(q) \in Nat
      /\ DOMAIN q = 1..Len(q) /\ DOMAIN r = 1..Len(q) + 1
      /\ \A i \in DOMAIN q : r[i] = q[i]
      /\ r[Len(q) + 1] = s
  BY <1>1, AppendProperties, LenProperties
<1>3. /\ \A i \in DOMAIN r : i \in DOMAIN q \/ i = Len(q) + 1
      /\ DOMAIN q \subseteq DOMAIN r /\ Len(q) + 1 \in DOMAIN r
  BY <1>2
<1>4. \A i \in DOMAIN q : ToSet(q[i]) \cap ToSet(s) = {}
  BY DEF InFiles
<1>5. \A i \in DOMAIN r : r[i] # <<>> /\ IsInjective(r[i]) /\ InOrder(v, r[i])
  BY <1>2, <1>3 DEF Written
<1>6. \A i, j \in DOMAIN r : i # j => ToSet(r[i]) \cap ToSet(r[j]) = {}
  BY <1>2, <1>3, <1>4 DEF Written
<1>7. \A y : y \in InFiles(r) <=> y \in InFiles(q) \/ y \in ToSet(s)
  BY <1>2, <1>3 DEF InFiles
<1> QED
  BY <1>1, <1>2, <1>5, <1>6, <1>7 DEF Written

LEMMA TakeIsGood ==
  ASSUME Sizes, OrderKept, IInv, Take
  PROVE  IInv'
<1>1. Sorts /\ BufferOK /\ stage = "fill" /\ taken < Len(input) /\ taken' = taken + 1
  BY DEF IInv, Take
<1>2. UNCHANGED <<input, reverse, merging, stage, output>>
  BY DEF Take
<1>3. PICK x : x = Item(taken + 1)
  OBVIOUS
<1>4. PICK full : full = Append(buffer, x)
  OBVIOUS
<1>5. taken \in Nat /\ taken + 1 \in 1..Len(input) /\ x \in All /\ x[2] = taken + 1
  BY <1>1, <1>3, ItemsAre DEF Sorts
<1>6. x \notin Come
  BY <1>1, <1>5, ItemsAre
<1>7. Come' = Come \cup {x}
  <2>1. 1..taken + 1 = (1..taken) \cup {taken + 1}
    BY <1>5
  <2> QED
    BY <1>1, <1>2, <1>3, <2>1, InputsStay DEF Come
<1>8. /\ Written(reverse, runs) /\ Come = ToSet(buffer) \cup InFiles(runs)
      /\ ToSet(buffer) \cap InFiles(runs) = {}
  BY <1>1, FilledWith
<1>9. full \in Seq(All) /\ IsInjective(full) /\ ToSet(full) = ToSet(buffer) \cup {x}
  BY <1>1, <1>4, <1>5, <1>6, <1>8, AppendToInjective DEF Sorts, BufferOK
<1>10. taken' \in 0..Len(input)' /\ input' \in Seq(Code) /\ reverse' \in BOOLEAN
  BY <1>1, <1>2, <1>5 DEF Sorts
<1>11. All' = All /\ merging' = {} /\ output' = <<>> /\ stage' = "fill"
  BY <1>1, <1>2, InputsStay, FilledWith
<1>12. SUFFICES
         /\ buffer' \in Seq(All) /\ IsInjective(buffer') /\ Len(buffer') <= Budget
         /\ runs' \in Seq(Seq(All)) /\ Written(reverse, runs')
         /\ ToSet(buffer') \cap InFiles(runs') = {}
         /\ Come \cup {x} = ToSet(buffer') \cup InFiles(runs')
  <2>1. PICK r, b : r = runs' /\ b = buffer'
    OBVIOUS
  <2>2. Sorts'
    BY <1>10, <1>11, <1>12, EmptySeq DEF Sorts
  <2>3. (\A i \in DOMAIN r : RunOK(reverse, r, {}, i)) /\ Apart(r, {}, b)
    BY <1>12, <2>1, StillFilled
  <2>4. RunsOK' /\ Apart(runs, merging, buffer)'
    BY <1>2, <1>11, <2>1, <2>3 DEF RunsOK
  <2>5. StageOK' /\ BufferOK'
    BY <1>11, <1>12 DEF StageOK, BufferOK, Written
  <2>6. Remaining' = ToSet(buffer') \cup InFiles(runs')
    BY <1>11 DEF Remaining, InRuns, InFiles
  <2>7. OutputOK'
    BY <1>7, <1>11, <1>12, <2>6, EmptyIsInjective, EmptyIsInOrder DEF OutputOK
  <2> QED
    BY <2>2, <2>4, <2>5, <2>7 DEF IInv
<1>13. CASE Len(full) >= Budget
  <2>1. PICK s : s = SortedItems(full)
    OBVIOUS
  <2>2. /\ s \in Seq(All) /\ Len(s) = Len(full) /\ IsInjective(s) /\ ToSet(s) = ToSet(full)
        /\ InOrder(reverse, s)
    BY <1>1, <1>9, <2>1, ItemsAre, SortedItemsAre DEF Sorts
  <2>3. s # <<>>
    BY <1>9, <2>2, EmptyIsInjective
  <2>4. runs' = Append(runs, s) /\ buffer' = <<>>
    BY <1>3, <1>4, <1>13, <2>1 DEF Take
  <2>5. ToSet(s) \cap InFiles(runs) = {}
    BY <1>6, <1>8, <1>9, <2>2
  <2>6. /\ runs' \in Seq(Seq(All)) /\ Written(reverse, runs')
        /\ InFiles(runs') = InFiles(runs) \cup ToSet(s)
    BY <1>1, <1>8, <2>2, <2>3, <2>4, <2>5, RunAdded DEF Sorts
  <2>7. ToSet(buffer') = {} /\ Len(buffer') = 0 /\ IsInjective(buffer') /\ buffer' \in Seq(All)
    BY <2>4, EmptySeq, EmptyIsInjective
  <2>8. Len(buffer') <= Budget
    BY <2>7 DEF Sizes
  <2> QED
    BY <1>8, <1>9, <2>2, <2>6, <2>7, <2>8
<1>14. CASE ~ (Len(full) >= Budget)
  <2>1. runs' = runs /\ buffer' = full
    BY <1>3, <1>4, <1>14 DEF Take
  <2>2. Len(full) <= Budget
    BY <1>9, <1>14, LenProperties DEF Sizes
  <2> QED
    BY <1>1, <1>6, <1>8, <1>9, <2>1, <2>2 DEF Sorts
<1> QED
  BY <1>13, <1>14

\* Dropping the runs leaves what is out.
LEMMA DropIsGood ==
  ASSUME Sizes, IInv, DropRuns, UNCHANGED <<input, reverse, taken, output>>
  PROVE  IInv'
<1>1. runs' = <<>> /\ merging' = {} /\ buffer' = <<>> /\ stage' = "done"
  BY DEF DropRuns
<1>2. DOMAIN runs' = {} /\ Len(buffer') = 0
  <2>1. <<>> \in Seq({}) /\ Len(<<>>) = 0
    BY EmptySeq
  <2> QED
    BY <1>1, <2>1, LenProperties
<1>3. All' = All
  BY InputsStay
<1>4. Sorts'
  BY <1>1, <1>3, EmptySeq DEF IInv, Sorts
<1>5. BufferOK'
  BY <1>1, <1>2, EmptyIsInjective DEF BufferOK, Sizes
<1>6. RunsOK' /\ Apart(runs, merging, buffer)' /\ StageOK'
  BY <1>1, <1>2 DEF RunsOK, Apart, StageOK
<1>7. OutputOK'
  BY <1>1 DEF IInv, OutputOK
<1> QED
  BY <1>4, <1>5, <1>6, <1>7 DEF IInv

LEMMA InMemoryIsGood ==
  ASSUME Sizes, OrderKept, IInv, InMemory, buffer # <<>>
  PROVE  IInv'
<1>1. Sorts /\ BufferOK /\ OutputOK /\ stage = "fill" /\ runs = <<>> /\ merging = {} /\ output = <<>>
  BY FilledWith DEF IInv, InMemory
<1>2. buffer' = SortedItems(buffer) /\ stage' = "memory"
      /\ UNCHANGED <<input, reverse, taken, runs, merging, output>>
  BY DEF InMemory
<1>3. /\ buffer' \in Seq(All) /\ Len(buffer') = Len(buffer) /\ IsInjective(buffer')
      /\ ToSet(buffer') = ToSet(buffer) /\ InOrder(reverse, buffer')
  BY <1>1, <1>2, ItemsAre, SortedItemsAre DEF Sorts, BufferOK
<1>4. DOMAIN runs = {}
  <2>1. <<>> \in Seq({}) /\ Len(<<>>) = 0
    BY EmptySeq
  <2> QED
    BY <1>1, <2>1, LenProperties
<1>5. All' = All /\ Come' = Come
  BY <1>2, InputsStay DEF Come
<1>6. Remaining' = Remaining
  BY <1>2, <1>3 DEF Remaining, InRuns
<1>7. Sorts'
  BY <1>1, <1>2, <1>3, <1>5 DEF Sorts
<1>8. BufferOK' /\ StageOK'
  BY <1>1, <1>2, <1>3 DEF BufferOK, StageOK
<1>9. RunsOK' /\ Apart(runs, merging, buffer)'
  BY <1>2, <1>4 DEF RunsOK, Apart
<1>10. OutputOK'
  BY <1>1, <1>2, <1>5, <1>6 DEF OutputOK
<1> QED
  BY <1>7, <1>8, <1>9, <1>10 DEF IInv

\* When the heap has the first of each run, each run is as it was, but for where its
\* first item is.
FirstOf(q) == {[item |-> q[i][1], seq |-> 0, run |-> i] : i \in DOMAIN q}
RestOf(q)  == [i \in DOMAIN q |-> Tail(q[i])]

Heaped(v, S, r, m) ==
  /\ r \in Seq(Seq(S)) /\ m \subseteq [item: S, seq: Nat, run: DOMAIN r]
  /\ \A i \in DOMAIN r : RunOK(v, r, m, i) /\ (r[i] # <<>> => EntriesOf(m, i) # {})
  /\ Apart(r, m, <<>>)

LEMMA HeapIsFilled ==
  ASSUME NEW v, NEW S, NEW q \in Seq(Seq(S)), Written(v, q)
  PROVE  Heaped(v, S, RestOf(q), FirstOf(q)) /\ AllOf(RestOf(q), FirstOf(q)) = InFiles(q)
<1>1. PICK r, m : r = RestOf(q) /\ m = FirstOf(q)
  OBVIOUS
<1>2. Len(q) \in Nat /\ DOMAIN q = 1..Len(q) /\ \A i \in 1..Len(q) : q[i] \in Seq(S)
  BY LenProperties
<1>3. DOMAIN r = DOMAIN q /\ \A i \in DOMAIN q : r[i] = Tail(q[i])
  BY <1>1 DEF RestOf
<1>4. PICK f : f = [i \in DOMAIN q |-> [item |-> q[i][1], seq |-> 0, run |-> i]]
  OBVIOUS
<1>5. ASSUME NEW i \in DOMAIN q
      PROVE  /\ r[i] \in Seq(S) /\ IsInjective(r[i]) /\ InOrder(v, r[i])
             /\ f[i].item \in S /\ f[i].item \in ToSet(q[i])
             /\ ToSet(r[i]) = ToSet(q[i]) \ {f[i].item}
             /\ \A x \in ToSet(r[i]) : MayPrecede(v, f[i].item, x)
  <2>1. PICK s \in Seq(S) : s = q[i]
    BY <1>2
  <2>2. s # <<>> /\ IsInjective(s) /\ InOrder(v, s)
    BY <2>1 DEF Written
  <2>3. Head(s) = s[1] /\ f[i].item = s[1]
    BY <1>4, <2>1
  <2>4. /\ Tail(s) \in Seq(S) /\ IsInjective(Tail(s)) /\ InOrder(v, Tail(s))
        /\ s[1] \in S /\ s[1] \in ToSet(s) /\ ToSet(Tail(s)) = ToSet(s) \ {s[1]}
        /\ \A x \in ToSet(Tail(s)) : MayPrecede(v, s[1], x)
    BY <2>2, <2>3, HeadIsFirst, TailOfInjective
  <2> QED
    BY <1>3, <2>1, <2>3, <2>4
<1>6. /\ \A i \in DOMAIN q : f[i].run = i /\ f[i] \in [item: S, seq: Nat, run: DOMAIN r]
      /\ \A e : e \in m <=> \E i \in DOMAIN q : e = f[i]
  BY <1>1, <1>3, <1>4, <1>5 DEF FirstOf
<1>7. r \in Seq(Seq(S))
  <2>1. PICK n \in Nat : n = Len(q)
    BY <1>2
  <2>2. PICK T : T = Seq(S)
    OBVIOUS
  <2>3. r \in [1..n -> T]
    BY <1>1, <1>2, <1>3, <1>5, <2>1, <2>2 DEF RestOf
  <2>4. r \in Seq(T)
    BY <2>3, SeqDef
  <2> QED
    BY <2>2, <2>4
<1>8. m \subseteq [item: S, seq: Nat, run: DOMAIN r]
  BY <1>6
<1>9. \A i \in DOMAIN q : \A e : e \in EntriesOf(m, i) <=> e = f[i]
  <2> SUFFICES ASSUME NEW i \in DOMAIN q, NEW e PROVE e \in m /\ e.run = i <=> e = f[i]
    BY DEF EntriesOf
  <2>1. f[i] \in m /\ f[i].run = i
    BY <1>6
  <2>2. ASSUME e \in m, e.run = i PROVE e = f[i]
    BY <1>6, <2>2
  <2> QED
    BY <2>1, <2>2
<1>10. \A i \in DOMAIN q : Part(r, m, i) = ToSet(q[i])
  <2> SUFFICES ASSUME NEW i \in DOMAIN q, NEW y PROVE y \in Part(r, m, i) <=> y \in ToSet(q[i])
    OBVIOUS
  <2>1. y \in Part(r, m, i) <=> y \in ToSet(r[i]) \/ y = f[i].item
    BY <1>9 DEF Part
  <2> QED
    BY <1>5, <2>1
<1>11. ASSUME NEW i \in DOMAIN r PROVE RunOK(v, r, m, i)
  <2>1. /\ IsInjective(r[i]) /\ InOrder(v, r[i]) /\ f[i].item \notin ToSet(r[i])
        /\ \A x \in ToSet(r[i]) : MayPrecede(v, f[i].item, x)
    BY <1>3, <1>5
  <2> QED
    BY <1>3, <1>9, <2>1 DEF RunOK
<1>12. \A i \in DOMAIN r : EntriesOf(m, i) # {}
  BY <1>3, <1>9
<1>13. Apart(r, m, <<>>)
  <2>1. /\ DOMAIN r = DOMAIN q /\ ToSet(<<>>) = {}
        /\ \A i, j \in DOMAIN q : i # j => ToSet(q[i]) \cap ToSet(q[j]) = {}
    BY <1>3, EmptyIsInjective DEF Written
  <2>2. \A i, j \in DOMAIN r : i # j => Part(r, m, i) \cap Part(r, m, j) = {}
    BY <1>10, <2>1
  <2> QED
    BY <2>1, <2>2 DEF Apart
<1>14. AllOf(r, m) = InFiles(q)
  <2> SUFFICES ASSUME NEW y PROVE y \in AllOf(r, m) <=> y \in InFiles(q)
    OBVIOUS
  <2>1. y \in {e.item : e \in m} <=> \E i \in DOMAIN q : y = f[i].item
    BY <1>6
  <2>2. y \in UNION {ToSet(r[i]) : i \in DOMAIN r} <=> \E i \in DOMAIN q : y \in ToSet(r[i])
    BY <1>3
  <2>3. y \in InFiles(q) <=> \E i \in DOMAIN q : y \in ToSet(q[i])
    BY DEF InFiles
  <2>4. \A i \in DOMAIN q : y \in ToSet(q[i]) <=> y \in ToSet(r[i]) \/ y = f[i].item
    BY <1>5
  <2> QED
    BY <2>1, <2>2, <2>3, <2>4 DEF AllOf
<1> QED
  BY <1>1, <1>7, <1>8, <1>11, <1>12, <1>13, <1>14 DEF Heaped

LEMMA StartMergeIsGood ==
  ASSUME Sizes, OrderKept, IInv, StartMerge
  PROVE  IInv'
<1>1. Sorts /\ BufferOK /\ OutputOK /\ stage = "fill" /\ merging = {} /\ output = <<>>
  BY FilledWith DEF IInv, StartMerge
<1>2. buffer' = <<>> /\ stage' = "merge" /\ UNCHANGED <<input, reverse, taken, output>>
  BY DEF StartMerge
<1>3. PICK q : q = IF buffer = <<>> THEN runs ELSE Append(runs, SortedItems(buffer))
  OBVIOUS
<1>4. merging' = FirstOf(q) /\ runs' = RestOf(q)
  BY <1>3 DEF StartMerge, FirstOf, RestOf
<1>5. /\ Written(reverse, runs) /\ Come = ToSet(buffer) \cup InFiles(runs)
      /\ ToSet(buffer) \cap InFiles(runs) = {}
  BY <1>1, FilledWith
<1>6. q \in Seq(Seq(All)) /\ Written(reverse, q) /\ InFiles(q) = Come
  <2>1. CASE buffer = <<>>
    BY <1>1, <1>3, <1>5, <2>1, EmptyIsInjective DEF Sorts
  <2>2. CASE buffer # <<>>
    <3>1. PICK s : s = SortedItems(buffer)
      OBVIOUS
    <3>2. s \in Seq(All) /\ IsInjective(s) /\ ToSet(s) = ToSet(buffer) /\ InOrder(reverse, s)
      BY <1>1, <3>1, ItemsAre, SortedItemsAre DEF Sorts, BufferOK
    <3>3. s # <<>>
      BY <1>1, <2>2, <3>2, EmptyIsInjective, NonemptyHasElements DEF Sorts
    <3>4. q = Append(runs, s) /\ ToSet(s) \cap InFiles(runs) = {}
      BY <1>3, <1>5, <2>2, <3>1, <3>2
    <3> QED
      BY <1>1, <1>5, <3>2, <3>3, <3>4, RunAdded DEF Sorts
  <2> QED
    BY <2>1, <2>2
<1>7. Heaped(reverse, All, runs', merging') /\ AllOf(runs', merging') = InFiles(q)
  BY <1>4, <1>6, HeapIsFilled
<1>8. PICK r, m : r = runs' /\ m = merging'
  OBVIOUS
<1>9. /\ r \in Seq(Seq(All)) /\ m \subseteq [item: All, seq: Nat, run: DOMAIN r]
      /\ \A i \in DOMAIN r : RunOK(reverse, r, m, i) /\ (r[i] # <<>> => EntriesOf(m, i) # {})
      /\ Apart(r, m, <<>>)
  BY <1>7, <1>8 DEF Heaped
<1>10. All' = All /\ Come' = Come
  BY <1>2, InputsStay DEF Come
<1>11. Sorts'
  BY <1>1, <1>2, <1>8, <1>9, <1>10, EmptySeq DEF Sorts
<1>12. RunsOK'
  BY <1>2, <1>8, <1>9 DEF RunsOK
<1>13. Apart(runs, merging, buffer)' /\ StageOK'
  BY <1>2, <1>8, <1>9 DEF StageOK
<1>14. BufferOK'
  BY <1>2, EmptySeq, EmptyIsInjective DEF BufferOK, Sizes
<1>15. InRuns' = Come
  BY <1>6, <1>7 DEF InRuns, AllOf
<1>16. OutputOK'
  BY <1>1, <1>2, <1>10, <1>15, EmptyIsInjective, EmptyIsInOrder DEF OutputOK, Remaining
<1> QED
  BY <1>11, <1>12, <1>13, <1>14, <1>16 DEF IInv

\* The heap without e, with the next of e's run if there is one; and its file.
HeapAfter(r, m, e) ==
  IF r[e.run] = <<>> THEN m \ {e}
  ELSE (m \ {e}) \cup {[item |-> Head(r[e.run]), seq |-> e.seq + 1, run |-> e.run]}
FilesAfter(r, e) == IF r[e.run] = <<>> THEN r ELSE [r EXCEPT ![e.run] = Tail(@)]

\* The run of an entry that leaves the heap loses its item and nothing else, and the
\* other runs nothing.
LEMMA EntryLeaves ==
  ASSUME NEW v, NEW S, NEW r, NEW m, Heaped(v, S, r, m), NEW e \in m
  PROVE  /\ Heaped(v, S, FilesAfter(r, e), HeapAfter(r, m, e))
         /\ AllOf(FilesAfter(r, e), HeapAfter(r, m, e)) = AllOf(r, m) \ {e.item}
<1>1. PICK k : k = e.run
  OBVIOUS
<1>2. PICK s, t, n : s = FilesAfter(r, e) /\ t = HeapAfter(r, m, e)
                     /\ n = [item |-> Head(r[k]), seq |-> e.seq + 1, run |-> k]
  OBVIOUS
<1>3. /\ r \in Seq(Seq(S)) /\ m \subseteq [item: S, seq: Nat, run: DOMAIN r]
      /\ \A i \in DOMAIN r : RunOK(v, r, m, i) /\ (r[i] # <<>> => EntriesOf(m, i) # {})
      /\ \A i, j \in DOMAIN r : i # j => Part(r, m, i) \cap Part(r, m, j) = {}
  BY DEF Heaped, Apart
<1>4. k \in DOMAIN r /\ e.item \in S /\ e.seq \in Nat /\ \A i \in DOMAIN r : r[i] \in Seq(S)
  BY <1>1, <1>3
<1>5. /\ IsInjective(r[k]) /\ InOrder(v, r[k]) /\ e.item \notin ToSet(r[k])
      /\ \A f \in m : f.run = k => f = e
      /\ \A x \in ToSet(r[k]) : MayPrecede(v, e.item, x)
  BY <1>1, <1>3, <1>4 DEF RunOK, EntriesOf
<1>6. Part(r, m, k) = ToSet(r[k]) \cup {e.item}
  BY <1>1, <1>5 DEF Part, EntriesOf
<1>7. /\ DOMAIN s = DOMAIN r /\ s \in Seq(Seq(S))
      /\ \A i \in DOMAIN r : i # k => s[i] = r[i]
      /\ t \subseteq [item: S, seq: Nat, run: DOMAIN r]
      /\ \A i \in DOMAIN r : i # k => EntriesOf(t, i) = EntriesOf(m, i)
      /\ RunOK(v, s, t, k) /\ (s[k] # <<>> => EntriesOf(t, k) # {})
      /\ Part(s, t, k) = ToSet(r[k])
  <2>1. CASE r[k] = <<>>
    <3>1. s = r /\ t = m \ {e}
      BY <1>1, <1>2, <2>1 DEF HeapAfter, FilesAfter
    <3>2. EntriesOf(t, k) = {} /\ \A i \in DOMAIN r : i # k => EntriesOf(t, i) = EntriesOf(m, i)
      BY <1>1, <1>5, <3>1 DEF EntriesOf
    <3> QED
      BY <1>3, <1>5, <2>1, <3>1, <3>2, ZenonT(30) DEF RunOK, Part
  <2>2. CASE r[k] # <<>>
    <3>1. s = [r EXCEPT ![k] = Tail(r[k])] /\ t = (m \ {e}) \cup {n}
      BY <1>1, <1>2, <2>2 DEF HeapAfter, FilesAfter
    <3>2. /\ Head(r[k]) \in ToSet(r[k]) /\ Head(r[k]) \in S
          /\ Tail(r[k]) \in Seq(S) /\ IsInjective(Tail(r[k]))
          /\ ToSet(Tail(r[k])) = ToSet(r[k]) \ {Head(r[k])}
      BY <1>4, <1>5, <2>2, TailOfInjective
    <3>3. InOrder(v, Tail(r[k])) /\ \A x \in ToSet(Tail(r[k])) : MayPrecede(v, Head(r[k]), x)
      BY <1>4, <1>5, <2>2, HeadIsFirst
    <3>4. /\ DOMAIN s = DOMAIN r /\ s[k] = Tail(r[k]) /\ \A i \in DOMAIN r : i # k => s[i] = r[i]
      BY <1>4, <3>1
    <3>5. s \in Seq(Seq(S))
      <4>1. PICK T, l : T = Seq(S) /\ l \in Nat /\ l = Len(r) /\ r \in [1..l -> T]
        BY <1>3, <1>4, LenProperties
      <4>2. s \in [1..l -> T]
        BY <3>1, <3>2, <4>1
      <4>3. s \in Seq(T)
        BY <4>1, <4>2, SeqDef
      <4> QED
        BY <4>1, <4>3
    <3>6. n \in [item: S, seq: Nat, run: DOMAIN r] /\ n.item = Head(r[k]) /\ n.run = k
      BY <1>2, <1>4, <3>2
    <3>7. \A f : f \in EntriesOf(t, k) <=> f = n
      BY <1>1, <1>5, <3>1, <3>6 DEF EntriesOf
    <3>8. \A i \in DOMAIN r : i # k => EntriesOf(t, i) = EntriesOf(m, i)
      BY <1>1, <3>1, <3>6 DEF EntriesOf
    <3>9. t \subseteq [item: S, seq: Nat, run: DOMAIN r]
      BY <1>3, <3>1, <3>6
    <3>10. RunOK(v, s, t, k) /\ EntriesOf(t, k) # {}
      <4>1. /\ IsInjective(s[k]) /\ InOrder(v, s[k]) /\ n.item \notin ToSet(s[k])
            /\ \A x \in ToSet(s[k]) : MayPrecede(v, n.item, x)
        BY <3>2, <3>3, <3>4, <3>6
      <4> QED
        BY <3>7, <4>1 DEF RunOK
    <3>11. Part(s, t, k) = ToSet(r[k])
      <4> SUFFICES ASSUME NEW y PROVE y \in Part(s, t, k) <=> y \in ToSet(r[k])
        OBVIOUS
      <4>1. y \in Part(s, t, k) <=> y \in ToSet(s[k]) \/ y = n.item
        BY <3>7 DEF Part
      <4> QED
        BY <3>2, <3>4, <3>6, <4>1
    <3> QED
      BY <3>4, <3>5, <3>8, <3>9, <3>10, <3>11
  <2> QED
    BY <2>1, <2>2
<1>8. \A i \in DOMAIN r : i # k => Part(s, t, i) = Part(r, m, i)
  BY <1>7 DEF Part
<1>9. \A i \in DOMAIN r : RunOK(v, s, t, i) /\ (s[i] # <<>> => EntriesOf(t, i) # {})
  <2> SUFFICES ASSUME NEW i \in DOMAIN r, i # k
               PROVE  RunOK(v, s, t, i) /\ (s[i] # <<>> => EntriesOf(t, i) # {})
    BY <1>7
  <2>1. s[i] = r[i] /\ EntriesOf(t, i) = EntriesOf(m, i)
    BY <1>7
  <2> QED
    BY <1>3, <2>1 DEF RunOK
<1>10. Apart(s, t, <<>>)
  <2>1. Part(s, t, k) \subseteq Part(r, m, k)
    BY <1>6, <1>7
  <2>2. \A i, j \in DOMAIN r : i # j => Part(s, t, i) \cap Part(s, t, j) = {}
    BY <1>3, <1>8, <2>1
  <2> QED
    BY <1>7, <2>2, EmptyIsInjective DEF Apart
<1>11. AllOf(s, t) = AllOf(r, m) \ {e.item}
  <2> SUFFICES ASSUME NEW y PROVE y \in AllOf(s, t) <=> y \in AllOf(r, m) /\ y # e.item
    OBVIOUS
  <2>1. y \in AllOf(r, m) <=> \E i \in DOMAIN r : y \in Part(r, m, i)
    <3>1. \A f \in m : f.run \in DOMAIN r
      BY <1>3
    <3> QED
      BY <3>1, PartsAre
  <2>2. y \in AllOf(s, t) <=> \E i \in DOMAIN r : y \in Part(s, t, i)
    <3>1. \A f \in t : f.run \in DOMAIN s
      BY <1>7
    <3> QED
      BY <1>7, <3>1, PartsAre
  <2>3. y \in Part(s, t, k) <=> y \in Part(r, m, k) /\ y # e.item
    BY <1>5, <1>6, <1>7
  <2>4. \A i \in DOMAIN r : i # k => (y \in Part(r, m, i) => y # e.item)
    BY <1>3, <1>4, <1>6
  <2> QED
    BY <1>8, <2>1, <2>2, <2>3, <2>4
<1> QED
  BY <1>2, <1>7, <1>9, <1>10, <1>11 DEF Heaped

\* What comes is not after anything that is left: nothing in the heap is before it, and
\* nothing in a file is before the file's entry in the heap.
LEMMA LeastIsFirst ==
  ASSUME Sizes, OrderKept, Sorts, NEW r, NEW m, r = runs, m = merging, Heaped(reverse, All, r, m),
         NEW e \in m, Least(e)
  PROVE  \A y \in AllOf(r, m) : MayPrecede(reverse, e.item, y)
<1>1. /\ \A f \in m : f.item \in All /\ f.run \in DOMAIN r
      /\ \A i \in DOMAIN r : r[i] \in Seq(All) /\ RunOK(reverse, r, m, i) /\ (r[i] # <<>> => EntriesOf(m, i) # {})
  BY DEF Heaped
<1>2. \A x \in All : x[1] \in Code /\ Value(x) \in Int /\ Value(x) = ValueOf[x[1]]
  BY ItemsAre DEF Value
<1>3. ASSUME NEW f \in m PROVE MayPrecede(reverse, e.item, f.item)
  <2>1. PICK x, y : x = e.item /\ y = f.item
    OBVIOUS
  <2>2. PICK c, d : c = x[1] /\ d = y[1]
    OBVIOUS
  <2>3. /\ x \in All /\ y \in All /\ c \in Code /\ d \in Code /\ c \in Int /\ d \in Int
        /\ Value(x) \in Int /\ Value(y) \in Int /\ Value(x) = ValueOf[c] /\ Value(y) = ValueOf[d]
    BY <1>1, <1>2, <2>1, <2>2 DEF OrderKept
  <2>4. CASE reverse
    <3>1. d <= c
      BY <2>1, <2>2, <2>4 DEF Least
    <3>2. Value(y) <= Value(x)
      BY <2>3, <3>1 DEF OrderKept
    <3> QED
      BY <2>1, <2>3, <2>4, <3>2 DEF MayPrecede
  <2>5. CASE ~ reverse
    <3>1. f = e \/ c < d \/ c = d
      BY <2>1, <2>2, <2>5 DEF Least
    <3>2. c <= d
      BY <2>1, <2>2, <2>3, <3>1
    <3>3. Value(x) <= Value(y)
      BY <2>3, <3>2 DEF OrderKept
    <3> QED
      BY <2>1, <2>3, <2>5, <3>3 DEF MayPrecede
  <2> QED
    BY <2>4, <2>5
<1>4. ASSUME NEW i \in DOMAIN r, NEW y \in ToSet(r[i]) PROVE MayPrecede(reverse, e.item, y)
  <2>1. y \in All
    BY <1>1, ElementsOf
  <2>2. r[i] # <<>>
    BY EmptyIsInjective
  <2>3. PICK f \in m : f.run = i
    BY <1>1, <2>2 DEF EntriesOf
  <2>4. MayPrecede(reverse, f.item, y)
    BY <1>1, <2>3 DEF RunOK, EntriesOf
  <2>5. MayPrecede(reverse, e.item, f.item)
    BY <1>3
  <2>6. Value(e.item) \in Int /\ Value(f.item) \in Int /\ Value(y) \in Int
    BY <1>1, <1>2, <2>1
  <2> QED
    BY <2>4, <2>5, <2>6 DEF MayPrecede
<1> QED
  BY <1>3, <1>4 DEF AllOf

LEMMA MergeIsGood ==
  ASSUME Sizes, OrderKept, IInv, Merge
  PROVE  IInv'
<1>1. Sorts /\ BufferOK /\ StageOK /\ OutputOK /\ stage = "merge" /\ buffer = <<>>
  BY DEF IInv, Merge, StageOK
<1>2. UNCHANGED <<input, reverse, taken, buffer, stage>>
  BY DEF Merge
<1>3. PICK e \in merging :
        /\ Least(e) /\ output' = Append(output, e.item)
        /\ runs' = FilesAfter(runs, e) /\ merging' = HeapAfter(runs, merging, e)
  BY DEF Merge, FilesAfter, HeapAfter
<1>4. PICK r, m : r = runs /\ m = merging
  OBVIOUS
<1>5. PICK s, t : s = FilesAfter(r, e) /\ t = HeapAfter(r, m, e)
  OBVIOUS
<1>6. runs' = s /\ merging' = t
  BY <1>3, <1>4, <1>5
<1>7. Heaped(reverse, All, r, m)
  BY <1>1, <1>4 DEF IInv, Sorts, RunsOK, StageOK, Heaped
<1>8. Heaped(reverse, All, s, t) /\ AllOf(s, t) = AllOf(r, m) \ {e.item}
  BY <1>4, <1>5, <1>7, EntryLeaves
<1>9. Remaining = AllOf(r, m) /\ Remaining' = AllOf(s, t)
  BY <1>1, <1>2, <1>4, <1>6, EmptyIsInjective DEF Remaining, InRuns, AllOf
<1>10. \A y \in AllOf(r, m) : MayPrecede(reverse, e.item, y)
  BY <1>1, <1>3, <1>4, <1>7, LeastIsFirst
<1>11. e.item \in All /\ e.item \in Remaining
  BY <1>1, <1>4, <1>9 DEF Sorts, AllOf
<1>12. All' = All /\ Come' = Come
  BY <1>2, InputsStay DEF Come
<1>13. /\ IsInjective(output) /\ InOrder(reverse, output)
       /\ ToSet(output) \cap Remaining = {} /\ ToSet(output) \cup Remaining = Come
       /\ \A x \in ToSet(output) : \A y \in Remaining : MayPrecede(reverse, x, y)
  BY <1>1 DEF OutputOK
<1>14. /\ output' \in Seq(All) /\ IsInjective(output') /\ ToSet(output') = ToSet(output) \cup {e.item}
  BY <1>1, <1>3, <1>11, <1>13, AppendToInjective DEF Sorts
<1>15. InOrder(reverse, output')
  BY <1>1, <1>3, <1>11, <1>13, OutputGrows DEF Sorts
<1>16. OutputOK'
  <2>1. Remaining' = Remaining \ {e.item}
    BY <1>8, <1>9
  <2>2. ToSet(output') \cap Remaining' = {} /\ ToSet(output') \cup Remaining' = Come
    BY <1>11, <1>13, <1>14, <2>1
  <2>3. \A x \in ToSet(output') : \A y \in Remaining' : MayPrecede(reverse, x, y)
    BY <1>9, <1>10, <1>13, <1>14, <2>1
  <2> QED
    BY <1>2, <1>12, <1>14, <1>15, <2>2, <2>3 DEF OutputOK
<1>17. /\ s \in Seq(Seq(All)) /\ t \subseteq [item: All, seq: Nat, run: DOMAIN s]
       /\ \A i \in DOMAIN s : RunOK(reverse, s, t, i) /\ (s[i] # <<>> => EntriesOf(t, i) # {})
       /\ Apart(s, t, <<>>)
  BY <1>8 DEF Heaped
<1>18. Sorts'
  BY <1>1, <1>2, <1>6, <1>12, <1>14, <1>17 DEF Sorts
<1>19. RunsOK'
  BY <1>2, <1>6, <1>17 DEF RunsOK
<1>20. Apart(runs, merging, buffer)' /\ StageOK' /\ BufferOK'
  BY <1>1, <1>2, <1>6, <1>17 DEF StageOK, BufferOK
<1> QED
  BY <1>16, <1>18, <1>19, <1>20 DEF IInv

LEMMA FromMemoryIsGood ==
  ASSUME Sizes, OrderKept, IInv, FromMemory
  PROVE  IInv'
<1>1. /\ Sorts /\ BufferOK /\ OutputOK /\ stage = "memory" /\ buffer # <<>>
      /\ merging = {} /\ runs = <<>> /\ InOrder(reverse, buffer)
  BY DEF IInv, FromMemory, StageOK
<1>2. /\ output' = Append(output, Head(buffer)) /\ buffer' = Tail(buffer)
      /\ UNCHANGED <<input, reverse, taken, runs, merging, stage>>
  BY DEF FromMemory
<1>3. PICK x : x = Head(buffer)
  OBVIOUS
<1>4. /\ x \in ToSet(buffer) /\ x \in All
      /\ buffer' \in Seq(All) /\ IsInjective(buffer') /\ ToSet(buffer') = ToSet(buffer) \ {x}
  BY <1>1, <1>2, <1>3, TailOfInjective DEF Sorts, BufferOK
<1>5. InOrder(reverse, buffer') /\ \A y \in ToSet(buffer') : MayPrecede(reverse, x, y)
  BY <1>1, <1>2, <1>3, HeadIsFirst DEF Sorts, BufferOK
<1>6. Len(buffer') <= Budget
  <2>1. Len(buffer) \in Nat /\ Len(buffer') = Len(buffer) - 1
    BY <1>1, <1>2, EmptySeq, HeadTailProperties DEF Sorts
  <2> QED
    BY <1>1, <2>1 DEF BufferOK, Sizes
<1>7. DOMAIN runs = {}
  <2>1. <<>> \in Seq({}) /\ Len(<<>>) = 0
    BY EmptySeq
  <2> QED
    BY <1>1, <2>1, LenProperties
<1>8. Remaining = ToSet(buffer) /\ Remaining' = ToSet(buffer')
  BY <1>1, <1>2, <1>7 DEF Remaining, InRuns
<1>9. All' = All /\ Come' = Come
  BY <1>2, InputsStay DEF Come
<1>10. /\ IsInjective(output) /\ InOrder(reverse, output)
       /\ ToSet(output) \cap Remaining = {} /\ ToSet(output) \cup Remaining = Come
       /\ \A z \in ToSet(output) : \A y \in Remaining : MayPrecede(reverse, z, y)
  BY <1>1 DEF OutputOK
<1>11. /\ output' \in Seq(All) /\ IsInjective(output') /\ ToSet(output') = ToSet(output) \cup {x}
  BY <1>1, <1>2, <1>3, <1>4, <1>8, <1>10, AppendToInjective DEF Sorts
<1>12. InOrder(reverse, output')
  BY <1>1, <1>2, <1>3, <1>4, <1>8, <1>10, OutputGrows DEF Sorts
<1>13. OutputOK'
  <2>1. ToSet(output') \cap Remaining' = {} /\ ToSet(output') \cup Remaining' = Come
    BY <1>4, <1>8, <1>10, <1>11
  <2>2. \A z \in ToSet(output') : \A y \in Remaining' : MayPrecede(reverse, z, y)
    BY <1>4, <1>5, <1>8, <1>10, <1>11
  <2> QED
    BY <1>2, <1>9, <1>11, <1>12, <2>1, <2>2 DEF OutputOK
<1>14. Sorts'
  BY <1>1, <1>2, <1>4, <1>9, <1>11 DEF Sorts
<1>15. RunsOK' /\ Apart(runs, merging, buffer)'
  BY <1>2, <1>7 DEF RunsOK, Apart
<1>16. StageOK' /\ BufferOK'
  BY <1>1, <1>2, <1>4, <1>5, <1>6 DEF StageOK, BufferOK
<1> QED
  BY <1>13, <1>14, <1>15, <1>16 DEF IInv

LEMMA Invariance == SortSpec => []IInv
<1>1. Sizes /\ OrderKept
  BY SortAssumption, EncodingAssumption DEF Sizes, OrderKept
<1>2. SortInit => IInv
  BY <1>1, InitIsGood
<1>3. IInv /\ [SortNext]_sortVars => IInv'
  <2> SUFFICES ASSUME IInv, [SortNext]_sortVars PROVE IInv'
    OBVIOUS
  <2>1. CASE Take
    BY <2>1, <1>1, TakeIsGood
  <2>2. CASE InMemory
    <3>1. CASE buffer = <<>>
      BY <2>2, <3>1, <1>1, DropIsGood DEF InMemory
    <3>2. CASE buffer # <<>>
      BY <2>2, <3>2, <1>1, InMemoryIsGood
    <3> QED
      BY <3>1, <3>2
  <2>3. CASE StartMerge
    BY <2>3, <1>1, StartMergeIsGood
  <2>4. CASE Merge
    BY <2>4, <1>1, MergeIsGood
  <2>5. CASE FromMemory
    BY <2>5, <1>1, FromMemoryIsGood
  <2>6. CASE Finish
    BY <2>6, <1>1, DropIsGood DEF Finish
  <2>7. CASE UNCHANGED sortVars
    <3>1. UNCHANGED <<input, reverse, taken, buffer, runs, merging, stage, output>>
      BY <2>7 DEF sortVars
    <3>2. All' = All /\ Come' = Come /\ Remaining' = Remaining
      BY <3>1, InputsStay DEF Come, Remaining, InRuns
    <3>3. Sorts'
      BY <3>1, <3>2 DEF IInv, Sorts
    <3>4. RunsOK' /\ Apart(runs, merging, buffer)'
      BY <3>1 DEF IInv, RunsOK
    <3>5. BufferOK' /\ StageOK'
      BY <3>1 DEF IInv, BufferOK, StageOK
    <3>6. OutputOK'
      BY <3>1, <3>2 DEF IInv, OutputOK
    <3> QED
      BY <3>3, <3>4, <3>5, <3>6 DEF IInv
  <2> QED
    BY <2>1, <2>2, <2>3, <2>4, <2>5, <2>6, <2>7 DEF SortNext
<1> QED
  BY <1>2, <1>3, PTL DEF SortSpec

-----------------------------------------------------------------------------
(* The theorem.                                                            *)

\* Whenever the consumer of ORDER BY stops, what it has is the beginning of the sorted
\* rows: no row is lost or doubled between buffer, runs, heap and output, none of more
\* than the budget is in memory, and none that is still to come belongs before one that
\* is out, though a run is sorted by values and the heap compares bytes.
THEOREM SortIsExact == SortSpec => []SortExact
<1>1. IInv => SortExact
  <2> SUFFICES ASSUME IInv PROVE SortExact
    OBVIOUS
  <2>1. \A x, y : ~ Precedes(Value(y), Value(x)) <=> MayPrecede(reverse, x, y)
    BY DEF Precedes, MayPrecede
  <2>2. \A i \in DOMAIN output : output[i] \in ToSet(output)
    BY DEF ToSet
  <2>3. PrefixInOrder
    BY <2>1, <2>2 DEF IInv, OutputOK, InOrder, PrefixInOrder
  <2>4. \A e, f \in merging : e.run = f.run => e = f
    BY DEF IInv, Sorts, RunsOK, RunOK, EntriesOf
  <2>5. stage = "merge" => \A i \in DOMAIN runs : runs[i] # <<>> => \E e \in merging : e.run = i
    BY DEF IInv, StageOK, EntriesOf
  <2>6. TypeOK
    BY <2>4, <2>5 DEF TypeOK, IInv, BufferOK, OutputOK, Come
  <2> QED
    BY <2>3, <2>6 DEF SortExact
<1> QED
  BY <1>1, Invariance, PTL
=============================================================================
