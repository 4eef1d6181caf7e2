-------------------------- MODULE ExternalHashProofs --------------------------
(***************************************************************************)
(* JOIN and GROUP BY of external_hash.py are exact for any hash function,  *)
(* any number of buckets and any rows, as long as equal keys have equal    *)
(* bytes (the two zeros of a FLOAT have not).                              *)
(*                                                                         *)
(* The inductive invariant says where a row is: in the file of its bucket  *)
(* until that bucket is at work, then in the dictionary under its value,   *)
(* and nowhere when the bucket is done; and what has been handed out is    *)
(* what the rows that are done give.                                       *)
(***************************************************************************)
EXTENDS ExternalHash, DataLemmas

\* What the assumption says of the sizes; and that a value has one encoding.
Sizes       == NumBuckets \in Nat /\ MaxItems \in Nat
OneEncoding == \A c, d \in Code : ValueOf[c] = ValueOf[d] => c = d

-----------------------------------------------------------------------------
(* The inductive invariant.                                                *)

Values == {ValueOf[c] : c \in Code}
Sorts  == hash \in [Code -> Bucket] /\ grouping \in BOOLEAN
Sides  == left \in Seq(Code) /\ right \in Seq(Code) /\ (grouping => right = <<>>)
Counts == /\ dealt \in 0..Len(left) + Len(right) /\ bucket \in -1..NumBuckets
          /\ bucket # -1 => dealt = Len(left) + Len(right)

Home(x)      == hash[x[1]]
FilesTyped   == files \in [left: [Bucket -> Seq(Lefts)], right: [Bucket -> Seq(Rights)]]

\* A file g[b] holds items of its bucket, of the first n, each once; all of them as long
\* as the bucket at work, k, is before it.
FileOK(g, all, h, k, n, b) ==
  /\ IsInjective(g[b])
  /\ \A x \in ToSet(g[b]) : h[x[1]] = b /\ x[2] <= n
  /\ k < b => \A x \in all : h[x[1]] = b /\ x[2] <= n => x \in ToSet(g[b])
FileOKs(g, all, h, k, n) == \A b \in Bucket : FileOK(g, all, h, k, n, b)
Used(b)  == files["left"][b] = <<>> /\ (~ grouping => files["right"][b] = <<>>)
FilesOK  == \A b \in Bucket : /\ FileOK(files["left"], Lefts, hash, bucket, dealt, b)
                              /\ FileOK(files["right"], Rights, hash, bucket, dealt, b)
                              /\ b < bucket => Used(b)

\* The dictionary has the items of the bucket at work that are not in its file.
TableTyped  == table \in [Values -> Seq(Lefts)]
TableOK     ==
  /\ \A v \in Values : /\ IsInjective(table[v])
                       /\ \A x \in ToSet(table[v]) : Value(x) = v /\ Home(x) = bucket
  /\ bucket \in Bucket =>
       \A x \in Lefts : Home(x) = bucket => (x \in ToSet(table[Value(x)]) <=> x \notin ToSet(files["left"][bucket]))

\* A join has handed out the pairs of the items on the right that are done.
Done(y)   == Home(y) < bucket \/ (Home(y) = bucket /\ y \notin ToSet(files["right"][bucket]))
Pairs     == {p \in Lefts \X Rights : Value(p[1]) = Value(p[2])}
PairsOK   ==
  ~ grouping => /\ output \in Seq(Lefts \X Rights) /\ IsInjective(output)
                /\ bucket = -1 => output = <<>>
                /\ bucket # -1 => ToSet(output) = {p \in Pairs : Done(p[2])}

\* GROUP BY has handed out the groups of the buckets that are done.
Group(v)  == {x \in Lefts : Value(x) = v}
GroupsOK  ==
  grouping => /\ output \in Seq(SUBSET Lefts) /\ IsInjective(output)
              /\ ToSet(output) = {Group(Value(x)) : x \in {y \in Lefts : Home(y) < bucket}}

IInv == /\ Sorts /\ Sides /\ Counts /\ FilesTyped /\ FilesOK
        /\ TableTyped /\ TableOK /\ PairsOK /\ GroupsOK

-----------------------------------------------------------------------------
(* Items and files.                                                        *)

\* The items of the left come first, each at the place that it names.
LEMMA ItemsAre ==
  ASSUME Sides
  PROVE  /\ Len(left) \in Nat /\ Len(right) \in Nat /\ Len(Items) = Len(left) + Len(right)
         /\ \A i \in 1..Len(left) + Len(right) : Items[i][1] \in Code /\ Items[i][2] = i
         /\ Lefts = {Items[i] : i \in 1..Len(left)}
         /\ Rights = {Items[Len(left) + i] : i \in 1..Len(right)}
<1> DEFINE l == [i \in DOMAIN left |-> <<left[i], i>>]
           r == [i \in DOMAIN right |-> <<right[i], Len(left) + i>>]
<1>1. /\ Len(left) \in Nat /\ DOMAIN left = 1..Len(left) /\ \A i \in 1..Len(left) : left[i] \in Code
      /\ Len(right) \in Nat /\ DOMAIN right = 1..Len(right) /\ \A i \in 1..Len(right) : right[i] \in Code
  BY LenProperties DEF Sides
<1>2. l \in Seq(Code \X Nat) /\ Len(l) = Len(left)
  <2>1. l \in [1..Len(left) -> Code \X Nat]
    BY <1>1
  <2> QED
    BY <1>1, <2>1, SeqDef, LenProperties
<1>3. r \in Seq(Code \X Nat) /\ Len(r) = Len(right)
  <2>1. r \in [1..Len(right) -> Code \X Nat]
    BY <1>1
  <2> QED
    BY <1>1, <2>1, SeqDef, LenProperties
<1>4. \A i \in 1..Len(left) : l[i][1] \in Code /\ l[i][2] = i
  BY <1>1
<1>5. \A i \in 1..Len(right) : r[i][1] \in Code /\ r[i][2] = Len(left) + i
  BY <1>1
<1>6. Items = l \o r
  BY DEF Items
<1> HIDE DEF l, r
<1>7. /\ Len(Items) = Len(left) + Len(right)
      /\ \A i \in 1..Len(left) + Len(right) : Items[i] = IF i <= Len(left) THEN l[i] ELSE r[i - Len(left)]
  BY <1>1, <1>2, <1>3, <1>6, ConcatProperties
<1>8. \A i \in 1..Len(left) + Len(right) : Items[i][1] \in Code /\ Items[i][2] = i
  <2> SUFFICES ASSUME NEW i \in 1..Len(left) + Len(right) PROVE Items[i][1] \in Code /\ Items[i][2] = i
    OBVIOUS
  <2>1. CASE i <= Len(left)
    BY <1>1, <1>4, <1>7, <2>1
  <2>2. CASE ~ (i <= Len(left))
    <3>1. i - Len(left) \in 1..Len(right) /\ Items[i] = r[i - Len(left)]
      BY <1>1, <1>7, <2>2
    <3>2. Items[i][1] \in Code /\ Items[i][2] = Len(left) + (i - Len(left))
      BY <1>5, <3>1
    <3> QED
      BY <1>1, <3>2
  <2> QED
    BY <2>1, <2>2
<1> QED
  BY <1>1, <1>7, <1>8 DEF Lefts, Rights

\* An item is known by its place, and no place is on both sides.
LEMMA PlacesAre ==
  ASSUME Sides
  PROVE  /\ \A x \in Lefts : x[1] \in Code /\ x[2] \in 1..Len(left)
         /\ \A x \in Rights : x[1] \in Code /\ x[2] \in Len(left) + 1..Len(left) + Len(right)
         /\ \A x, y \in Lefts : x[2] = y[2] => x = y
         /\ \A x, y \in Rights : x[2] = y[2] => x = y
<1>1. \A x \in Lefts : x[1] \in Code /\ x[2] \in 1..Len(left) /\ x = Items[x[2]]
  BY ItemsAre
<1>2. ASSUME NEW x \in Rights
      PROVE  x[1] \in Code /\ x[2] \in Len(left) + 1..Len(left) + Len(right) /\ x = Items[x[2]]
  <2>1. PICK i \in 1..Len(right) : x = Items[Len(left) + i]
    BY ItemsAre
  <2>2. Len(left) + i \in 1..Len(left) + Len(right) /\ Len(left) + i \in Len(left) + 1..Len(left) + Len(right)
    BY ItemsAre
  <2> QED
    BY <2>1, <2>2, ItemsAre
<1> QED
  BY <1>1, <1>2

LEMMA LeftsFinite ==
  ASSUME Sides
  PROVE  IsFiniteSet(Lefts)
<1>1. Len(left) \in Nat /\ Lefts = {Items[i] : i \in 1..Len(left)}
  BY ItemsAre
<1>2. IsFiniteSet(1..Len(left))
  BY <1>1, FS_Interval, 1 \in Int, Len(left) \in Int
<1> DEFINE f == [i \in 1..Len(left) |-> Items[i]]
<1>3. f \in Surjection(1..Len(left), Lefts)
  BY <1>1 DEF Surjection
<1> HIDE DEF f
<1> QED
  BY <1>2, <1>3, FS_Surjection

\* The next item is appended to the file of its bucket.
LEMMA FileGrows ==
  ASSUME NEW all, NEW g \in [Bucket -> Seq(all)], NEW h \in [Code -> Bucket], NEW k, NEW n \in Nat,
         NEW x \in all, x[2] = n + 1, \A y \in all : y[1] \in Code /\ y[2] \in Nat,
         \A y \in all : y[2] = n + 1 => y = x,
         \A b \in Bucket : FileOK(g, all, h, k, n, b)
  PROVE  LET g2 == [g EXCEPT ![h[x[1]]] = Append(@, x)]
         IN  /\ g2 \in [Bucket -> Seq(all)]
             /\ \A b \in Bucket : FileOK(g2, all, h, k, n + 1, b)
<1> DEFINE c == h[x[1]]
           s == Append(g[c], x)
           g2 == [g EXCEPT ![c] = s]
<1>1. c \in Bucket /\ g[c] \in Seq(all) /\ IsInjective(g[c]) /\ x \notin ToSet(g[c])
  <2>1. c \in Bucket
    OBVIOUS
  <2>2. \A y \in ToSet(g[c]) : y[2] <= n
    BY <2>1 DEF FileOK
  <2> QED
    BY <2>1, <2>2 DEF FileOK
<1>2. s \in Seq(all) /\ IsInjective(s) /\ ToSet(s) = ToSet(g[c]) \cup {x}
  BY <1>1, AppendToInjective
<1> HIDE DEF s
<1>3. g2 \in [Bucket -> Seq(all)] /\ g2[c] = s /\ \A b \in Bucket \ {c} : g2[b] = g[b]
  BY <1>1, <1>2
<1>4. \A b \in Bucket : \A y \in ToSet(g2[b]) : h[y[1]] = b /\ y[2] <= n + 1
  <2> SUFFICES ASSUME NEW b \in Bucket, NEW y \in ToSet(g2[b]) PROVE h[y[1]] = b /\ y[2] <= n + 1
    OBVIOUS
  <2>1. CASE y \in ToSet(g[b])
    <3>1. h[y[1]] = b /\ y[2] <= n /\ y \in all
      BY <2>1, ElementsOf DEF FileOK
    <3> QED
      BY <3>1
  <2>2. CASE y \notin ToSet(g[b])
    <3>1. b = c
      BY <1>3, <2>2
    <3> QED
      BY <1>2, <1>3, <2>2, <3>1
  <2> QED
    BY <2>1, <2>2
<1>5. ASSUME NEW b \in Bucket, k < b, NEW y \in all, h[y[1]] = b, y[2] <= n + 1
      PROVE  y \in ToSet(g2[b])
  <2>1. CASE y = x
    BY <1>2, <1>3, <1>5, <2>1
  <2>2. CASE y # x
    <3>1. y[2] <= n
      BY <1>5, <2>2
    <3>2. y \in ToSet(g[b])
      BY <1>5, <3>1 DEF FileOK
    <3> QED
      BY <1>2, <1>3, <3>2
  <2> QED
    BY <2>1, <2>2
<1>6. \A b \in Bucket : IsInjective(g2[b])
  BY <1>2, <1>3 DEF FileOK
<1> QED
  BY <1>3, <1>4, <1>5, <1>6 DEF FileOK, s

\* The next item is one of the other side.
LEMMA FileStays ==
  ASSUME NEW all, NEW g \in [Bucket -> Seq(all)], NEW h, NEW k, NEW n \in Nat,
         \A y \in all : y[2] \in Nat /\ y[2] # n + 1,
         \A b \in Bucket : FileOK(g, all, h, k, n, b)
  PROVE  \A b \in Bucket : FileOK(g, all, h, k, n + 1, b)
<1>1. \A y \in all : y[2] <= n + 1 <=> y[2] <= n
  OBVIOUS
<1>2. \A b \in Bucket : ToSet(g[b]) \subseteq all
  BY ElementsOf
<1> QED
  BY <1>1, <1>2 DEF FileOK

\* The first item of the file at work is read.
LEMMA FileShrinks ==
  ASSUME NEW all, NEW g \in [Bucket -> Seq(all)], NEW h, NEW k \in Bucket, NEW n, g[k] # <<>>,
         FileOKs(g, all, h, k, n)
  PROVE  \A g2 : g2[k] = Tail(g[k]) /\ (\A b \in Bucket \ {k} : g2[b] = g[b]) => FileOKs(g2, all, h, k, n)
<1> DEFINE s == Tail(g[k])
<1>1. g[k] \in Seq(all) /\ IsInjective(g[k])
  BY DEF FileOKs, FileOK
<1>2. IsInjective(s) /\ ToSet(s) \subseteq ToSet(g[k])
  BY <1>1, TailOfInjective
<1> HIDE DEF s
<1>3. ~ (k < k)
  BY DEF Bucket
<1>4. ASSUME NEW g2, g2[k] = s, \A b \in Bucket \ {k} : g2[b] = g[b]
      PROVE  FileOKs(g2, all, h, k, n)
  BY <1>2, <1>3, <1>4 DEF FileOKs, FileOK
<1> QED
  BY <1>4 DEF s

-----------------------------------------------------------------------------
(* The invariant holds at first, and every action keeps it.                *)

LEMMA InitIsGood ==
  ASSUME Sizes, Init
  PROVE  IInv
<1>1. PICK n \in 0..MaxItems : \E m \in 0..MaxItems - n :
        left \in [1..n -> Code] /\ right \in [1..m -> Code] /\ (grouping => m = 0)
  BY DEF Init
<1>2. PICK m \in 0..MaxItems - n :
        left \in [1..n -> Code] /\ right \in [1..m -> Code] /\ (grouping => m = 0)
  BY <1>1
<1>3. n \in Nat /\ m \in Nat
  BY DEF Sizes
<1>4. left \in Seq(Code) /\ right \in Seq(Code) /\ Len(left) = n /\ Len(right) = m
  BY <1>2, <1>3, SeqDef, LenProperties
<1>5. Sorts /\ Sides
  BY <1>2, <1>4, EmptySeq DEF Sorts, Sides, Init
<1>6. Counts
  BY <1>3, <1>4 DEF Counts, Init, Sizes
<1>7. FilesTyped /\ \A b \in Bucket : files["left"][b] = <<>> /\ files["right"][b] = <<>>
  BY EmptySeq DEF FilesTyped, Init
<1>8. \A x \in Lefts \cup Rights : x[2] \in Nat /\ ~ (x[2] <= 0)
  BY <1>4, <1>5, PlacesAre
<1>9. FilesOK
  <2>1. \A b \in Bucket : ~ (b < bucket)
    BY DEF Bucket, Init, Sizes
  <2> QED
    BY <1>7, <1>8, <2>1, EmptyIsInjective DEF FilesOK, FileOK, Init
<1>10. TableTyped /\ \A v \in Values : table[v] = <<>>
  BY EmptySeq DEF TableTyped, Init, Values
<1>11. bucket \notin Bucket /\ bucket = -1
  BY DEF Bucket, Init, Sizes
<1>12. TableOK
  BY <1>10, <1>11, EmptyIsInjective DEF TableOK
<1>13. PairsOK
  BY <1>11, EmptySeq, EmptyIsInjective DEF PairsOK, Init
<1>14. GroupsOK
  <2>1. \A y \in Lefts : ~ (Home(y) < bucket)
    <3> SUFFICES ASSUME NEW y \in Lefts PROVE ~ (Home(y) < bucket)
      OBVIOUS
    <3>1. Home(y) \in Bucket
      BY <1>5, PlacesAre DEF Sorts, Home
    <3> QED
      BY <1>11, <3>1 DEF Bucket
  <2> QED
    BY <2>1, EmptySeq, EmptyIsInjective DEF GroupsOK, Init
<1> QED
  BY <1>5, <1>6, <1>7, <1>9, <1>10, <1>12, <1>13, <1>14 DEF IInv

\* What no action changes, and what depends on nothing else.
LEMMA InputsStay ==
  ASSUME Sorts, Sides, UNCHANGED <<hash, grouping, left, right>>
  PROVE  /\ Sorts' /\ Sides' /\ Items' = Items /\ Lefts' = Lefts /\ Rights' = Rights /\ Pairs' = Pairs
         /\ \A x : Home(x)' = Home(x)
         /\ \A v : Group(v)' = Group(v)
<1>1. Items' = Items
  BY DEF Items
<1>2. Lefts' = Lefts /\ Rights' = Rights
  BY <1>1 DEF Lefts, Rights
<1> QED
  BY <1>1, <1>2 DEF Sorts, Sides, Pairs, Home, Group, Value

LEMMA HomesAre ==
  ASSUME Sorts, Sides
  PROVE  \A x \in Lefts \cup Rights : Home(x) \in Bucket /\ Value(x) \in Values /\ x[1] \in Code /\ x[2] \in Nat
  BY PlacesAre DEF Sorts, Home, Value, Values

LEMMA DealIsGood ==
  ASSUME Sizes, IInv, Deal
  PROVE  IInv'
<1> USE DEF IInv
<1>1. PICK n : n = dealt
  OBVIOUS
<1>2. PICK x : x = Items[n + 1]
  OBVIOUS
<1>3. /\ n \in Nat /\ n < Len(left) + Len(right) /\ dealt' = n + 1 /\ bucket = -1
      /\ UNCHANGED <<hash, grouping, left, right, bucket, table, output>>
  BY <1>1, ItemsAre, SMTT(30) DEF Deal, Counts
<1>4. x[1] \in Code /\ x[2] = n + 1
  BY <1>2, <1>3, ItemsAre
<1>5. \A y \in Lefts \cup Rights : y[1] \in Code /\ y[2] \in Nat
  BY HomesAre
<1>6. Counts'
  BY <1>3, ItemsAre DEF Counts
<1>7. /\ FilesTyped'
      /\ \A b \in Bucket : /\ FileOK(files'["left"], Lefts, hash, -1, n + 1, b)
                           /\ FileOK(files'["right"], Rights, hash, -1, n + 1, b)
  <2>1. PICK l \in [Bucket -> Seq(Lefts)] : l = files["left"]
    BY DEF FilesTyped
  <2>2. PICK r \in [Bucket -> Seq(Rights)] : r = files["right"]
    BY DEF FilesTyped
  <2>3. \A b \in Bucket : FileOK(l, Lefts, hash, -1, n, b) /\ FileOK(r, Rights, hash, -1, n, b)
    BY <1>1, <1>3, <2>1, <2>2 DEF FilesOK
  <2>4. hash \in [Code -> Bucket]
    BY DEF Sorts
  <2>5. files = [left |-> l, right |-> r]
    BY <2>1, <2>2 DEF FilesTyped
  <2>6. CASE n < Len(left)
    <3> DEFINE l2 == [l EXCEPT ![hash[x[1]]] = Append(@, x)]
    <3>1. x \in Lefts
      <4>1. n + 1 \in 1..Len(left)
        BY <1>3, <2>6, ItemsAre
      <4> QED
        BY <1>2, <4>1, ItemsAre
    <3>2. files' = [left |-> l2, right |-> r]
      BY <1>1, <1>2, <1>3, <2>5, <2>6 DEF Deal
    <3>3. \A y \in Rights : y[2] # n + 1
      BY <1>3, <2>6, PlacesAre, ItemsAre
    <3>4. \A y \in Lefts : y[2] = n + 1 => y = x
      BY <1>4, <3>1, PlacesAre
    <3>5. l2 \in [Bucket -> Seq(Lefts)] /\ \A b \in Bucket : FileOK(l2, Lefts, hash, -1, n + 1, b)
      BY <1>3, <1>4, <1>5, <2>3, <2>4, <3>1, <3>4, FileGrows
    <3>6. \A b \in Bucket : FileOK(r, Rights, hash, -1, n + 1, b)
      BY <1>3, <1>5, <2>3, <3>3, FileStays
    <3> HIDE DEF l2
    <3> QED
      BY <1>3, <3>2, <3>5, <3>6, InputsStay DEF FilesTyped
  <2>7. CASE ~ (n < Len(left))
    <3> DEFINE r2 == [r EXCEPT ![hash[x[1]]] = Append(@, x)]
    <3>1. x \in Rights
      <4>1. (n + 1) - Len(left) \in 1..Len(right) /\ Len(left) + ((n + 1) - Len(left)) = n + 1
        BY <1>3, <2>7, ItemsAre
      <4> QED
        BY <1>2, <4>1, ItemsAre
    <3>2. files' = [left |-> l, right |-> r2]
      BY <1>1, <1>2, <1>3, <2>5, <2>7 DEF Deal
    <3>3. \A y \in Lefts : y[2] # n + 1
      BY <1>3, <2>7, PlacesAre, ItemsAre
    <3>4. \A y \in Rights : y[2] = n + 1 => y = x
      BY <1>4, <3>1, PlacesAre
    <3>5. r2 \in [Bucket -> Seq(Rights)] /\ \A b \in Bucket : FileOK(r2, Rights, hash, -1, n + 1, b)
      BY <1>3, <1>4, <1>5, <2>3, <2>4, <3>1, <3>4, FileGrows
    <3>6. \A b \in Bucket : FileOK(l, Lefts, hash, -1, n + 1, b)
      BY <1>3, <1>5, <2>3, <3>3, FileStays
    <3> HIDE DEF r2
    <3> QED
      BY <1>3, <3>2, <3>5, <3>6, InputsStay DEF FilesTyped
  <2> QED
    BY <2>6, <2>7
<1>8. \A b \in Bucket : ~ (b < bucket)
  BY <1>3 DEF Bucket, Sizes
<1>9. FilesOK'
  BY <1>3, <1>7, <1>8, InputsStay DEF FilesOK, Bucket
<1>10. bucket \notin Bucket
  BY <1>3 DEF Bucket
<1>11. TableTyped' /\ TableOK'
  BY <1>3, <1>10, InputsStay DEF TableTyped, TableOK, Value, Values, Bucket
<1>12. PairsOK' /\ GroupsOK'
  BY <1>3, InputsStay DEF PairsOK, GroupsOK, Value
<1> QED
  BY <1>3, <1>6, <1>7, <1>9, <1>11, <1>12, InputsStay

LEMMA StartIsGood ==
  ASSUME Sizes, IInv, Start
  PROVE  IInv'
<1> USE DEF IInv
<1>1. /\ bucket = -1 /\ bucket' = 0 /\ dealt = Len(left) + Len(right)
      /\ UNCHANGED <<hash, grouping, left, right, dealt, files, table, output>>
  BY ItemsAre DEF Start
<1>2. Sorts' /\ Sides' /\ Counts' /\ FilesTyped' /\ TableTyped'
  BY <1>1, InputsStay, ItemsAre DEF Counts, FilesTyped, TableTyped, Sizes, Values
<1>3. FilesOK'
  <2>1. \A b \in Bucket : -1 < b /\ ~ (b < 0)
    BY DEF Bucket
  <2> QED
    BY <1>1, <2>1, InputsStay DEF FilesOK, FileOK, Bucket
<1>4. \A v \in Values : ToSet(table[v]) = {}
  <2> SUFFICES ASSUME NEW v \in Values, NEW x \in ToSet(table[v]) PROVE FALSE
    OBVIOUS
  <2>1. table[v] \in Seq(Lefts)
    BY DEF TableTyped
  <2>2. x \in Lefts /\ Home(x) = -1
    BY <1>1, <2>1, ElementsOf DEF TableOK
  <2> QED
    BY <2>2, HomesAre DEF Bucket
<1>5. \A x \in Lefts : x[2] <= dealt
  BY <1>1, PlacesAre, ItemsAre
<1>6. \A x \in Rights : x[2] <= dealt
  BY <1>1, PlacesAre, ItemsAre
<1>7. TableOK'
  <2>1. ASSUME 0 \in Bucket, NEW x \in Lefts, Home(x) = 0 PROVE x \in ToSet(files["left"][0])
    BY <1>1, <1>5, <2>1 DEF FilesOK, FileOK, Home
  <2>2. \A x \in Lefts : Value(x) \in Values
    BY HomesAre
  <2> QED
    BY <1>1, <1>4, <2>1, <2>2, InputsStay DEF TableOK, Value, Values, Bucket
<1>8. PairsOK'
  <2>1. ASSUME NEW y \in Rights PROVE ~ Done(y)'
    <3>1. Home(y) \in Bucket
      BY HomesAre
    <3>2. Home(y) = 0 => y \in ToSet(files["right"][0])
      BY <1>1, <1>6, <3>1 DEF FilesOK, FileOK, Home
    <3> QED
      BY <1>1, <3>1, <3>2 DEF Bucket, Done, Home
  <2>2. ~ grouping => output = <<>>
    BY <1>1 DEF PairsOK
  <2>3. {p \in Pairs : Done(p[2])'} = {}
    BY <2>1 DEF Pairs
  <2>4. {p \in Pairs : Done(p[2])}' = {}
    BY <1>1, <2>3, InputsStay
  <2> QED
    BY <1>1, <2>2, <2>4, InputsStay, EmptyIsInjective DEF PairsOK
<1>9. GroupsOK'
  <2>1. \A y \in Lefts : ~ (Home(y) < -1) /\ ~ (Home(y) < 0)
    BY HomesAre DEF Bucket
  <2>2. {y \in Lefts : Home(y) < 0} = {y \in Lefts : Home(y) < -1}
    BY <2>1
  <2>3. {Group(Value(x)) : x \in {y \in Lefts : Home(y) < bucket}}'
          = {Group(Value(x)) : x \in {y \in Lefts : Home(y) < bucket}}
    BY <1>1, <2>2, InputsStay DEF Value
  <2> QED
    BY <1>1, <2>3, InputsStay DEF GroupsOK
<1> QED
  BY <1>2, <1>3, <1>7, <1>8, <1>9

LEMMA BuildIsGood ==
  ASSUME Sizes, IInv, Build
  PROVE  IInv'
<1> USE DEF IInv
<1>1. PICK k : k = bucket
  OBVIOUS
<1>2. PICK l \in [Bucket -> Seq(Lefts)] : l = files["left"]
  BY DEF FilesTyped
<1>3. PICK r \in [Bucket -> Seq(Rights)] : r = files["right"]
  BY DEF FilesTyped
<1>4. files = [left |-> l, right |-> r]
  BY <1>2, <1>3 DEF FilesTyped
<1>5. PICK x : x = Head(l[k])
  OBVIOUS
<1>6. PICK l2 : l2 = [l EXCEPT ![k] = Tail(@)]
  OBVIOUS
<1>7. /\ k \in Bucket /\ l[k] # <<>> /\ files' = [left |-> l2, right |-> r]
      /\ table' = [table EXCEPT ![Value(x)] = Append(@, x)]
      /\ UNCHANGED <<hash, grouping, left, right, dealt, bucket, output>>
  BY <1>1, <1>4, <1>5, <1>6 DEF Build
<1>8. dealt \in Nat
  BY ItemsAre DEF Counts
<1>9. \A b \in Bucket : /\ FileOK(l, Lefts, hash, k, dealt, b) /\ FileOK(r, Rights, hash, k, dealt, b)
                        /\ b < k => l[b] = <<>> /\ (~ grouping => r[b] = <<>>)
  BY <1>1, <1>2, <1>3 DEF FilesOK, Used
<1>10. /\ x \in Lefts /\ hash[x[1]] = k /\ x \in ToSet(l[k])
       /\ l2 \in [Bucket -> Seq(Lefts)]
       /\ ToSet(l2[k]) = ToSet(l[k]) \ {x} /\ \A b \in Bucket \ {k} : l2[b] = l[b]
       /\ FileOKs(l2, Lefts, hash, k, dealt)
  <2>1. FileOKs(l, Lefts, hash, k, dealt) /\ k \in Bucket /\ l[k] # <<>>
    BY <1>7, <1>9 DEF FileOKs
  <2>2. l[k] \in Seq(Lefts) /\ IsInjective(l[k])
    BY <2>1 DEF FileOKs, FileOK
  <2>3. /\ x \in Lefts /\ x \in ToSet(l[k])
        /\ Tail(l[k]) \in Seq(Lefts) /\ ToSet(Tail(l[k])) = ToSet(l[k]) \ {x}
    BY <1>5, <2>1, <2>2, TailOfInjective
  <2>4. hash[x[1]] = k
    BY <2>1, <2>3 DEF FileOKs, FileOK
  <2>5. \A g2 : g2[k] = Tail(l[k]) /\ (\A b \in Bucket \ {k} : g2[b] = l[b])
                 => FileOKs(g2, Lefts, hash, k, dealt)
    BY <2>1, FileShrinks
  <2>6. /\ l2 \in [Bucket -> Seq(Lefts)] /\ l2[k] = Tail(l[k])
        /\ \A b \in Bucket \ {k} : l2[b] = l[b]
    BY <1>6, <2>1, <2>3
  <2> QED
    BY <2>3, <2>4, <2>5, <2>6
<1>11. files'["left"] = l2 /\ files'["right"] = r
  BY <1>7
<1>12. Sorts' /\ Sides' /\ Counts' /\ FilesTyped'
  BY <1>7, <1>10, InputsStay DEF Counts, FilesTyped
<1>13. FilesOK'
  <2>1. \A b \in Bucket : b < k => b # k
    BY DEF Bucket
  <2> QED
    BY <1>1, <1>7, <1>9, <1>10, <1>11, <2>1, InputsStay DEF FilesOK, FileOKs, Bucket, Used
<1>14. PICK v \in Values : v = Value(x)
  BY <1>10, HomesAre
<1> DEFINE s == Append(table[v], x)
<1>15. /\ table[v] \in Seq(Lefts) /\ IsInjective(table[v])
       /\ \A y \in Lefts : Home(y) = k => (y \in ToSet(table[Value(y)]) <=> y \notin ToSet(l[k]))
       /\ \A w \in Values : \A y \in ToSet(table[w]) : Value(y) = w /\ Home(y) = k
  BY <1>1, <1>2, <1>7 DEF TableTyped, TableOK
<1>16. x \notin ToSet(table[v])
  BY <1>10, <1>14, <1>15 DEF Home
<1>17. s \in Seq(Lefts) /\ IsInjective(s) /\ ToSet(s) = ToSet(table[v]) \cup {x}
  BY <1>10, <1>15, <1>16, AppendToInjective
<1>18. table' = [table EXCEPT ![v] = s]
  BY <1>7, <1>14
<1> HIDE DEF s
<1>19. /\ table' \in [Values -> Seq(Lefts)] /\ table'[v] = s
       /\ \A w \in Values \ {v} : table'[w] = table[w]
  BY <1>17, <1>18 DEF TableTyped
<1>20. TableTyped' /\ Values' = Values
  BY <1>7, <1>19, InputsStay DEF TableTyped, Values
<1>21. ASSUME NEW w \in Values
       PROVE  IsInjective(table'[w]) /\ \A y \in ToSet(table'[w]) : Value(y) = w /\ Home(y) = k
  <2>1. CASE w = v
    BY <1>10, <1>14, <1>15, <1>17, <1>19, <2>1 DEF Home
  <2>2. CASE w # v
    BY <1>19, <1>15, <2>2 DEF TableOK
  <2> QED
    BY <2>1, <2>2
<1>22. ASSUME NEW y \in Lefts, Home(y) = k
       PROVE  y \in ToSet(table'[Value(y)]) <=> y \notin ToSet(l2[k])
  <2>0. Value(y) \in Values
    BY HomesAre
  <2>1. CASE y = x
    BY <1>10, <1>14, <1>17, <1>19, <2>1
  <2>2. CASE y # x
    <3>1. y \in ToSet(table'[Value(y)]) <=> y \in ToSet(table[Value(y)])
      BY <1>17, <1>19, <2>0, <2>2
    <3> QED
      BY <1>10, <1>15, <1>22, <2>2, <3>1
  <2> QED
    BY <2>1, <2>2
<1>23. TableOK'
  BY <1>1, <1>7, <1>11, <1>20, <1>21, <1>22, InputsStay DEF TableOK, Value, Bucket
<1>24. PairsOK'
  <2>1. \A y : Done(y)' = Done(y)
    BY <1>3, <1>7, <1>11 DEF Done, Home
  <2> QED
    BY <1>7, <2>1, InputsStay DEF PairsOK
<1>25. GroupsOK'
  BY <1>7, InputsStay DEF GroupsOK, Value
<1> QED
  BY <1>12, <1>13, <1>20, <1>23, <1>24, <1>25

\* The probe of one item on the right finds all items of its value on the left: they
\* have its bytes, so its bucket, and that has no file left.
LEMMA ProbeIsGood ==
  ASSUME Sizes, OneEncoding, IInv, Probe
  PROVE  IInv'
<1> USE DEF IInv
<1>1. PICK k : k = bucket
  OBVIOUS
<1>2. PICK l \in [Bucket -> Seq(Lefts)] : l = files["left"]
  BY DEF FilesTyped
<1>3. PICK r \in [Bucket -> Seq(Rights)] : r = files["right"]
  BY DEF FilesTyped
<1>4. files = [left |-> l, right |-> r]
  BY <1>2, <1>3 DEF FilesTyped
<1>5. PICK y : y = Head(r[k])
  OBVIOUS
<1>6. PICK t : t = table[Value(y)]
  OBVIOUS
<1>7. PICK r2 : r2 = [r EXCEPT ![k] = Tail(@)]
  OBVIOUS
<1>8. PICK more : more = [i \in DOMAIN t |-> <<t[i], y>>]
  OBVIOUS
<1>9. /\ k \in Bucket /\ ~ grouping /\ l[k] = <<>> /\ r[k] # <<>> /\ files' = [left |-> l, right |-> r2]
      /\ output' = output \o more
      /\ UNCHANGED <<hash, grouping, left, right, dealt, bucket, table>>
  BY <1>1, <1>4, <1>5, <1>6, <1>7, <1>8 DEF Probe
<1>10. dealt \in Nat
  BY ItemsAre DEF Counts
<1>11. \A b \in Bucket : /\ FileOK(l, Lefts, hash, k, dealt, b) /\ FileOK(r, Rights, hash, k, dealt, b)
                         /\ b < k => l[b] = <<>> /\ (~ grouping => r[b] = <<>>)
  BY <1>1, <1>2, <1>3 DEF FilesOK, Used
<1>12. /\ y \in Rights /\ hash[y[1]] = k /\ y \in ToSet(r[k])
       /\ r2 \in [Bucket -> Seq(Rights)]
       /\ ToSet(r2[k]) = ToSet(r[k]) \ {y} /\ \A b \in Bucket \ {k} : r2[b] = r[b]
       /\ FileOKs(r2, Rights, hash, k, dealt)
  <2>1. FileOKs(r, Rights, hash, k, dealt) /\ k \in Bucket /\ r[k] # <<>>
    BY <1>9, <1>11 DEF FileOKs
  <2>2. r[k] \in Seq(Rights) /\ IsInjective(r[k])
    BY <2>1 DEF FileOKs, FileOK
  <2>3. /\ y \in Rights /\ y \in ToSet(r[k])
        /\ Tail(r[k]) \in Seq(Rights) /\ ToSet(Tail(r[k])) = ToSet(r[k]) \ {y}
    BY <1>5, <2>1, <2>2, TailOfInjective
  <2>4. hash[y[1]] = k
    BY <2>1, <2>3 DEF FileOKs, FileOK
  <2>5. \A g2 : g2[k] = Tail(r[k]) /\ (\A b \in Bucket \ {k} : g2[b] = r[b])
                 => FileOKs(g2, Rights, hash, k, dealt)
    BY <2>1, FileShrinks
  <2>6. /\ r2 \in [Bucket -> Seq(Rights)] /\ r2[k] = Tail(r[k])
        /\ \A b \in Bucket \ {k} : r2[b] = r[b]
    BY <1>7, <2>1, <2>3
  <2> QED
    BY <2>3, <2>4, <2>5, <2>6
<1>13. files'["left"] = l /\ files'["right"] = r2
  BY <1>9
<1>14. Sorts' /\ Sides' /\ Counts' /\ FilesTyped' /\ TableTyped'
  BY <1>9, <1>12, InputsStay DEF Counts, FilesTyped, TableTyped, Values
<1>15. FilesOK'
  <2>1. \A b \in Bucket : b < k => b # k
    BY DEF Bucket
  <2> QED
    BY <1>1, <1>9, <1>11, <1>12, <1>13, <2>1, InputsStay DEF FilesOK, FileOKs, Bucket, Used
<1>16. TableOK'
  BY <1>2, <1>9, <1>13, InputsStay DEF TableOK, Value, Values, Bucket
<1>17. /\ t \in Seq(Lefts) /\ IsInjective(t)
       /\ ToSet(t) = {x \in Lefts : Value(x) = Value(y)}
  <2>1. Value(y) \in Values /\ y[1] \in Code
    BY <1>12, HomesAre
  <2>2. /\ t \in Seq(Lefts) /\ IsInjective(t) /\ \A x \in ToSet(t) : Value(x) = Value(y)
    BY <1>6, <2>1 DEF TableTyped, TableOK
  <2>3. ASSUME NEW x \in Lefts, Value(x) = Value(y) PROVE x \in ToSet(t)
    <3>1. x[1] = y[1]
      BY <2>1, <2>3, HomesAre DEF OneEncoding, Value
    <3>2. Home(x) = bucket
      BY <1>1, <1>12, <3>1 DEF Home
    <3>3. x \notin ToSet(files["left"][bucket])
      BY <1>1, <1>2, <1>9, EmptyIsInjective
    <3> QED
      BY <1>1, <1>6, <1>9, <2>3, <3>2, <3>3 DEF TableOK
  <2>4. ToSet(t) \subseteq Lefts
    BY <2>2, ElementsOf
  <2> QED
    BY <2>2, <2>3, <2>4
<1>18. /\ more \in Seq(Lefts \X {y}) /\ IsInjective(more)
       /\ ToSet(more) = ToSet(t) \X {y}
  <2>1. more = PairedWith(t, y)
    BY <1>8 DEF PairedWith
  <2>2. t \in Seq(Lefts) /\ IsInjective(t)
    BY <1>17
  <2>3. /\ PairedWith(t, y) \in Seq(Lefts \X {y}) /\ IsInjective(PairedWith(t, y))
        /\ ToSet(PairedWith(t, y)) = ToSet(t) \X {y}
    BY <2>2, PairsAre
  <2> QED
    BY <2>1, <2>3
<1>19. more \in Seq(Lefts \X Rights) /\ ToSet(more) = {p \in Pairs : p[2] = y}
  <2>1. Lefts \X {y} \subseteq Lefts \X Rights
    BY <1>12
  <2>2. ToSet(more) = {p \in Pairs : p[2] = y}
    BY <1>12, <1>17, <1>18 DEF Pairs
  <2> QED
    BY <1>18, <2>1, <2>2
<1>20. /\ output \in Seq(Lefts \X Rights) /\ IsInjective(output)
       /\ ToSet(output) = {p \in Pairs : Done(p[2])}
  BY <1>1, <1>9 DEF PairsOK, Bucket
<1>21. ~ Done(y)
  BY <1>1, <1>3, <1>9, <1>12 DEF Done, Home, Bucket
<1>22. ASSUME NEW z \in Rights PROVE Done(z)' <=> Done(z) \/ z = y
  <2>1. hash' = hash /\ bucket' = k /\ bucket = k
    BY <1>1, <1>9
  <2> QED
    BY <1>3, <1>12, <1>13, <2>1 DEF Done, Home, Bucket
<1>23. ToSet(output) \cap ToSet(more) = {}
  BY <1>19, <1>20, <1>21
<1>24. output' \in Seq(Lefts \X Rights) /\ IsInjective(output') /\ ToSet(output') = ToSet(output) \cup ToSet(more)
  BY <1>9, <1>18, <1>19, <1>20, <1>23, ElementsOfConcat, ConcatOfInjective
<1>25. ToSet(output') = {p \in Pairs : Done(p[2])'}
  <2>1. \A p \in Pairs : p[2] \in Rights
    BY DEF Pairs
  <2> QED
    BY <1>19, <1>20, <1>22, <1>24, <2>1
<1>26. bucket' # -1
  BY <1>1, <1>9 DEF Bucket
<1>27. PairsOK' /\ GroupsOK'
  BY <1>9, <1>24, <1>25, <1>26, InputsStay DEF PairsOK, GroupsOK
<1> QED
  BY <1>14, <1>15, <1>16, <1>27

\* When the file of the left is empty, the dictionary has a whole group under each
\* value of the bucket, and nothing under the others.
LEMMA GroupsInTable ==
  ASSUME Sizes, OneEncoding, IInv, bucket \in Bucket, files["left"][bucket] = <<>>
  PROVE  {ToSet(table[v]) : v \in Values} \ {{}} = {Group(Value(x)) : x \in {y \in Lefts : Home(y) = bucket}}
<1> USE DEF IInv
<1>1. \A x \in Lefts : Home(x) = bucket => x \in ToSet(table[Value(x)])
  BY EmptyIsInjective DEF TableOK
<1>2. \A v \in Values : ToSet(table[v]) \subseteq Lefts
  BY ElementsOf DEF TableTyped
<1>3. \A x, y \in Lefts : Value(x) = Value(y) => Home(x) = Home(y)
  BY HomesAre DEF OneEncoding, Value, Home
<1>4. ASSUME NEW x \in Lefts, Home(x) = bucket
      PROVE  Value(x) \in Values /\ ToSet(table[Value(x)]) = Group(Value(x)) /\ x \in Group(Value(x))
  <2>1. Value(x) \in Values
    BY HomesAre
  <2>2. \A y \in ToSet(table[Value(x)]) : Value(y) = Value(x)
    BY <2>1 DEF TableOK
  <2>3. \A y \in Lefts : Value(y) = Value(x) => y \in ToSet(table[Value(x)])
    BY <1>1, <1>3, <1>4
  <2> QED
    BY <1>2, <2>1, <2>2, <2>3 DEF Group
<1>5. ASSUME NEW v \in Values, ToSet(table[v]) # {}
      PROVE  \E x \in Lefts : Home(x) = bucket /\ ToSet(table[v]) = Group(Value(x))
  <2>1. PICK x \in ToSet(table[v]) : TRUE
    BY <1>5
  <2>2. x \in Lefts /\ Value(x) = v /\ Home(x) = bucket
    BY <1>2, <2>1 DEF TableOK
  <2> QED
    BY <1>4, <2>2
<1>6. ASSUME NEW s \in {ToSet(table[v]) : v \in Values} \ {{}}
      PROVE  s \in {Group(Value(x)) : x \in {y \in Lefts : Home(y) = bucket}}
  BY <1>5
<1>7. ASSUME NEW s \in {Group(Value(x)) : x \in {y \in Lefts : Home(y) = bucket}}
      PROVE  s \in {ToSet(table[v]) : v \in Values} \ {{}}
  <2>1. PICK x \in Lefts : Home(x) = bucket /\ s = Group(Value(x))
    OBVIOUS
  <2> QED
    BY <1>4, <2>1
<1> QED
  BY <1>6, <1>7

LEMMA NextBucketIsGood ==
  ASSUME Sizes, OneEncoding, IInv, NextBucket
  PROVE  IInv'
<1> USE DEF IInv
<1>1. PICK k : k = bucket
  OBVIOUS
<1>2. /\ k \in Bucket /\ files["left"][k] = <<>> /\ (~ grouping => files["right"][k] = <<>>)
      /\ bucket' = k + 1
      /\ UNCHANGED <<hash, grouping, left, right, dealt, files>>
  BY <1>1 DEF NextBucket
<1>3. k \in Nat /\ k + 1 \in 0..NumBuckets /\ k # -1 /\ k + 1 # -1
  BY <1>2 DEF Bucket, Sizes
<1>4. Sorts' /\ Sides' /\ Counts' /\ FilesTyped'
  BY <1>1, <1>2, <1>3, InputsStay DEF Counts, FilesTyped
<1>5. \A b \in Bucket : (k + 1 < b => k < b) /\ (b < k + 1 => b < k \/ b = k)
  BY <1>3 DEF Bucket
<1>6. FilesOK'
  <2>1. \A b \in Bucket : b < k + 1 => Used(b)
    BY <1>1, <1>2, <1>5 DEF FilesOK, Used
  <2>2. \A b \in Bucket : /\ FileOK(files["left"], Lefts, hash, k + 1, dealt, b)
                          /\ FileOK(files["right"], Rights, hash, k + 1, dealt, b)
    BY <1>1, <1>5 DEF FilesOK, FileOK
  <2> QED
    BY <1>2, <2>1, <2>2, InputsStay DEF FilesOK, Used, Bucket
<1>7. dealt = Len(left) + Len(right)
  BY <1>1, <1>3 DEF Counts
<1>8. (\A x \in Lefts : x[2] <= dealt) /\ (\A x \in Rights : x[2] <= dealt)
  BY <1>7, PlacesAre, ItemsAre
<1>9. table' \in [Values -> {<<>>}]
  BY DEF NextBucket, Emptied, TableTyped
<1>10. TableTyped'
  <2>1. <<>> \in Seq(Lefts)
    BY EmptySeq
  <2> QED
    BY <1>2, <1>9, <2>1, InputsStay DEF TableTyped, Values
<1>11. TableOK'
  <2>1. ASSUME k + 1 \in Bucket, NEW x \in Lefts, Home(x) = k + 1 PROVE x \in ToSet(files["left"][k + 1])
    <3>1. k < k + 1
      BY <1>3
    <3> QED
      BY <1>1, <1>8, <2>1, <3>1 DEF FilesOK, FileOK, Home
  <2>2. \A x \in Lefts : Value(x) \in Values
    BY HomesAre
  <2>3. \A v \in Values : table'[v] = <<>>
    BY <1>9
  <2> QED
    BY <1>2, <2>1, <2>2, <2>3, EmptyIsInjective, InputsStay DEF TableOK, Value, Values, Bucket
<1>12. PairsOK'
  <2>1. SUFFICES ASSUME ~ grouping PROVE PairsOK'
    BY <1>2 DEF PairsOK
  <2>2. output' = output
    BY <2>1 DEF NextBucket
  <2>3. ASSUME NEW y \in Rights PROVE Done(y)' <=> Done(y)
    <3>1. Home(y) \in Bucket /\ Home(y) \in Nat
      BY HomesAre DEF Bucket
    <3>2. Home(y) = k + 1 => y \in ToSet(files["right"][k + 1])
      <4>1. k < k + 1
        BY <1>3
      <4> QED
        BY <1>1, <1>8, <3>1, <4>1 DEF FilesOK, FileOK, Home
    <3>3. y \notin ToSet(files["right"][k])
      BY <1>2, <2>1, EmptyIsInjective
    <3>4. Done(y) <=> Home(y) < k \/ Home(y) = k
      BY <1>1, <3>3 DEF Done
    <3>5. Done(y)' <=> Home(y) < k + 1
      BY <1>2, <3>2 DEF Done, Home
    <3> QED
      BY <1>3, <3>1, <3>4, <3>5
  <2>4. \A p \in Pairs : p[2] \in Rights
    BY DEF Pairs
  <2>5. {p \in Pairs : Done(p[2])}' = {p \in Pairs : Done(p[2])}
    BY <1>2, <2>3, <2>4, InputsStay
  <2> QED
    BY <1>1, <1>2, <1>3, <2>2, <2>5, InputsStay DEF PairsOK
<1>13. GroupsOK'
  <2>1. SUFFICES ASSUME grouping PROVE GroupsOK'
    BY <1>2 DEF GroupsOK
  <2>2. PICK new : new = {Group(Value(x)) : x \in {y \in Lefts : Home(y) = k}}
    OBVIOUS
  <2>3. PICK old : old = {Group(Value(x)) : x \in {y \in Lefts : Home(y) < k}}
    OBVIOUS
  <2>4. DOMAIN table = Values
    BY DEF TableTyped
  <2>5. output' = output \o SetToSeq(new)
    <3>1. {ToSet(table[v]) : v \in DOMAIN table} \ {{}} = new
      BY <1>1, <1>2, <2>2, <2>4, GroupsInTable
    <3> QED
      BY <2>1, <3>1 DEF NextBucket
  <2>6. output \in Seq(SUBSET Lefts) /\ IsInjective(output) /\ ToSet(output) = old
    BY <1>1, <2>1, <2>3 DEF GroupsOK
  <2>7. new \subseteq SUBSET Lefts
    BY <2>2 DEF Group
  <2>8. IsFiniteSet(new)
    <3>1. IsFiniteSet(SUBSET Lefts)
      BY LeftsFinite, FS_SUBSET
    <3> QED
      BY <2>7, <3>1, FS_Subset
  <2>9. PICK s : s = SetToSeq(new)
    OBVIOUS
  <2>10. s \in Seq(new) /\ IsInjective(s) /\ ToSet(s) = new
    BY <2>8, <2>9, SetToSeqLists
  <2>11. s \in Seq(SUBSET Lefts)
    BY <2>7, <2>10
  <2>12. ToSet(output) \cap ToSet(s) = {}
    <3>1. SUFFICES ASSUME NEW x \in Lefts, NEW y \in Lefts, Home(x) < k, Home(y) = k,
                          Group(Value(x)) = Group(Value(y))
          PROVE  FALSE
      BY <2>2, <2>3, <2>6, <2>10
    <3>2. x[1] \in Code /\ y[1] \in Code /\ Value(x) = Value(y)
      BY <3>1, HomesAre DEF Group
    <3>3. Home(x) = Home(y)
      BY <3>2 DEF OneEncoding, Value, Home
    <3> QED
      BY <1>3, <3>1, <3>3
  <2>13. /\ output \o s \in Seq(SUBSET Lefts) /\ IsInjective(output \o s)
         /\ ToSet(output \o s) = old \cup new
    BY <2>6, <2>10, <2>11, <2>12, ElementsOfConcat, ConcatOfInjective
  <2>14. old \cup new = {Group(Value(x)) : x \in {y \in Lefts : Home(y) < k + 1}}
    <3>1. \A y \in Lefts : Home(y) < k + 1 <=> Home(y) < k \/ Home(y) = k
      BY <1>3, HomesAre DEF Bucket
    <3> QED
      BY <2>2, <2>3, <3>1
  <2>15. {Group(Value(x)) : x \in {y \in Lefts : Home(y) < bucket}}' = old \cup new
    BY <1>2, <2>14, InputsStay DEF Value
  <2> QED
    BY <1>2, <2>5, <2>9, <2>13, <2>15, InputsStay DEF GroupsOK
<1> QED
  BY <1>4, <1>6, <1>10, <1>11, <1>12, <1>13

-----------------------------------------------------------------------------
(* The theorem.                                                            *)

LEMMA Invariance ==
  ASSUME OneEncoding
  PROVE  Spec => []IInv
<1> Sizes
  BY HashAssumption DEF Sizes
<1>1. Init => IInv
  BY InitIsGood
<1>2. ASSUME IInv, [Next]_vars PROVE IInv'
  <2>1. CASE Deal
    BY <1>2, <2>1, DealIsGood
  <2>2. CASE Start
    BY <1>2, <2>2, StartIsGood
  <2>3. CASE Build
    BY <1>2, <2>3, BuildIsGood
  <2>4. CASE Probe
    BY <1>2, <2>4, ProbeIsGood
  <2>5. CASE NextBucket
    BY <1>2, <2>5, NextBucketIsGood
  <2>6. CASE UNCHANGED vars
    <3>1. UNCHANGED <<hash, grouping, left, right, dealt, files, bucket, table, output>>
      BY <2>6 DEF vars
    <3>2. PairsOK'
      BY <1>2, <3>1, InputsStay DEF IInv, PairsOK, Done, Home, Value, Pairs
    <3> QED
      BY <1>2, <3>1, <3>2, InputsStay DEF IInv, Counts, FilesTyped, FilesOK, Used, Bucket, TableTyped, TableOK,
         GroupsOK, Value, Values
  <2> QED
    BY <1>2, <2>1, <2>2, <2>3, <2>4, <2>5, <2>6 DEF Next
<1> QED
  BY <1>1, <1>2, PTL DEF Spec

\* A join hands out exactly the pairs of rows with equal keys, each once, and GROUP BY
\* one group for each key with all of its rows: for every hash function, number of
\* buckets, and rows on both sides, whenever the bytes of a key say its value.
THEOREM HashIsExact ==
  ASSUME OneEncoding
  PROVE  Spec => []HashExact
<1> Sizes
  BY HashAssumption DEF Sizes
<1>1. ASSUME IInv PROVE JoinExact
  <2> USE <1>1 DEF IInv
  <2>1. SUFFICES ASSUME ~ grouping
        PROVE  /\ IsInjective(output)
               /\ \A p \in ToSet(output) : p \in Pairs
               /\ Ended => ToSet(output) = Pairs
    BY DEF JoinExact, Pairs
  <2>2. CASE bucket = -1
    <3>1. ToSet(output) = {} /\ IsInjective(output) /\ ~ Ended
      BY <2>1, <2>2, EmptyIsInjective DEF PairsOK, Ended, Sizes
    <3> QED
      BY <3>1
  <2>3. CASE bucket # -1
    <3>1. IsInjective(output) /\ ToSet(output) = {p \in Pairs : Done(p[2])}
      BY <2>1, <2>3 DEF PairsOK
    <3>2. Ended => \A p \in Pairs : Done(p[2])
      <4>1. ASSUME Ended, NEW y \in Rights PROVE Done(y)
        BY <4>1, HomesAre DEF Ended, Done, Bucket, Sizes
      <4> QED
        BY <4>1 DEF Pairs
    <3> QED
      BY <3>1, <3>2
  <2> QED
    BY <2>2, <2>3
<1>2. ASSUME IInv PROVE GroupsExact
  <2> USE <1>2 DEF IInv
  <2>1. SUFFICES ASSUME grouping, Ended
        PROVE  /\ IsInjective(output)
               /\ ToSet(output) = {Group(v) : v \in {Value(x) : x \in Lefts}}
    BY DEF GroupsExact, Group
  <2>2. \A y \in Lefts : Home(y) < bucket
    BY <2>1, HomesAre DEF Ended, Bucket, Sizes
  <2>3. {Group(Value(x)) : x \in {y \in Lefts : Home(y) < bucket}} = {Group(v) : v \in {Value(x) : x \in Lefts}}
    BY <2>2
  <2> QED
    BY <2>1, <2>3 DEF GroupsOK
<1>3. IInv => HashExact
  BY <1>1, <1>2 DEF HashExact
<1> QED
  BY <1>3, Invariance, PTL
=============================================================================
