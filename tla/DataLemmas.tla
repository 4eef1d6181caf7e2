----------------------------- MODULE DataLemmas -----------------------------
(***************************************************************************)
(* Facts about data that the proofs of several components use: least and   *)
(* greatest elements, induction up to a bound, functions that are defined  *)
(* by recursion, and sequences that list each of their elements once.      *)
(***************************************************************************)
EXTENDS Integers, SequencesExt, FiniteSetTheorems, SequenceTheorems, TLAPS

-----------------------------------------------------------------------------
(* Least and greatest elements.  The models choose them: the last record   *)
(* of a transaction, the first round at which a sweep stops.               *)

\* A set of naturals with a bound has a greatest element.
LEMMA GreatestExists ==
  ASSUME NEW N \in Nat, NEW S \in SUBSET (0..N), S # {}
  PROVE  \E m \in S : \A x \in S : x <= m
<1> DEFINE Above(x) == (x + 1)..N
           T == {Above(x) : x \in S}
<1>1. T \subseteq FiniteSubsetsOf(0..N) /\ T # {}
  <2>1. ASSUME NEW x \in S PROVE Above(x) \subseteq 0..N /\ IsFiniteSet(Above(x))
    BY FS_Interval, x + 1 \in Int
  <2> QED BY <2>1 DEF FiniteSubsetsOf
<1>2. IsWellFoundedOn(StrictSubsetOrdering(0..N), FiniteSubsetsOf(0..N))
  BY FS_StrictSubsetOrderingWellFounded
<1> HIDE DEF T
<1>3. PICK A \in T : \A B \in T : ~ (<<B, A>> \in StrictSubsetOrdering(0..N))
  BY <1>1, <1>2, WFMin
<1>4. PICK m \in S : A = Above(m)
  BY DEF T
<1>5. ASSUME NEW x \in S, ~ (x <= m) PROVE FALSE
  <2>1. Above(x) \subseteq Above(m) /\ x \in Above(m) /\ x \notin Above(x)
    BY <1>5
  <2>2. Above(x) \in T /\ Above(x) \in SUBSET (0..N) /\ Above(m) \in SUBSET (0..N)
    BY DEF T
  <2> QED BY <1>3, <1>4, <2>1, <2>2 DEF StrictSubsetOrdering
<1> QED BY <1>5

\* And a least one.
LEMMA LeastExists ==
  ASSUME NEW N \in Nat, NEW S \in SUBSET (0..N), S # {}
  PROVE  \E m \in S : \A x \in S : m <= x
<1> DEFINE R == {N - x : x \in S}
<1>1. R \in SUBSET (0..N) /\ R # {}
  <2>1. ASSUME NEW x \in S PROVE N - x \in 0..N
    BY x \in 0..N
  <2> QED BY <2>1
<1>2. PICK r \in R : \A y \in R : y <= r
  <2> HIDE DEF R
  <2> QED BY <1>1, GreatestExists
<1>3. PICK m \in S : r = N - m
  BY <1>2
<1>4. \A x \in S : N - x <= N - m
  BY <1>2, <1>3
<1>5. \A x \in S : m <= x
  BY <1>4
<1> QED BY <1>5

-----------------------------------------------------------------------------
(* Induction and recursion.                                                *)

\* Induction over the numbers up to a bound: the set of those that have the property.
LEMMA BoundedInduction ==
  ASSUME NEW n \in Nat, NEW S, 0 \in S, \A k \in 1..n : k - 1 \in S => k \in S
  PROVE  0..n \subseteq S
<1>1. SUFFICES ASSUME (0..n) \ S # {} PROVE FALSE
  OBVIOUS
<1>2. PICK m \in (0..n) \ S : \A x \in (0..n) \ S : m <= x
  BY <1>1, LeastExists
<1>3. m \in 1..n /\ m - 1 \in 0..n /\ ~ (m <= m - 1)
  BY <1>2
<1> QED BY <1>2, <1>3

\* The steps of a recursive function whose values are in T; and a function that takes
\* them one after another from b on.
Steps(n, T) == [1..n -> [T -> T]]
Recurs(f, n, b, g) == f[0] = b /\ \A k \in 1..n : f[k] = g[k][f[k - 1]]

\* There is one: what a recursive definition chooses satisfies its equation.
LEMMA RecursionExists ==
  ASSUME NEW n \in Nat, NEW T, NEW b \in T, NEW g \in Steps(n, T)
  PROVE  \E f \in [0..n -> T] : Recurs(f, n, b, g)
<1> USE DEF Steps, Recurs
<1> DEFINE Good(m, f) == f[0] = b /\ \A k \in 1..m : f[k] = g[k][f[k - 1]]
           S == {m \in 0..n : \E f \in [0..m -> T] : Good(m, f)}
<1>1. 0 \in S
  <2> DEFINE f == [i \in 0..0 |-> b]
  <2>1. f \in [0..0 -> T] /\ Good(0, f)
    OBVIOUS
  <2> HIDE DEF f, Good
  <2> QED BY <2>1
<1>2. ASSUME NEW m \in 1..n, m - 1 \in S PROVE m \in S
  <2>1. PICK f \in [0..(m - 1) -> T] : Good(m - 1, f)
    BY <1>2
  <2> DEFINE h == [i \in 0..m |-> IF i = m THEN g[m][f[m - 1]] ELSE f[i]]
  <2>2. f[m - 1] \in T /\ g[m] \in [T -> T]
    BY m - 1 \in 0..(m - 1)
  <2>3. h \in [0..m -> T]
    BY <2>2
  <2>4. h[0] = b
    BY <2>1
  <2>5. ASSUME NEW k \in 1..m PROVE h[k] = g[k][h[k - 1]]
    <3>1. CASE k = m
      BY <3>1, m - 1 \in 0..m
    <3>2. CASE k # m
      <4>1. k \in 1..(m - 1) /\ k \in 0..m /\ k - 1 \in 0..m /\ k - 1 # m
        BY <3>2
      <4>2. f[k] = g[k][f[k - 1]]
        BY <2>1, <4>1
      <4>3. h[k] = f[k] /\ h[k - 1] = f[k - 1]
        BY <3>2, <4>1
      <4> QED BY <4>2, <4>3
    <3> QED BY <3>1, <3>2
  <2>6. Good(m, h)
    BY <2>4, <2>5
  <2> HIDE DEF h, Good
  <2> QED BY <2>3, <2>6
<1>3. n \in S
  <2> HIDE DEF S
  <2>1. 0..n \subseteq S
    BY <1>1, <1>2, BoundedInduction
  <2> QED BY <2>1
<1> QED BY <1>3

\* Steps that lead from each of some sets into the next, on values in these only: the
\* function is there, and its values are in those sets.
LEMMA RecursionStays ==
  ASSUME NEW n \in Nat, NEW T, NEW G, \A k \in 0..n : G[k] \subseteq T, NEW b \in G[0],
         NEW g, \A k \in 1..n : \A x \in G[k - 1] : g[k][x] \in G[k]
  PROVE  \E f \in [0..n -> T] : Recurs(f, n, b, g) /\ \A k \in 0..n : f[k] \in G[k]
<1> DEFINE h == [k \in 1..n |-> [x \in T |-> IF x \in G[k - 1] THEN g[k][x] ELSE x]]
<1>1. h \in Steps(n, T) /\ b \in T
  <2>1. ASSUME NEW k \in 1..n, NEW x \in T PROVE (IF x \in G[k - 1] THEN g[k][x] ELSE x) \in T
    OBVIOUS
  <2> QED BY <2>1 DEF Steps
<1>2. \A k \in 1..n : \A x \in G[k - 1] : h[k][x] = g[k][x]
  <2>1. \A k \in 1..n : k - 1 \in 0..n
    OBVIOUS
  <2> QED BY <2>1
<1> HIDE DEF h
<1>3. PICK f \in [0..n -> T] : Recurs(f, n, b, h)
  BY <1>1, RecursionExists
<1> DEFINE S == {k \in 0..n : f[k] \in G[k]}
<1>4. 0 \in S
  BY <1>3 DEF Recurs
<1>5. ASSUME NEW k \in 1..n, k - 1 \in S PROVE k \in S
  BY <1>2, <1>3, <1>5 DEF Recurs
<1>6. 0..n \subseteq S
  <2> HIDE DEF S
  <2> QED BY <1>4, <1>5, BoundedInduction
<1>7. Recurs(f, n, b, g)
  <2>1. ASSUME NEW k \in 1..n PROVE f[k] = g[k][f[k - 1]]
    <3>1. k - 1 \in S
      BY <1>6, k - 1 \in 0..n
    <3> QED BY <1>2, <1>3, <3>1 DEF Recurs
  <2> QED BY <1>3, <2>1 DEF Recurs
<1> QED BY <1>6, <1>7

-----------------------------------------------------------------------------
(* Sequences without repetition: what Tail, Append, concatenation and a    *)
(* map do to the set of the elements.                                      *)

\* The elements of a sequence are members of the set that it is a sequence over.
LEMMA ElementsOf ==
  ASSUME NEW S, NEW s \in Seq(S)
  PROVE  /\ ToSet(s) \subseteq S
         /\ \A i \in DOMAIN s : s[i] \in ToSet(s)
         /\ \A x \in ToSet(s) : \E i \in DOMAIN s : x = s[i]
         /\ s \in Seq(ToSet(s))
  BY DEF ToSet

LEMMA EmptyIsInjective == IsInjective(<<>>) /\ ToSet(<<>>) = {}
<1>1. <<>> \in Seq({}) /\ Len(<<>>) = 0
  BY EmptySeq
<1>2. DOMAIN <<>> = {}
  BY <1>1, LenProperties
<1> QED
  BY <1>2 DEF IsInjective, ToSet

LEMMA NonemptyHasElements ==
  ASSUME NEW S, NEW s \in Seq(S), ToSet(s) = {}
  PROVE  s = <<>>
<1>1. SUFFICES ASSUME s # <<>> PROVE FALSE
  OBVIOUS
<1>2. 1 \in DOMAIN s
  BY <1>1, EmptySeq, LenProperties
<1> QED
  BY <1>2 DEF ToSet

LEMMA TailOfInjective ==
  ASSUME NEW S, NEW s \in Seq(S), s # <<>>, IsInjective(s)
  PROVE  /\ Head(s) \in ToSet(s) /\ Head(s) \in S
         /\ Tail(s) \in Seq(S) /\ IsInjective(Tail(s))
         /\ ToSet(Tail(s)) = ToSet(s) \ {Head(s)}
<1>1. /\ Tail(s) \in Seq(S) /\ Len(s) \in Nat \ {0} /\ Len(Tail(s)) = Len(s) - 1
      /\ \A i \in 1..Len(s) - 1 : Tail(s)[i] = s[i + 1]
      /\ Head(s) = s[1] /\ DOMAIN s = 1..Len(s) /\ DOMAIN Tail(s) = 1..Len(s) - 1
  BY HeadTailProperties, EmptySeq, LenProperties
<1>2. IsInjective(Tail(s))
  BY <1>1 DEF IsInjective
<1>3. ASSUME NEW x \in ToSet(Tail(s)) PROVE x \in ToSet(s) \ {Head(s)}
  <2>1. PICK i \in 1..Len(s) - 1 : x = s[i + 1]
    BY <1>1, <1>3 DEF ToSet
  <2> QED
    BY <1>1, <2>1 DEF ToSet, IsInjective
<1>4. ASSUME NEW x \in ToSet(s), x # Head(s) PROVE x \in ToSet(Tail(s))
  <2>1. PICK i \in 1..Len(s) : x = s[i]
    BY <1>1 DEF ToSet
  <2>2. i - 1 \in 1..Len(s) - 1 /\ i = (i - 1) + 1
    BY <1>1, <1>4, <2>1
  <2>3. x = Tail(s)[i - 1]
    BY <1>1, <2>1, <2>2
  <2> QED
    BY <1>1, <2>2, <2>3 DEF ToSet
<1>5. Head(s) \in S /\ Head(s) \in ToSet(s)
  BY <1>1, HeadTailProperties DEF ToSet
<1>6. ToSet(Tail(s)) = ToSet(s) \ {Head(s)}
  BY <1>3, <1>4
<1> QED
  BY <1>1, <1>2, <1>5, <1>6

LEMMA AppendToInjective ==
  ASSUME NEW S, NEW s \in Seq(S), NEW x \in S, IsInjective(s), x \notin ToSet(s)
  PROVE  /\ Append(s, x) \in Seq(S) /\ IsInjective(Append(s, x))
         /\ ToSet(Append(s, x)) = ToSet(s) \cup {x}
<1>1. /\ Append(s, x) \in Seq(S) /\ Len(s) \in Nat
      /\ DOMAIN s = 1..Len(s) /\ DOMAIN Append(s, x) = 1..Len(s) + 1
      /\ \A i \in 1..Len(s) : Append(s, x)[i] = s[i]
      /\ Append(s, x)[Len(s) + 1] = x
  BY AppendProperties, LenProperties
<1>2. IsInjective(Append(s, x))
  BY <1>1 DEF IsInjective, ToSet
<1>3. ToSet(Append(s, x)) = ToSet(s) \cup {x}
  <2>1. ASSUME NEW y \in ToSet(s) PROVE y \in ToSet(Append(s, x))
    BY <1>1 DEF ToSet
  <2>2. x \in ToSet(Append(s, x))
    <3>1. Len(s) + 1 \in DOMAIN Append(s, x)
      BY <1>1
    <3> QED
      BY <1>1, <3>1 DEF ToSet
  <2>3. ASSUME NEW y \in ToSet(Append(s, x)) PROVE y \in ToSet(s) \cup {x}
    <3>1. PICK i \in 1..Len(s) + 1 : y = Append(s, x)[i]
      BY <1>1 DEF ToSet
    <3> QED
      BY <1>1, <3>1 DEF ToSet
  <2> QED
    BY <2>1, <2>2, <2>3
<1> QED
  BY <1>1, <1>2, <1>3

\* The elements of a concatenation are those of both parts.
LEMMA ElementsOfConcat ==
  ASSUME NEW S, NEW s \in Seq(S), NEW t \in Seq(S)
  PROVE  /\ s \o t \in Seq(S) /\ ToSet(s \o t) = ToSet(s) \cup ToSet(t)
<1>1. /\ s \o t \in Seq(S) /\ Len(s) \in Nat /\ Len(t) \in Nat
      /\ DOMAIN s = 1..Len(s) /\ DOMAIN t = 1..Len(t) /\ DOMAIN (s \o t) = 1..Len(s) + Len(t)
      /\ \A i \in 1..Len(s) + Len(t) : (s \o t)[i] = IF i <= Len(s) THEN s[i] ELSE t[i - Len(s)]
  BY ConcatProperties, LenProperties
<1>2. ASSUME NEW y \in ToSet(s) PROVE y \in ToSet(s \o t)
  BY <1>1 DEF ToSet
<1>3. ASSUME NEW y \in ToSet(t) PROVE y \in ToSet(s \o t)
  <2>1. PICK i \in 1..Len(t) : y = t[i]
    BY <1>1 DEF ToSet
  <2>2. /\ i + Len(s) \in 1..Len(s) + Len(t) /\ ~ (i + Len(s) <= Len(s))
        /\ (i + Len(s)) - Len(s) = i
    BY <1>1
  <2>3. y = (s \o t)[i + Len(s)]
    BY <1>1, <2>1, <2>2
  <2> QED
    BY <1>1, <2>2, <2>3 DEF ToSet
<1>4. ASSUME NEW y \in ToSet(s \o t) PROVE y \in ToSet(s) \cup ToSet(t)
  <2>1. PICK i \in 1..Len(s) + Len(t) : y = (s \o t)[i]
    BY <1>1 DEF ToSet
  <2>2. CASE i <= Len(s)
    BY <1>1, <2>1, <2>2 DEF ToSet
  <2>3. CASE ~ (i <= Len(s))
    <3>1. i - Len(s) \in 1..Len(t) /\ y = t[i - Len(s)]
      BY <1>1, <2>1, <2>3
    <3> QED
      BY <1>1, <3>1 DEF ToSet
  <2> QED
    BY <2>2, <2>3
<1> QED
  BY <1>1, <1>2, <1>3, <1>4

LEMMA ConcatOfInjective ==
  ASSUME NEW S, NEW s \in Seq(S), NEW t \in Seq(S), IsInjective(s), IsInjective(t),
         ToSet(s) \cap ToSet(t) = {}
  PROVE  IsInjective(s \o t)
<1>1. /\ Len(s) \in Nat /\ Len(t) \in Nat
      /\ DOMAIN s = 1..Len(s) /\ DOMAIN t = 1..Len(t) /\ DOMAIN (s \o t) = 1..Len(s) + Len(t)
      /\ \A i \in 1..Len(s) + Len(t) : (s \o t)[i] = IF i <= Len(s) THEN s[i] ELSE t[i - Len(s)]
  BY ConcatProperties, LenProperties
<1>2. SUFFICES ASSUME NEW i \in 1..Len(s) + Len(t), NEW j \in 1..Len(s) + Len(t), (s \o t)[i] = (s \o t)[j]
      PROVE i = j
  BY <1>1 DEF IsInjective
<1>3. \A k \in 1..Len(s) + Len(t) :
        IF k <= Len(s) THEN k \in DOMAIN s /\ (s \o t)[k] = s[k] /\ s[k] \in ToSet(s)
        ELSE k - Len(s) \in DOMAIN t /\ (s \o t)[k] = t[k - Len(s)] /\ t[k - Len(s)] \in ToSet(t)
  BY <1>1 DEF ToSet
<1>4. CASE i <= Len(s) /\ j <= Len(s)
  BY <1>2, <1>3, <1>4 DEF IsInjective
<1>5. CASE ~ (i <= Len(s)) /\ ~ (j <= Len(s))
  <2>1. i - Len(s) = j - Len(s)
    BY <1>2, <1>3, <1>5 DEF IsInjective
  <2> QED
    BY <1>1, <2>1
<1>6. CASE (i <= Len(s)) # (j <= Len(s))
  BY <1>2, <1>3, <1>6
<1> QED
  BY <1>4, <1>5, <1>6

\* Each element of s in a pair with y.
PairedWith(s, y) == [i \in DOMAIN s |-> <<s[i], y>>]

LEMMA PairsAre ==
  ASSUME NEW S, NEW s \in Seq(S), NEW y, IsInjective(s)
  PROVE  /\ PairedWith(s, y) \in Seq(S \X {y}) /\ IsInjective(PairedWith(s, y))
         /\ ToSet(PairedWith(s, y)) = ToSet(s) \X {y}
<1>1. Len(s) \in Nat /\ DOMAIN s = 1..Len(s) /\ \A i \in 1..Len(s) : s[i] \in S
  BY LenProperties
<1>2. PICK p : p = PairedWith(s, y)
  OBVIOUS
<1>3. p \in [1..Len(s) -> S \X {y}] /\ \A i \in 1..Len(s) : p[i] = <<s[i], y>>
  BY <1>1, <1>2 DEF PairedWith
<1>4. p \in Seq(S \X {y})
  BY <1>1, <1>3, SeqDef
<1>5. IsInjective(p)
  BY <1>1, <1>3 DEF IsInjective
<1>6. ToSet(p) = ToSet(s) \X {y}
  BY <1>1, <1>3 DEF ToSet
<1> QED
  BY <1>2, <1>4, <1>5, <1>6

\* SetToSeq lists a finite set, each member once.
LEMMA SetToSeqLists ==
  ASSUME NEW S, IsFiniteSet(S)
  PROVE  SetToSeq(S) \in Seq(S) /\ IsInjective(SetToSeq(S)) /\ ToSet(SetToSeq(S)) = S
<1> DEFINE n == Cardinality(S)
<1>1. n \in Nat /\ ExistsBijection(1..n, S)
  BY FS_CardinalityType
<1>2. PICK f \in Bijection(1..n, S) : TRUE
  BY <1>1 DEF ExistsBijection
<1>3. f \in [1..n -> S] /\ IsInjective(f)
  BY <1>2 DEF Bijection, Injection, IsInjective
<1>4. SetToSeq(S) \in [1..n -> S] /\ IsInjective(SetToSeq(S))
  <2>1. \E g \in [1..n -> S] : IsInjective(g)
    BY <1>3
  <2> QED
    BY <2>1 DEF SetToSeq
<1> HIDE DEF n
<1>5. PICK s : s = SetToSeq(S)
  OBVIOUS
<1>6. s \in Injection(1..n, S) /\ s \in Seq(S) /\ DOMAIN s = 1..n
  BY <1>1, <1>4, <1>5, SeqDef DEF Injection, IsInjective
<1>7. IsFiniteSet(1..n) /\ Cardinality(1..n) = n
  BY <1>1, FS_Interval, 1 \in Int, n \in Int, n - 1 + 1 = n
<1>8. s \in Surjection(1..n, S)
  BY <1>6, <1>7, FS_Injection DEF n
<1>9. ToSet(s) = S
  BY <1>6, <1>8 DEF Surjection, ToSet
<1> QED
  BY <1>4, <1>5, <1>6, <1>9

\* A sequence without repetition has as many elements as entries.
LEMMA InjectiveCounts ==
  ASSUME NEW S, NEW s \in Seq(S), IsInjective(s)
  PROVE  Cardinality(ToSet(s)) = Len(s) /\ IsFiniteSet(ToSet(s)) /\ Len(s) \in Nat
<1>1. Len(s) \in Nat /\ DOMAIN s = 1..Len(s) /\ s \in [1..Len(s) -> S]
  BY LenProperties
<1>2. s \in Bijection(1..Len(s), ToSet(s))
  BY <1>1 DEF Bijection, Injection, Surjection, IsInjective, ToSet
<1>3. ExistsBijection(1..Len(s), ToSet(s))
  BY <1>2 DEF ExistsBijection
<1>4. PICK n : n = Len(s)
  OBVIOUS
<1>5. IsFiniteSet(1..n) /\ Cardinality(1..n) = n
  <2>1. n \in Nat
    BY <1>1, <1>4
  <2>2. 1 \in Int /\ n \in Int /\ n - 1 + 1 = n /\ (1 > n => n = 0)
    BY ONLY <2>1
  <2> QED BY ONLY <2>2, FS_Interval
<1>6. IsFiniteSet(ToSet(s)) /\ Cardinality(ToSet(s)) = n
  BY <1>3, <1>4, <1>5, FS_Bijection
<1> QED BY <1>1, <1>4, <1>6

=============================================================================
