------------------------ MODULE TransactionLogProofs ------------------------
(***************************************************************************)
(* Proofs about TransactionLog, for any number of transactions, updates    *)
(* and checkpoints, and any subset of the troubles.  The operators on the  *)
(* log come first; then the inductive invariant, one lemma per action or   *)
(* group of actions; then the theorems.                                    *)
(***************************************************************************)
EXTENDS TransactionLog, DataLemmas

\* Latest returns that element, and is the only one to be the greatest.
LEMMA LatestGreatest ==
  ASSUME NEW N \in Nat, NEW S \in SUBSET (0..N), S # {}
  PROVE  /\ Latest(S) \in S
         /\ \A x \in S : x <= Latest(S)
<1>1. \E m \in S : \A x \in S : x <= m
  BY GreatestExists
<1> QED BY <1>1 DEF Latest

LEMMA LatestIs ==
  ASSUME NEW S \in SUBSET Nat, NEW m \in S, \A x \in S : x <= m
  PROVE  Latest(S) = m
<1>1. \A i \in S : (\A j \in S : j <= i) => i = m
  OBVIOUS
<1> QED BY <1>1 DEF Latest

\* The first n elements of a log.
LEMMA PrefixOf ==
  ASSUME NEW f \in Seq(Record), NEW n \in 0..Len(f)
  PROVE  /\ SubSeq(f, 1, n) \in Seq(Record)
         /\ Len(SubSeq(f, 1, n)) = n
         /\ \A i \in 1..n : SubSeq(f, 1, n)[i] = f[i]
<1>1. \A i \in 1..n : f[i] \in Record
  BY ElementOfSeq
<1>2. /\ SubSeq(f, 1, n) \in Seq(Record)
      /\ Len(SubSeq(f, 1, n)) = IF 1 <= n THEN n - 1 + 1 ELSE 0
      /\ \A i \in 1..(n - 1 + 1) : SubSeq(f, 1, n)[i] = f[1 + i - 1]
  BY <1>1, SubSeqProperties, n \in Int
<1> QED BY <1>2

\* The LSNs of a transaction in the first n elements.
LEMMA LsnsOfPrefix ==
  ASSUME NEW f \in Seq(Record), NEW n \in 0..Len(f), NEW t, NEW types
  PROVE  LsnsOf(SubSeq(f, 1, n), t, types) =
           {i \in 0..(n - 1) : f[i+1].txn = t /\ f[i+1].type \in types}
<1>1. /\ Len(SubSeq(f, 1, n)) = n
      /\ \A i \in 1..n : SubSeq(f, 1, n)[i] = f[i]
  BY PrefixOf
<1> QED BY <1>1 DEF LsnsOf

\* The only torn record of a log is its last element.
TornLast(f) == \A i \in DOMAIN f : f[i].type = "TORN" => i = Len(f)

\* The readable part of such a log is all of it but the torn record.
LEMMA ReadableOf ==
  ASSUME NEW f \in Seq(Record), TornLast(f)
  PROVE  LET r == Readable(f) IN
         /\ r \in Seq(Record)
         /\ Len(r) \in 0..Len(f) /\ Len(f) <= Len(r) + 1
         /\ \A i \in 1..Len(r) : r[i] = f[i] /\ f[i].type # "TORN"
         /\ \A i \in (Len(r) + 1)..Len(f) : f[i].type = "TORN"
         /\ r = f <=> \A i \in DOMAIN f : f[i].type # "TORN"
         /\ r = SubSeq(f, 1, Len(r))
<1> DEFINE bad == {i \in DOMAIN f : f[i].type = "TORN"}
<1>1. CASE bad = {}
  <2>1. Readable(f) = f
    BY <1>1 DEF Readable
  <2> QED BY <1>1, <2>1, SubSeqFull
<1>2. CASE bad # {}
  <2>1. bad = {Len(f)} /\ Len(f) \in Nat \ {0} /\ f[Len(f)].type = "TORN"
    BY <1>2, LenProperties DEF TornLast
  <2>2. (CHOOSE i \in bad : \A j \in bad : i <= j) = Len(f)
    BY <2>1
  <2>3. Readable(f) = SubSeq(f, 1, Len(f) - 1)
    BY <1>2, <2>2 DEF Readable
  <2>4. /\ SubSeq(f, 1, Len(f) - 1) \in Seq(Record)
        /\ Len(SubSeq(f, 1, Len(f) - 1)) = Len(f) - 1
        /\ \A i \in 1..(Len(f) - 1) : SubSeq(f, 1, Len(f) - 1)[i] = f[i]
    BY <2>1, PrefixOf, Len(f) - 1 \in 0..Len(f)
  <2>5. \A i \in 1..(Len(f) - 1) : f[i].type # "TORN"
    BY <2>1 DEF TornLast
  <2> QED BY <2>1, <2>3, <2>4, <2>5
<1> QED BY <1>1, <1>2

LEMMA SameLsns ==
  ASSUME NEW f \in Seq(Record), NEW g \in Seq(Record), NEW n \in 0..Len(f), n \in 0..Len(g),
         \A i \in 1..n : f[i] = g[i], NEW t, NEW types
  PROVE  LsnsOf(SubSeq(f, 1, n), t, types) = LsnsOf(SubSeq(g, 1, n), t, types)
<1>1. LsnsOf(SubSeq(f, 1, n), t, types) = {i \in 0..(n - 1) : f[i+1].txn = t /\ f[i+1].type \in types}
  BY LsnsOfPrefix
<1>2. LsnsOf(SubSeq(g, 1, n), t, types) = {i \in 0..(n - 1) : g[i+1].txn = t /\ g[i+1].type \in types}
  BY LsnsOfPrefix
<1>3. \A i \in 0..(n - 1) : f[i+1] = g[i+1]
  OBVIOUS
<1> QED BY <1>1, <1>2, <1>3

\* Whether a transaction has a record of some type.
Has(f, t, type) == \E i \in DOMAIN f : f[i].txn = t /\ f[i].type = type

-----------------------------------------------------------------------------
(* What every log satisfies, whatever the process has done to it.          *)

\* CHECKPOINT records and torn ones belong to no transaction, the others to one.
Owned(f) == \A i \in DOMAIN f : f[i].txn = 0 <=> f[i].type \in {"CHECKPOINT", "TORN"}

\* The first record of a transaction, and no other, is its BEGIN.
BeginFirst(f) ==
  \A i \in DOMAIN f : f[i].txn # 0 =>
    (f[i].type = "BEGIN" <=> \A j \in 1..(i - 1) : f[j].txn # f[i].txn)

\* A CLR comes after an ABORT of its transaction, and no COMMIT does.
Aborting(f) ==
  \A j \in DOMAIN f :
    /\ f[j].type = "CLR" => \E i \in 1..(j - 1) : f[i].txn = f[j].txn /\ f[i].type = "ABORT"
    /\ f[j].type = "COMMIT" => ~ \E i \in 1..(j - 1) : f[i].txn = f[j].txn /\ f[i].type = "ABORT"

\* Each record is linked to the one before it of its transaction.
Linked(f) ==
  \A i \in DOMAIN f : f[i].type # "TORN" =>
    f[i].prev = Latest(LsnsOf(SubSeq(f, 1, i - 1), f[i].txn, Type))

\* Of two CLRs with no ABORT in between, the later undoes the older change.
Backwards(f) ==
  \A j \in DOMAIN f : \A i \in 1..(j - 1) :
    /\ f[i].txn = f[j].txn /\ f[i].type = "CLR" /\ f[j].type = "CLR"
    /\ \A k \in i..j : f[k].txn = f[i].txn => f[k].type # "ABORT"
    => f[j].undoes < f[i].undoes

\* Nothing follows the COMMIT of a transaction, unless its BEGIN is the first
\* record of the log and a force of its COMMIT may have failed.
Final(f, tr) ==
  \A j \in DOMAIN f : \A i \in 1..(j - 1) :
    /\ f[i].txn = f[j].txn /\ f[i].txn # 0
    /\ tr # "disk" \/ f[1].txn # f[i].txn
    => f[i].type # "COMMIT"

LogOK(f, tr) ==
  /\ f \in Seq(Record)
  /\ TornLast(f) /\ Owned(f) /\ BeginFirst(f) /\ Aborting(f)
  /\ Linked(f) /\ Backwards(f) /\ Final(f, tr)

\* Every part of it looks backwards: it holds of each beginning of the log.
LEMMA PrefixOK ==
  ASSUME NEW f, NEW tr, LogOK(f, tr), NEW n \in 0..Len(f)
  PROVE  LogOK(SubSeq(f, 1, n), tr)
<1> DEFINE g == SubSeq(f, 1, n)
<1>1. /\ f \in Seq(Record) /\ g \in Seq(Record) /\ Len(f) \in Nat /\ Len(g) = n
      /\ DOMAIN f = 1..Len(f) /\ DOMAIN g = 1..n
      /\ \A i \in 1..n : g[i] = f[i]
  BY PrefixOf, LenProperties DEF LogOK
<1> HIDE DEF g
<1>2. TornLast(g)
  BY <1>1 DEF LogOK, TornLast
<1>3. Owned(g)
  BY <1>1 DEF LogOK, Owned
<1>4. BeginFirst(g)
  BY <1>1 DEF LogOK, BeginFirst
<1>5. Aborting(g)
  BY <1>1 DEF LogOK, Aborting
<1>6. Linked(g)
  <2>1. SUFFICES ASSUME NEW i \in 1..n, g[i].type # "TORN"
                 PROVE  g[i].prev = Latest(LsnsOf(SubSeq(g, 1, i - 1), g[i].txn, Type))
    BY <1>1 DEF Linked
  <2>2. LsnsOf(SubSeq(g, 1, i - 1), g[i].txn, Type) = LsnsOf(SubSeq(f, 1, i - 1), f[i].txn, Type)
    BY <1>1, SameLsns, i - 1 \in 0..Len(g), i - 1 \in 0..Len(f)
  <2> QED BY <1>1, <2>1, <2>2 DEF LogOK, Linked
<1>7. Backwards(g)
  BY <1>1 DEF LogOK, Backwards
<1>8. Final(g, tr)
  BY <1>1 DEF LogOK, Final
<1> QED BY <1>1, <1>2, <1>3, <1>4, <1>5, <1>6, <1>7, <1>8 DEF LogOK, g

\* A log whose last force was cut short: the beginning of a record at its end.
LEMMA FragmentOK ==
  ASSUME NEW f, NEW tr, LogOK(f, tr), Readable(f) = f
  PROVE  LogOK(Append(f, Fragment), tr)
<1> DEFINE g == Append(f, Fragment)
<1>1. f \in Seq(Record) /\ \A i \in DOMAIN f : f[i].type # "TORN"
  BY ReadableOf DEF LogOK
<1>2. /\ Fragment \in Record /\ Fragment.type = "TORN" /\ Fragment.txn = 0
      /\ Len(f) \in Nat /\ DOMAIN f = 1..Len(f)
  BY <1>1, LenProperties, LogAssumption DEF Fragment, Record, Type
<1>3. /\ g \in Seq(Record) /\ Len(g) = Len(f) + 1 /\ DOMAIN g = 1..(Len(f) + 1)
      /\ \A i \in 1..Len(f) : g[i] = f[i]
      /\ g[Len(f) + 1].type = "TORN" /\ g[Len(f) + 1].txn = 0
  BY <1>1, <1>2, AppendProperties, LenProperties
<1> HIDE DEF g
<1>4. TornLast(g) /\ Owned(g) /\ BeginFirst(g)
  BY <1>1, <1>2, <1>3 DEF LogOK, TornLast, Owned, BeginFirst
<1>5. Aborting(g)
  BY <1>1, <1>2, <1>3 DEF LogOK, Aborting
<1>6. Linked(g)
  <2>1. SUFFICES ASSUME NEW i \in 1..Len(f)
                 PROVE  g[i].prev = Latest(LsnsOf(SubSeq(g, 1, i - 1), g[i].txn, Type))
    BY <1>2, <1>3 DEF Linked
  <2>2. LsnsOf(SubSeq(g, 1, i - 1), g[i].txn, Type) = LsnsOf(SubSeq(f, 1, i - 1), f[i].txn, Type)
    BY <1>1, <1>2, <1>3, SameLsns, i - 1 \in 0..Len(f), i - 1 \in 0..Len(g), SMTT(30)
  <2> QED BY <1>1, <1>2, <1>3, <2>2 DEF LogOK, Linked
<1>7. Backwards(g)
  BY <1>1, <1>2, <1>3 DEF LogOK, Backwards
<1>8. Final(g, tr)
  BY <1>1, <1>2, <1>3 DEF LogOK, Final
<1> QED BY <1>3, <1>4, <1>5, <1>6, <1>7, <1>8 DEF LogOK, g

\* A whole record may follow a whole log: linked to the last record of its
\* transaction, and where the transaction is far enough for it.
LEMMA AppendOK ==
  ASSUME NEW f, NEW tr, LogOK(f, tr), Readable(f) = f, NEW r \in Record,
         r.type # "TORN", r.txn = 0 <=> r.type = "CHECKPOINT",
         r.prev = ChainLast(f, r.txn),
         r.txn # 0 => (r.type = "BEGIN" <=> \A i \in 1..Len(f) : f[i].txn # r.txn),
         r.type = "COMMIT" => ~ Has(f, r.txn, "ABORT"),
         r.type = "CLR" => Has(f, r.txn, "ABORT"),
         r.type = "CLR" => \A i \in 1..Len(f) : 
           /\ f[i].txn = r.txn /\ f[i].type = "CLR"
           /\ \A k \in i..Len(f) : f[k].txn = r.txn => f[k].type # "ABORT"
           => r.undoes < f[i].undoes,
         r.txn # 0 /\ (tr # "disk" \/ Len(f) = 0 \/ f[1].txn # r.txn) => ~ Has(f, r.txn, "COMMIT")
  PROVE  LogOK(Append(f, r), tr)
<1> DEFINE g == Append(f, r)
<1>1. f \in Seq(Record) /\ \A i \in DOMAIN f : f[i].type # "TORN"
  BY ReadableOf DEF LogOK
<1>2. Len(f) \in Nat /\ DOMAIN f = 1..Len(f)
  BY <1>1, LenProperties
<1>3. /\ g \in Seq(Record) /\ Len(g) = Len(f) + 1 /\ DOMAIN g = 1..(Len(f) + 1)
      /\ \A i \in 1..Len(f) : g[i] = f[i]
      /\ g[Len(f) + 1] = r
  BY <1>1, <1>2, AppendProperties, LenProperties
<1> HIDE DEF g
<1>4. TornLast(g) /\ Owned(g)
  BY <1>1, <1>2, <1>3 DEF LogOK, TornLast, Owned
<1>b. BeginFirst(g)
  BY <1>1, <1>2, <1>3 DEF LogOK, BeginFirst
<1>5. Aborting(g)
  BY <1>1, <1>2, <1>3 DEF LogOK, Aborting, Has
<1>6. Linked(g)
  <2>1. SUFFICES ASSUME NEW i \in 1..(Len(f) + 1)
                 PROVE  g[i].prev = Latest(LsnsOf(SubSeq(g, 1, i - 1), g[i].txn, Type))
    BY <1>2, <1>3 DEF Linked
  <2>2. LsnsOf(SubSeq(g, 1, i - 1), g[i].txn, Type) = LsnsOf(SubSeq(f, 1, i - 1), g[i].txn, Type)
    BY <1>1, <1>2, <1>3, SameLsns, i - 1 \in 0..Len(f), i - 1 \in 0..Len(g), SMTT(30)
  <2>3. CASE i = Len(f) + 1
    <3>1. SubSeq(f, 1, i - 1) = f
      BY <1>1, <1>2, <2>3, SubSeqFull
    <3> QED BY <1>3, <2>2, <2>3, <3>1 DEF ChainLast
  <2>4. CASE i \in 1..Len(f)
    BY <1>1, <1>2, <1>3, <2>2, <2>4 DEF LogOK, Linked
  <2> QED BY <1>2, <2>3, <2>4
<1>7. Backwards(g)
  <2>1. SUFFICES ASSUME NEW j \in 1..(Len(f) + 1), NEW i \in 1..(j - 1),
                        g[i].txn = g[j].txn, g[i].type = "CLR", g[j].type = "CLR",
                        \A k \in i..j : g[k].txn = g[i].txn => g[k].type # "ABORT"
                 PROVE  g[j].undoes < g[i].undoes
    BY <1>3 DEF Backwards
  <2>2. CASE j = Len(f) + 1
    <3>1. i \in 1..Len(f) /\ g[i] = f[i] /\ g[j] = r
      BY <1>2, <1>3, <2>2
    <3>2. \A k \in i..Len(f) : f[k].txn = r.txn => f[k].type # "ABORT"
      <4>1. ASSUME NEW k \in i..Len(f), f[k].txn = r.txn PROVE f[k].type # "ABORT"
        <5>1. k \in i..j /\ g[k] = f[k]
          BY <1>2, <1>3, <2>2, <3>1
        <5> QED BY <2>1, <3>1, <4>1, <5>1
      <4> QED BY <4>1
    <3> QED BY <2>1, <3>1, <3>2
  <2>3. CASE j \in 1..Len(f)
    <3>1. \A k \in i..j : g[k] = f[k]
      BY <1>2, <1>3, <2>3
    <3>2. \A k \in i..j : f[k].txn = f[i].txn => f[k].type # "ABORT"
      BY <2>1, <2>3, <3>1, i \in i..j
    <3> QED BY <1>2, <2>1, <2>3, <3>1, <3>2, i \in i..j, j \in i..j DEF LogOK, Backwards
  <2> QED BY <1>2, <2>2, <2>3
<1>8. Final(g, tr)
  BY <1>1, <1>2, <1>3 DEF LogOK, Final, Has
<1> QED BY <1>3, <1>4, <1>b, <1>5, <1>6, <1>7, <1>8 DEF LogOK, g

\* What _load_log_state makes of a transaction.
LEMMA LoadedCommitted ==
  ASSUME NEW f \in Seq(Record), NEW t, NEW i \in 1..Len(f), f[i].txn = t, f[i].type = "COMMIT",
         \A j \in (i + 1)..Len(f) : f[j].txn = t => f[j].type \notin Outcomes
  PROVE  Loaded(f, t) = "committed"
<1> DEFINE ends == LsnsOf(f, t, Outcomes)
<1>1. Len(f) \in Nat
  BY LenProperties
<1>2. i - 1 \in ends
  BY <1>1 DEF LsnsOf, Outcomes
<1>3. ends \in SUBSET Nat
  BY <1>1 DEF LsnsOf
<1>4. ASSUME NEW k \in ends, ~ (k <= i - 1) PROVE FALSE
  <2>1. k + 1 \in (i + 1)..Len(f) /\ f[k + 1].txn = t /\ f[k + 1].type \in Outcomes
    BY <1>1, <1>4 DEF LsnsOf
  <2> QED BY <2>1
<1>5. Latest(ends) = i - 1
  <2>1. \A k \in ends : k <= i - 1
    BY <1>4
  <2> HIDE DEF ends
  <2> QED BY <1>2, <1>3, <2>1, LatestIs
<1>6. f[Latest(ends) + 1].type = "COMMIT"
  BY <1>5
<1> QED BY <1>2, <1>6 DEF Loaded

LEMMA LoadedType ==
  ASSUME NEW f, NEW t
  PROVE  /\ Loaded(f, t) \in Status
         /\ Loaded(f, t) = "active" <=> LsnsOf(f, t, Outcomes) = {} /\ t \in Seen(f)
         /\ Loaded(f, t) = "none" <=> LsnsOf(f, t, Outcomes) = {} /\ t \notin Seen(f)
BY DEF Loaded, Status

\* Where no fsync can have failed, a COMMIT is the outcome and an ABORT too.
LEMMA LoadedOutcome ==
  ASSUME NEW f \in Seq(Record), NEW t, NEW type \in {"COMMIT", "ABORT"}, Has(f, t, type)
  PROVE  /\ Loaded(f, t) \in {"committed", "aborted"}
         /\ Loaded(f, t) = "committed" => Has(f, t, "COMMIT")
         /\ Loaded(f, t) = "aborted" => Has(f, t, "ABORT")
<1> DEFINE ends == LsnsOf(f, t, Outcomes)
<1>1. Len(f) \in Nat /\ DOMAIN f = 1..Len(f)
  BY LenProperties
<1>2. PICK i \in 1..Len(f) : f[i].txn = t /\ f[i].type = type
  BY <1>1 DEF Has
<1>3. i - 1 \in ends /\ ends \subseteq 0..Len(f)
  BY <1>1, <1>2 DEF LsnsOf, Outcomes
<1>4. Latest(ends) \in ends
  <2> HIDE DEF ends
  <2> QED BY <1>1, <1>3, LatestGreatest
<1>5. /\ Latest(ends) + 1 \in DOMAIN f /\ f[Latest(ends) + 1].txn = t
      /\ f[Latest(ends) + 1].type \in {"COMMIT", "ABORT"}
  BY <1>1, <1>4 DEF LsnsOf, Outcomes
<1>6. Loaded(f, t) = IF f[Latest(ends) + 1].type = "COMMIT" THEN "committed" ELSE "aborted"
  BY <1>3 DEF Loaded
<1> QED BY <1>5, <1>6 DEF Has

\* And an outcome comes from a record.
LEMMA OutcomeRecord ==
  ASSUME NEW f \in Seq(Record), NEW t
  PROVE  /\ Loaded(f, t) = "committed" => Has(f, t, "COMMIT")
         /\ Loaded(f, t) = "aborted" => Has(f, t, "ABORT")
<1>1. SUFFICES ASSUME Loaded(f, t) \in {"committed", "aborted"}
               PROVE  \E type \in {"COMMIT", "ABORT"} : Has(f, t, type)
  BY LoadedOutcome
<1>2. LsnsOf(f, t, Outcomes) # {} /\ DOMAIN f = 1..Len(f) /\ Len(f) \in Nat
  BY <1>1, LenProperties DEF Loaded
<1>3. PICK a \in LsnsOf(f, t, Outcomes) : TRUE
  BY <1>2
<1>4. a + 1 \in DOMAIN f /\ f[a + 1].txn = t /\ f[a + 1].type \in {"COMMIT", "ABORT"}
  BY <1>2, <1>3 DEF LsnsOf, Outcomes
<1> QED BY <1>4 DEF Has

LEMMA LatestType ==
  ASSUME NEW f \in Seq(Record), NEW t, NEW types
  PROVE  /\ Latest(LsnsOf(f, t, types)) \in Nat
         /\ LsnsOf(f, t, types) # {} => Latest(LsnsOf(f, t, types)) \in LsnsOf(f, t, types)
<1>1. Len(f) \in Nat /\ LsnsOf(f, t, types) \subseteq 0..Len(f)
  BY LenProperties DEF LsnsOf
<1>2. CASE LsnsOf(f, t, types) = {}
  BY <1>2 DEF Latest
<1>3. CASE LsnsOf(f, t, types) # {}
  <2>1. PICK S : S = LsnsOf(f, t, types)
    OBVIOUS
  <2>2. Latest(S) \in S
    BY ONLY <1>1, <1>3, <2>1, LatestGreatest
  <2> QED BY <1>1, <2>1, <2>2
<1> QED BY <1>2, <1>3

-----------------------------------------------------------------------------
(* The inductive invariant.  The properties of the log are not inductive   *)
(* by themselves: what an append does to it depends on what the process    *)
(* remembers, and Open derives that memory from the log again.             *)

\* A BEGIN is forced before the id is given out.
BeginForced == \A i \in DOMAIN file : file[i].type = "BEGIN" => i <= durable

\* The COMMIT of an acknowledged transaction is forced, and its last record.
AckedFile ==
  \A t \in acked : \E i \in 1..durable :
    /\ file[i].txn = t /\ file[i].type = "COMMIT"
    /\ \A j \in (i + 1)..Len(file) : file[j].txn # t

Chains   == \A t \in 0..MaxTxn : lastOf[t] = ChainLast(Readable(file), t)
IdsBelow == \A i \in DOMAIN file : file[i].txn < nextId

\* Only active transactions have a session, and the lock is held in the middle
\* of a commit or of a rollback.
Sessions ==
  /\ \A t \in Id : sess[t] # "none" => status[t] = "active"
  /\ \A t \in Id : sess[t] = "commit" => rolling = t /\ phase = "running"
  /\ rolling # 0 => sess[rolling] \in {"commit", "rollback", "abort"}

\* No fsync fails, or the BEGIN of t is not the first record of the log.
Sheltered(t) == trouble # "disk" \/ file[1].txn # t

\* The records of t since the last ABORT: the changes still to undo are older
\* than those undone.
Descending(t) ==
  \A i \in DOMAIN file :
    /\ file[i].txn = t /\ file[i].type = "CLR"
    /\ \A k \in (i + 1)..Len(file) : file[k].txn = t => file[k].type # "ABORT"
    => \A u \in toUndo[t] : u < file[i].undoes

\* What is known of an active transaction.  Its object and the chain agree
\* unless it has a COMMIT; then its commit is in the middle, or has failed and
\* the object lags behind for good.
Object(t) ==
  /\ last[t] \in LsnsOf(file, t, Type)
  /\ sess[t] \in {"none", "open"} => ~ Has(file, t, "COMMIT") /\ ~ Has(file, t, "ABORT")
  /\ sess[t] = "commit" => /\ Len(file) > 0 /\ file[Len(file)].txn = t
                           /\ file[Len(file)].type = "COMMIT"
                           /\ last[t] < lastOf[t]
  /\ ~ Has(file, t, "COMMIT") => last[t] = lastOf[t]
  /\ Has(file, t, "COMMIT") /\ Sheltered(t) =>
       /\ last[t] < lastOf[t]
       /\ \/ sess[t] = "commit"
          \/ trouble = "disk" /\ rolling # t /\ sess[t] \in {"retry", "abort", "left"}
  /\ rolling = t /\ sess[t] # "commit" => Has(file, t, "ABORT") /\ Descending(t)
  /\ sess[t] \in {"rollback", "abort"} =>
       /\ toUndo[t] \subseteq LsnsOf(file, t, {"UPDATE"})
       /\ trouble # "threads" => LsnsOf(file, t, {"UPDATE"}) \subseteq toUndo[t] \cup Undone(t)

\* Of the process while it runs.
Memory ==
  /\ torn <=> Readable(file) # file
  /\ Chains /\ IdsBelow /\ Sessions
  /\ \A t \in Active : Object(t)
  /\ \A t \in acked : status[t] = "committed"

FileInv == LogOK(file, trouble) /\ BeginForced /\ AckedFile

IInv == Types /\ FileInv /\ (phase # "down" => Memory)

-----------------------------------------------------------------------------
(* The lemmas of the steps.                                                *)

\* What append does to the file and to its index: the readable part of the file
\* is kept, and one record follows.
Grown(type, t, undoes) ==
  LET b == Len(Readable(file))
      r == [type |-> type, txn |-> t, prev |-> lastOf[t], undoes |-> undoes]
  IN  /\ Len(Base) = b /\ b \in Nat /\ b <= Len(file)
      /\ Readable(file) \in Seq(Record) /\ \A i \in 1..b : Readable(file)[i] = file[i]
      /\ file \in Seq(Record) /\ Len(file) \in Nat /\ DOMAIN file = 1..Len(file)
      /\ r \in Record /\ file' = Append(Readable(file), r)
      /\ file' \in Seq(Record) /\ Len(file') = b + 1 /\ DOMAIN file' = 1..(b + 1)
      /\ Readable(file') = file'
      /\ \A i \in 1..b : file'[i] = file[i] /\ file[i].type # "TORN"
      /\ file'[b + 1].type = type /\ file'[b + 1].txn = t /\ file'[b + 1].undoes = undoes
      /\ \A i \in (b + 1)..Len(file) : file[i].txn = 0 /\ file[i].type = "TORN"
      /\ torn' = FALSE /\ lastOf' = [lastOf EXCEPT ![t] = b]

LEMMA AppendStep ==
  ASSUME Types, FileInv, Memory, NEW type \in Type, NEW t \in 0..MaxTxn, NEW prev,
         NEW undoes \in Nat, type # "TORN", Append1(type, t, prev, undoes)
  PROVE  Grown(type, t, undoes)
<1> DEFINE r == [type |-> type, txn |-> t, prev |-> lastOf[t], undoes |-> undoes]
           b == Len(Readable(file))
<1>1. Base = Readable(file)
  BY DEF Base, Memory
<1>2. file \in Seq(Record) /\ TornLast(file) /\ Owned(file) /\ Len(file) \in Nat /\ DOMAIN file = 1..Len(file)
  BY LenProperties DEF FileInv, LogOK
<1>3. /\ Readable(file) \in Seq(Record)
      /\ b \in 0..Len(file) /\ Len(file) <= b + 1
      /\ \A i \in 1..b : Readable(file)[i] = file[i] /\ file[i].type # "TORN"
      /\ \A i \in (b + 1)..Len(file) : file[i].type = "TORN"
  BY <1>2, ReadableOf
<1> HIDE DEF b
<1>4. b \in Nat /\ b <= Len(file)
  BY <1>2, <1>3
<1>5. \A i \in (b + 1)..Len(file) : file[i].txn = 0 /\ file[i].type = "TORN"
  BY <1>2, <1>3, <1>4 DEF Owned
<1>6. r \in Record
  BY DEF Record, Types
<1>7. file' = Append(Readable(file), r) /\ torn' = FALSE /\ lastOf' = [lastOf EXCEPT ![t] = b]
  BY <1>1 DEF Append1, b
<1>8. /\ file' \in Seq(Record) /\ Len(file') = b + 1 /\ DOMAIN file' = 1..(b + 1)
      /\ \A i \in 1..b : file'[i] = file[i]
      /\ file'[b + 1] = r
  BY <1>3, <1>4, <1>6, <1>7, AppendProperties, LenProperties DEF b
<1>9. Readable(file') = file'
  <2>1. \A i \in DOMAIN file' : file'[i].type # "TORN"
    BY <1>3, <1>4, <1>8
  <2> QED BY <2>1, <1>8, ReadableOf DEF TornLast
<1> QED BY <1>1, <1>2, <1>3, <1>4, <1>5, <1>6, <1>7, <1>8, <1>9 DEF Grown, b

\* The records of each transaction afterwards.
LEMMA RecordsAfter ==
  ASSUME NEW type \in Type, NEW t \in 0..MaxTxn, NEW undoes, Grown(type, t, undoes),
         NEW u \in Id
  PROVE  /\ \A y \in Type : Has(file', u, y) <=> Has(file, u, y) \/ (u = t /\ y = type)
         /\ \A types \in SUBSET Type :
              LsnsOf(file', u, types) = LsnsOf(file, u, types) \cup
                (IF u = t /\ type \in types THEN {Len(Readable(file))} ELSE {})
         /\ LsnsOf(file, u, Type) \subseteq 0..(Len(Readable(file)) - 1)
<1> DEFINE b == Len(Readable(file))
<1>1. /\ b \in Nat /\ b <= Len(file) /\ Len(file) \in Nat /\ DOMAIN file = 1..Len(file)
      /\ Len(file') = b + 1 /\ DOMAIN file' = 1..(b + 1)
      /\ \A i \in 1..b : file'[i] = file[i]
      /\ file'[b + 1].type = type /\ file'[b + 1].txn = t
      /\ \A i \in (b + 1)..Len(file) : file[i].txn # u
  BY DEF Grown, Id
<1> HIDE DEF b
<1>2. \A y \in Type : Has(file', u, y) <=> Has(file, u, y) \/ (u = t /\ y = type)
  BY <1>1 DEF Has
<1>3. ASSUME NEW types \in SUBSET Type
      PROVE  LsnsOf(file', u, types) = LsnsOf(file, u, types) \cup
                (IF u = t /\ type \in types THEN {b} ELSE {})
  <2>1. \A i : i \in LsnsOf(file', u, types) <=>
               i \in 0..b /\ file'[i + 1].txn = u /\ file'[i + 1].type \in types
    BY <1>1 DEF LsnsOf
  <2>2. \A i : i \in LsnsOf(file, u, types) <=>
               i \in 0..(b - 1) /\ file[i + 1].txn = u /\ file[i + 1].type \in types
    BY <1>1 DEF LsnsOf
  <2>3. \A i \in 0..(b - 1) : file'[i + 1] = file[i + 1]
    BY <1>1
  <2> QED BY <1>1, <2>1, <2>2, <2>3
<1>4. LsnsOf(file, u, Type) \subseteq 0..(b - 1)
  BY <1>1 DEF LsnsOf
<1> QED BY <1>2, <1>3, <1>4 DEF b

\* The records of the transaction that logs.
LEMMA OwnRecords ==
  ASSUME Types, NEW type \in Type, NEW t \in Id, NEW undoes, Grown(type, t, undoes)
  PROVE  /\ \A y \in Type : Has(file', t, y) <=> Has(file, t, y) \/ y = type
         /\ Len(Base) \in Nat /\ Len(Base) \in LsnsOf(file', t, Type)
         /\ lastOf'[t] = Len(Base)
         /\ LsnsOf(file, t, Type) \subseteq 0..(Len(Base) - 1)
         /\ \A types \in SUBSET Type :
              /\ LsnsOf(file, t, types) \subseteq LsnsOf(file', t, types)
              /\ type \notin types => LsnsOf(file', t, types) = LsnsOf(file, t, types)
<1>1. t \in 0..MaxTxn /\ Len(Base) = Len(Readable(file)) /\ Len(Base) \in Nat
  BY DEF Grown, Id
<1>2. \A y \in Type : Has(file', t, y) <=> Has(file, t, y) \/ y = type
  BY <1>1, RecordsAfter
<1>3. ASSUME NEW types \in SUBSET Type
      PROVE  LsnsOf(file', t, types) = LsnsOf(file, t, types) \cup (IF type \in types THEN {Len(Base)} ELSE {})
  <2>1. LsnsOf(file', t, types) = LsnsOf(file, t, types) \cup
          (IF t = t /\ type \in types THEN {Len(Readable(file))} ELSE {})
    BY <1>1, RecordsAfter
  <2> QED BY <1>1, <2>1
<1>4. LsnsOf(file, t, Type) \subseteq 0..(Len(Base) - 1)
  BY <1>1, RecordsAfter
<1>5. lastOf'[t] = Len(Base)
  BY <1>1 DEF Types, Grown
<1> QED BY <1>1, <1>2, <1>3, <1>4, <1>5

\* append keeps the index of the last records.
LEMMA ChainsAfter ==
  ASSUME Types, Chains, NEW type \in Type, NEW t \in 0..MaxTxn, NEW undoes,
         Grown(type, t, undoes)
  PROVE  Chains'
<1> DEFINE b == Len(Readable(file))
           r == Readable(file)
<1>1. /\ b \in Nat /\ b = Len(r) /\ Len(file') = b + 1 /\ Readable(file') = file'
      /\ \A i \in 1..b : file'[i] = r[i]
      /\ file'[b + 1].type = type /\ file'[b + 1].txn = t
      /\ lastOf' = [lastOf EXCEPT ![t] = b]
  BY DEF Grown
<1> HIDE DEF b, r
<1>2. ASSUME NEW u \in 0..MaxTxn, u # t PROVE LsnsOf(file', u, Type) = LsnsOf(r, u, Type)
  <2>1. \A i : i \in LsnsOf(file', u, Type) <=>
               i \in 0..b /\ file'[i + 1].txn = u /\ file'[i + 1].type \in Type
    BY <1>1 DEF LsnsOf
  <2>2. \A i : i \in LsnsOf(r, u, Type) <=>
               i \in 0..(b - 1) /\ r[i + 1].txn = u /\ r[i + 1].type \in Type
    BY <1>1 DEF LsnsOf
  <2>3. \A i \in 0..(b - 1) : file'[i + 1] = r[i + 1]
    BY <1>1
  <2>4. \A i : i \in LsnsOf(file', u, Type) <=> i \in LsnsOf(r, u, Type)
    <3>1. \A i \in 0..b : i = b \/ i \in 0..(b - 1)
      BY <1>1
    <3>2. \A i \in 0..(b - 1) : i \in 0..b
      BY <1>1
    <3> QED BY <1>1, <1>2, <2>1, <2>2, <2>3, <3>1, <3>2, SMTT(30)
  <2> QED BY <2>4
<1>3. Latest(LsnsOf(file', t, Type)) = b
  <2>1. b \in LsnsOf(file', t, Type) /\ LsnsOf(file', t, Type) \subseteq 0..b
    BY <1>1 DEF LsnsOf
  <2> QED BY <1>1, <2>1, LatestIs
<1>4. SUFFICES ASSUME NEW u \in 0..MaxTxn PROVE lastOf'[u] = Latest(LsnsOf(file', u, Type))
  BY <1>1 DEF Chains, ChainLast
<1>5. CASE u = t
  BY <1>1, <1>3, <1>5 DEF Types
<1>6. CASE u # t
  <2>1. lastOf'[u] = lastOf[u]
    BY <1>1, <1>6 DEF Types
  <2> QED BY <1>2, <1>6, <2>1 DEF Chains, ChainLast, r
<1> QED BY <1>5, <1>6

\* The log stays sound when the record fits the history of its transaction.
LEMMA LogAfter ==
  ASSUME Types, FileInv, Memory, NEW type \in Type, NEW t \in 0..MaxTxn, NEW undoes \in Nat,
         Grown(type, t, undoes), type # "TORN", t = 0 <=> type = "CHECKPOINT",
         t # 0 => (type = "BEGIN" <=> \A i \in DOMAIN file : file[i].txn # t),
         type = "COMMIT" => ~ Has(file, t, "ABORT"),
         type = "CLR" => Has(file, t, "ABORT"),
         type = "CLR" => \A i \in DOMAIN file :
           /\ file[i].txn = t /\ file[i].type = "CLR"
           /\ \A k \in (i + 1)..Len(file) : file[k].txn = t => file[k].type # "ABORT"
           => undoes < file[i].undoes,
         t # 0 /\ Sheltered(t) => ~ Has(file, t, "COMMIT"),
         trouble' = trouble
  PROVE  LogOK(file', trouble')
<1> DEFINE b == Len(Readable(file))
           f == Readable(file)
           r == [type |-> type, txn |-> t, prev |-> lastOf[t], undoes |-> undoes]
<1>1. /\ b \in 0..Len(file) /\ Len(file) \in Nat /\ DOMAIN file = 1..Len(file)
      /\ f \in Seq(Record) /\ Len(f) = b /\ DOMAIN f = 1..b
      /\ \A i \in 1..b : f[i] = file[i] /\ file[i].type # "TORN"
      /\ \A i \in (b + 1)..Len(file) : file[i].txn = 0
      /\ r \in Record /\ file' = Append(f, r)
  BY LenProperties DEF Grown
<1>2. LogOK(f, trouble)
  <2>1. f = SubSeq(file, 1, b)
    BY ReadableOf DEF FileInv, LogOK
  <2> QED BY <1>1, <2>1, PrefixOK, ZenonT(30) DEF FileInv
<1>3. Readable(f) = f
  <2>1. \A i \in DOMAIN f : f[i].type # "TORN"
    BY <1>1
  <2> QED BY <1>1, <2>1, ReadableOf DEF TornLast
<1>4. r.type = type /\ r.txn = t /\ r.prev = lastOf[t] /\ r.undoes = undoes
  OBVIOUS
<1>5. r.prev = ChainLast(f, t)
  BY <1>4 DEF Memory, Chains
<1> HIDE DEF b, f, r
<1>6. t # 0 => \A y : Has(f, t, y) <=> Has(file, t, y)
  BY <1>1 DEF Has
<1>7. t # 0 => (type = "BEGIN" <=> \A i \in 1..Len(f) : f[i].txn # t)
  BY <1>1
<1>8. type = "CLR" => \A i \in 1..Len(f) :
           /\ f[i].txn = t /\ f[i].type = "CLR"
           /\ \A k \in i..Len(f) : f[k].txn = t => f[k].type # "ABORT"
           => undoes < f[i].undoes
  <2>1. SUFFICES ASSUME type = "CLR", NEW i \in 1..Len(f), f[i].txn = t, f[i].type = "CLR",
                        \A k \in i..Len(f) : f[k].txn = t => f[k].type # "ABORT"
                 PROVE  undoes < f[i].undoes
    OBVIOUS
  <2>2. t # 0
    BY <2>1
  <2>3. \A k \in (i + 1)..Len(file) : file[k].txn = t => file[k].type # "ABORT"
    BY <1>1, <2>1, <2>2
  <2> QED BY <1>1, <2>1, <2>3
<1>9. t # 0 /\ (trouble # "disk" \/ Len(f) = 0 \/ f[1].txn # t) => ~ Has(f, t, "COMMIT")
  BY <1>1, <1>6 DEF Sheltered, Has
<1>10. /\ r.type = "COMMIT" => ~ Has(f, t, "ABORT")
       /\ r.type = "CLR" => Has(f, t, "ABORT")
  BY <1>4, <1>6
<1> QED BY <1>1, <1>2, <1>3, <1>4, <1>5, <1>7, <1>8, <1>9, <1>10, AppendOK, ZenonT(30)

\* What is forced stays forced: a torn tail that is cut off holds no record.
LEMMA DurableAfter ==
  ASSUME Types, FileInv, NEW type \in Type, NEW t \in 0..MaxTxn, NEW undoes,
         Grown(type, t, undoes), t \notin acked, acked' = acked,
         Forced \/ (Unforced /\ type # "BEGIN")
  PROVE  durable' \in 0..Len(file') /\ BeginForced' /\ AckedFile'
<1> DEFINE b == Len(Readable(file))
<1>1. /\ b \in 0..Len(file) /\ Len(file) \in Nat /\ Len(Base) = b
      /\ DOMAIN file = 1..Len(file) /\ DOMAIN file' = 1..(b + 1) /\ Len(file') = b + 1
      /\ \A i \in 1..b : file'[i] = file[i]
      /\ \A i \in (b + 1)..Len(file) : file[i].type = "TORN"
      /\ file'[b + 1].type = type /\ file'[b + 1].txn = t
  BY DEF Grown
<1>2. durable \in 0..Len(file)
  BY DEF Types
<1> HIDE DEF b
<1>3. \/ durable' = b + 1
      \/ type # "BEGIN" /\ durable' = IF durable > b THEN b ELSE durable
  BY <1>1 DEF Forced, Unforced
<1>4. durable' \in 0..(b + 1) /\ \A i \in 1..b : i <= durable => i <= durable'
  BY <1>1, <1>2, <1>3
<1>5. BeginForced'
  BY <1>1, <1>3, <1>4 DEF FileInv, BeginForced
<1>6. ASSUME NEW a \in acked
      PROVE  \E i \in 1..durable' :
               /\ file'[i].txn = a /\ file'[i].type = "COMMIT"
               /\ \A j \in (i + 1)..Len(file') : file'[j].txn # a
  <2>1. PICK i \in 1..durable : /\ file[i].txn = a /\ file[i].type = "COMMIT"
                                /\ \A j \in (i + 1)..Len(file) : file[j].txn # a
    BY <1>6 DEF FileInv, AckedFile
  <2>2. i \in 1..b
    BY <1>1, <1>2, <2>1
  <2>3. i \in 1..durable' /\ file'[i] = file[i]
    BY <1>1, <1>4, <2>1, <2>2
  <2>4. \A j \in (i + 1)..(b + 1) : file'[j].txn # a
    <3>1. ASSUME NEW j \in (i + 1)..(b + 1) PROVE file'[j].txn # a
      <4>1. CASE j = b + 1
        BY <1>1, <1>6, <4>1
      <4>2. CASE j \in (i + 1)..b
        BY <1>1, <2>1, <2>2, <4>2
      <4> QED BY <1>1, <2>2, <4>1, <4>2, SMTT(30)
    <3> QED BY <3>1
  <2> QED BY <1>1, <2>1, <2>3, <2>4
<1> QED BY <1>1, <1>4, <1>5, <1>6 DEF AckedFile

\* The changes undone afterwards.
LEMMA UndoneAfter ==
  ASSUME NEW type, NEW t, NEW undoes, Grown(type, t, undoes), NEW u \in Id
  PROVE  /\ Undone(u) \subseteq Undone(u)'
         /\ type = "CLR" /\ u = t => undoes \in Undone(u)'
<1> DEFINE b == Len(Readable(file))
<1>1. /\ b \in Nat /\ Len(file) \in Nat /\ DOMAIN file = 1..Len(file)
      /\ DOMAIN file' = 1..(b + 1) /\ \A i \in 1..b : file'[i] = file[i]
      /\ \A i \in (b + 1)..Len(file) : file[i].type = "TORN"
      /\ file'[b + 1].type = type /\ file'[b + 1].txn = t /\ file'[b + 1].undoes = undoes
  BY DEF Grown
<1> HIDE DEF b
<1>2. \A x : x \in Undone(u) <=> \E i \in 1..Len(file) :
              file[i].txn = u /\ file[i].type = "CLR" /\ x = file[i].undoes
  BY <1>1 DEF Undone
<1>3. \A x : x \in Undone(u)' <=> \E i \in 1..(b + 1) :
              file'[i].txn = u /\ file'[i].type = "CLR" /\ x = file'[i].undoes
  BY <1>1 DEF Undone
<1>4. ASSUME NEW x \in Undone(u) PROVE x \in Undone(u)'
  <2>1. PICK i \in 1..Len(file) : file[i].txn = u /\ file[i].type = "CLR" /\ x = file[i].undoes
    BY <1>2, <1>4
  <2>2. i \in 1..b /\ i \in 1..(b + 1) /\ file'[i] = file[i]
    BY <1>1, <2>1
  <2> QED BY <1>3, <2>1, <2>2
<1>5. ASSUME type = "CLR", u = t PROVE undoes \in Undone(u)'
  BY <1>1, <1>3, <1>5, b + 1 \in 1..(b + 1)
<1> QED BY <1>4, <1>5

\* The first record of the log stays while it is that of a transaction.
LEMMA ShelteredAfter ==
  ASSUME NEW type, NEW t, NEW undoes, Grown(type, t, undoes), NEW u \in Id, NEW y,
         Has(file, u, y), Sheltered(u)', trouble' = trouble
  PROVE  Sheltered(u)
<1>1. PICK i \in DOMAIN file : file[i].txn = u
  BY DEF Has
<1>2. i \in 1..Len(Readable(file))
  BY <1>1 DEF Grown, Id
<1>3. file'[1] = file[1]
  BY <1>2 DEF Grown
<1> QED BY <1>3 DEF Sheltered

\* What is known of the other transactions does not change.
LEMMA ObjectFrame ==
  ASSUME Types, NEW type \in Type, NEW t \in 0..MaxTxn, NEW undoes, Grown(type, t, undoes),
         NEW u \in Id, u # t, Object(u), sess[u] # "commit", rolling # u, rolling' # u,
         trouble' = trouble,
         sess'[u] = sess[u], last'[u] = last[u], toUndo'[u] = toUndo[u]
  PROVE  Object(u)'
<1>1. \A y \in Type : Has(file', u, y) <=> Has(file, u, y)
  BY RecordsAfter
<1>2. ASSUME NEW types \in SUBSET Type PROVE LsnsOf(file', u, types) = LsnsOf(file, u, types)
  <2>1. LsnsOf(file', u, types) = LsnsOf(file, u, types) \cup
          (IF u = t /\ type \in types THEN {Len(Readable(file))} ELSE {})
    BY RecordsAfter
  <2> QED BY <2>1
<1>3. lastOf'[u] = lastOf[u]
  BY DEF Grown, Types, Id
<1>4. Has(file, u, "COMMIT") /\ Sheltered(u)' => Sheltered(u)
  BY ShelteredAfter
<1>5. Undone(u) \subseteq Undone(u)'
  BY UndoneAfter
<1> QED BY <1>1, <1>2, <1>3, <1>4, <1>5 DEF Object, Type

LEMMA ObjectStays ==
  ASSUME NEW u \in Id, Object(u), UNCHANGED <<file, lastOf, trouble>>,
         rolling' = u => rolling = u,
         sess'[u] = sess[u], last'[u] = last[u], toUndo'[u] = toUndo[u]
  PROVE  Object(u)'
BY DEF Object, Sheltered, Descending, Undone

\* The types of what every append changes.
LEMMA TypesAfter ==
  ASSUME Types, NEW type, NEW t, NEW undoes, Grown(type, t, undoes)
  PROVE  /\ file' \in Seq(Record) /\ torn' \in BOOLEAN /\ lastOf' \in [0..MaxTxn -> Nat]
         /\ Len(Base) \in Nat
BY DEF Types, Grown

LEMMA IdsAfter ==
  ASSUME Types, IdsBelow, NEW type, NEW t \in 0..MaxTxn, NEW undoes, Grown(type, t, undoes),
         nextId' \in Nat, nextId <= nextId', t < nextId'
  PROVE  IdsBelow'
<1>1. \A i \in DOMAIN file : file[i].txn \in Nat
  <2>1. \A i \in 1..Len(file) : file[i] \in Record
    BY ElementOfSeq DEF Types
  <2>2. \A r \in Record : r.txn \in 0..MaxTxn
    BY DEF Record
  <2> QED BY <2>1, <2>2 DEF Grown
<1>2. SUFFICES ASSUME NEW i \in 1..(Len(Readable(file)) + 1) PROVE file'[i].txn < nextId'
  BY DEF IdsBelow, Grown
<1>3. CASE i \in 1..Len(Readable(file))
  <2>1. i \in DOMAIN file /\ file'[i] = file[i]
    BY <1>3 DEF Grown
  <2>2. file[i].txn < nextId /\ nextId \in Nat
    BY <2>1, LogAssumption DEF IdsBelow, Types
  <2> QED BY <1>1, <2>1, <2>2
<1>4. CASE i = Len(Readable(file)) + 1
  BY <1>4 DEF Grown
<1> QED BY <1>2, <1>3, <1>4 DEF Grown

-----------------------------------------------------------------------------
(* The actions.                                                            *)

LEMMA StepBegin ==
  ASSUME IInv, Begin, trouble' = trouble PROVE IInv'
<1>0. PICK t \in Id : t = nextId
  BY LogAssumption DEF Begin, IInv, Types, Id
<1>1. /\ phase = "running" /\ rolling = 0
      /\ Append1("BEGIN", t, 0, 0) /\ Forced
      /\ nextId' = t + 1
      /\ status' = [status EXCEPT ![t] = "active"]
      /\ last'   = [last EXCEPT ![t] = Len(Base)]
      /\ sess'   = [sess EXCEPT ![t] = "open"]
      /\ UNCHANGED <<rolling, toUndo, phase, acked>>
  BY <1>0 DEF Begin
<1>2. Types /\ FileInv /\ Memory
  BY <1>1 DEF IInv
<1>3. Grown("BEGIN", t, 0)
  BY <1>1, <1>2, AppendStep DEF Type, Id
<1>4. \A i \in DOMAIN file : file[i].txn < t
  BY <1>0, <1>2 DEF Memory, IdsBelow
<1>5. /\ \A i \in DOMAIN file : file[i].txn # t
      /\ \A y \in Type : ~ Has(file, t, y)
  BY <1>1, <1>4 DEF Has, Id
<1>6. t \notin acked
  <2>1. SUFFICES ASSUME t \in acked PROVE FALSE
    OBVIOUS
  <2>2. PICK i \in 1..durable : file[i].txn = t
    BY <1>2, <2>1 DEF FileInv, AckedFile
  <2>3. i \in DOMAIN file
    BY <1>2, <1>3, <2>2 DEF Types, Grown
  <2> QED BY <1>5, <2>2, <2>3
<1>7. LogOK(file', trouble')
  BY <1>1, <1>2, <1>3, <1>5, LogAfter DEF Type, Id
<1>8. durable' \in 0..Len(file') /\ BeginForced' /\ AckedFile'
  BY <1>1, <1>2, <1>3, <1>6, DurableAfter DEF Type, Id
<1>9. Types'
  <2>1. nextId' \in 1..(MaxTxn + 1)
    BY <1>1, LogAssumption DEF Id
  <2>2. /\ status' \in [Id -> Status] /\ last' \in [Id -> Nat] /\ sess' \in [Id -> Sess]
        /\ rolling' \in 0..MaxTxn /\ toUndo' \in [Id -> SUBSET Nat] /\ phase' \in Phase
        /\ acked' \subseteq Id
    BY <1>1, <1>2, <1>3, TypesAfter DEF Types, Status, Sess
  <2> QED BY <1>2, <1>3, <1>8, <2>1, <2>2, TypesAfter DEF Types
<1>10. Chains'
  BY <1>1, <1>2, <1>3, ChainsAfter DEF Memory, Type, Id
<1>11. IdsBelow'
  <2>1. nextId' \in Nat /\ t < nextId' /\ nextId <= nextId'
    BY <1>0, <1>1 DEF Id
  <2> QED BY <1>1, <1>2, <1>3, <2>1, IdsAfter DEF Memory, Id
<1>12. Sessions'
  BY <1>1, <1>2 DEF Sessions, Memory, Types, Id
<1>13. ASSUME NEW u \in Active' PROVE Object(u)'
  <2>1. u \in Id
    BY DEF Active
  <2>2. CASE u = t
    <3>1. last'[t] = Len(Base) /\ sess'[t] = "open"
      BY <1>1, <1>2 DEF Types
    <3>2. /\ Len(Base) \in LsnsOf(file', t, Type) /\ lastOf'[t] = Len(Base)
          /\ \A y \in Type : Has(file', t, y) <=> Has(file, t, y) \/ y = "BEGIN"
      BY <1>2, <1>3, OwnRecords DEF Type
    <3>3. ~ Has(file', t, "COMMIT") /\ ~ Has(file', t, "ABORT")
      BY <1>5, <3>2 DEF Type
    <3>4. rolling' # t
      BY <1>1 DEF Id
    <3> QED BY <2>2, <3>1, <3>2, <3>3, <3>4 DEF Object
  <2>3. CASE u # t
    <3>1. status[u] = "active" /\ sess'[u] = sess[u] /\ last'[u] = last[u] /\ toUndo'[u] = toUndo[u]
      BY <1>1, <1>2, <2>1, <2>3 DEF Active, Types
    <3>2. Object(u) /\ sess[u] # "commit" /\ rolling # u /\ rolling' # u
      BY <1>1, <1>2, <2>1, <3>1 DEF Memory, Active, Sessions, Id
    <3> QED BY <1>1, <1>2, <1>3, <2>1, <2>3, <3>1, <3>2, ObjectFrame DEF Type, Id
  <2> QED BY <2>2, <2>3
<1>14. \A u \in acked' : status'[u] = "committed"
  BY <1>1, <1>2, <1>6 DEF Memory, Types
<1>15. Memory'
  BY <1>3, <1>10, <1>11, <1>12, <1>13, <1>14 DEF Memory, Grown
<1> QED BY <1>7, <1>8, <1>9, <1>15 DEF IInv, FileInv

\* A record of an active transaction: what is left to show is that it fits the
\* history of t, and what is known of t afterwards.
LEMMA ActorStep ==
  ASSUME IInv, phase # "down", NEW t \in Id, status[t] = "active",
         NEW type \in Type \ {"BEGIN", "CHECKPOINT", "TORN"}, NEW prev, NEW undoes \in Nat,
         Append1(type, t, prev, undoes), Forced \/ Unforced,
         rolling \in {0, t}, rolling' \in {0, t},
         \A u \in Id \ {t} : sess'[u] = sess[u] /\ last'[u] = last[u] /\ toUndo'[u] = toUndo[u],
         last' \in [Id -> Nat], sess' \in [Id -> Sess], toUndo' \in [Id -> SUBSET Nat],
         UNCHANGED <<nextId, status, phase, acked, trouble>>,
         type = "COMMIT" => ~ Has(file, t, "ABORT"),
         type = "CLR" => Has(file, t, "ABORT"),
         type = "CLR" => \A i \in DOMAIN file :
           /\ file[i].txn = t /\ file[i].type = "CLR"
           /\ \A k \in (i + 1)..Len(file) : file[k].txn = t => file[k].type # "ABORT"
           => undoes < file[i].undoes,
         Sheltered(t) => ~ Has(file, t, "COMMIT"),
         Sessions', Object(t)'
  PROVE  IInv'
<1>1. Types /\ FileInv /\ Memory /\ t \in 0..MaxTxn /\ t # 0
  BY DEF IInv, Id
<1>2. Grown(type, t, undoes)
  BY <1>1, AppendStep
<1>3. \E i \in DOMAIN file : file[i].txn = t
  <2>1. last[t] \in LsnsOf(file, t, Type)
    BY <1>1 DEF Memory, Active, Object
  <2>2. last[t] + 1 \in DOMAIN file /\ file[last[t] + 1].txn = t
    BY <1>2, <2>1 DEF LsnsOf, Grown
  <2> QED BY <2>2
<1>4. t \notin acked
  BY <1>1 DEF Memory
<1>5. LogOK(file', trouble')
  BY <1>1, <1>2, <1>3, LogAfter
<1>6. durable' \in 0..Len(file') /\ BeginForced' /\ AckedFile'
  BY <1>1, <1>2, <1>4, DurableAfter
<1>7. Types'
  <2>1. rolling' \in 0..MaxTxn /\ status' \in [Id -> Status] /\ phase' \in Phase /\ acked' \subseteq Id
    BY <1>1, LogAssumption DEF Types
  <2>2. nextId' \in 1..(MaxTxn + 1)
    BY <1>1 DEF Types
  <2> QED BY <1>1, <1>2, <1>6, <2>1, <2>2, TypesAfter DEF Types
<1>8. Chains'
  BY <1>1, <1>2, ChainsAfter DEF Memory
<1>9. IdsBelow'
  <2>1. t < nextId
    <3>1. PICK i \in DOMAIN file : file[i].txn = t
      BY <1>3
    <3> QED BY <1>1, <3>1 DEF Memory, IdsBelow
  <2>2. nextId \in Nat
    BY <1>1, LogAssumption DEF Types
  <2> QED BY <1>1, <1>2, <2>1, <2>2, IdsAfter DEF Memory
<1>10. ASSUME NEW u \in Active' PROVE Object(u)'
  <2>1. u \in Id /\ u \in Active
    BY DEF Active
  <2>2. CASE u # t
    <3>1. Object(u) /\ sess[u] # "commit" /\ rolling # u /\ rolling' # u
      BY <1>1, <2>1, <2>2 DEF Memory, Sessions, Id
    <3> QED BY <1>1, <1>2, <2>1, <2>2, <3>1, ObjectFrame
  <2> QED BY <2>2
<1>11. Memory'
  BY <1>1, <1>2, <1>8, <1>9, <1>10 DEF Memory, Grown
<1> QED BY <1>5, <1>6, <1>7, <1>11 DEF IInv, FileInv

LEMMA StepLogUpdate ==
  ASSUME IInv, NEW t \in Id, LogUpdate(t), trouble' = trouble PROVE IInv'
<1>1. Types /\ FileInv /\ Memory /\ Object(t) /\ phase = "running" /\ rolling = 0
  BY DEF IInv, LogUpdate, Memory
<1>2. Append1("UPDATE", t, 0, 0) /\ Unforced /\ status[t] = "active"
  BY DEF LogUpdate, Active
<1>3. Grown("UPDATE", t, 0)
  BY <1>1, <1>2, AppendStep DEF Type, Id
<1>4. /\ \A y \in Type : Has(file', t, y) <=> Has(file, t, y) \/ y = "UPDATE"
      /\ Len(Base) \in Nat /\ Len(Base) \in LsnsOf(file', t, Type) /\ lastOf'[t] = Len(Base)
      /\ LsnsOf(file, t, {"UPDATE"}) \subseteq LsnsOf(file', t, {"UPDATE"})
  BY <1>1, <1>3, OwnRecords DEF Type
<1>5. /\ last' \in [Id -> Nat] /\ last'[t] = Len(Base)
      /\ \A u \in Id \ {t} : last'[u] = last[u]
  BY <1>1, <1>4 DEF LogUpdate, Types
<1>6. sess[t] = "open" \/ (trouble = "threads" /\ sess[t] \in {"rollback", "abort"})
  BY DEF LogUpdate
<1>7. ~ Has(file, t, "COMMIT")
  BY <1>1, <1>6 DEF Object, Sheltered
<1>8. Sessions'
  BY <1>1 DEF LogUpdate, Memory, Sessions
<1>9. Object(t)'
  BY <1>1, <1>4, <1>5, <1>6, <1>7 DEF LogUpdate, Object, Type, Id
<1> QED BY <1>1, <1>2, <1>5, <1>7, <1>8, <1>9, ActorStep DEF IInv, LogUpdate, Type, Types

LEMMA StepCommitAppend ==
  ASSUME IInv, NEW t \in Id, CommitAppend(t), trouble' = trouble PROVE IInv'
<1>1. /\ Types /\ FileInv /\ Memory /\ Object(t) /\ phase = "running" /\ rolling = 0
      /\ sess[t] = "open" /\ status[t] = "active" /\ Append1("COMMIT", t, last[t], 0) /\ Unforced
      /\ rolling' = t /\ sess' = [sess EXCEPT ![t] = "commit"]
      /\ UNCHANGED <<nextId, status, last, toUndo, phase, acked>>
  BY DEF IInv, CommitAppend, Memory, Active
<1>2. Grown("COMMIT", t, 0)
  BY <1>1, AppendStep DEF Type, Id
<1>3. /\ Len(Base) \in Nat /\ lastOf'[t] = Len(Base)
      /\ LsnsOf(file, t, Type) \subseteq 0..(Len(Base) - 1)
      /\ LsnsOf(file', t, Type) = LsnsOf(file, t, Type) \cup {Len(Base)}
      /\ \A y \in Type : Has(file', t, y) <=> Has(file, t, y) \/ y = "COMMIT"
  <2>1. t \in 0..MaxTxn
    BY DEF Id
  <2>2. LsnsOf(file', t, Type) = LsnsOf(file, t, Type) \cup
          (IF t = t /\ "COMMIT" \in Type THEN {Len(Readable(file))} ELSE {})
    BY <1>2, <2>1, RecordsAfter DEF Type
  <2>3. Len(Readable(file)) = Len(Base)
    BY <1>2 DEF Grown
  <2> QED BY <1>1, <1>2, <2>2, <2>3, OwnRecords DEF Type
<1>4. ~ Has(file, t, "COMMIT") /\ ~ Has(file, t, "ABORT")
  BY <1>1 DEF Object
<1>5. last[t] \in LsnsOf(file', t, Type) /\ last[t] < lastOf'[t]
  BY <1>1, <1>3 DEF Object
<1>6. Len(file') > 0 /\ file'[Len(file')].txn = t /\ file'[Len(file')].type = "COMMIT"
  BY <1>2 DEF Grown
<1>7. sess'[t] = "commit" /\ \A u \in Id \ {t} : sess'[u] = sess[u]
  BY <1>1 DEF Types
<1>8. Sessions'
  BY <1>1, <1>7 DEF Memory, Sessions, Id
<1>9. Object(t)'
  BY <1>1, <1>3, <1>5, <1>6, <1>7 DEF Object, Type
<1>10. sess' \in [Id -> Sess]
  BY <1>1 DEF Types, Sess
<1> QED BY <1>1, <1>4, <1>7, <1>8, <1>9, <1>10, ActorStep DEF Type, Types

\* Between the halves of a commit nothing else is appended: its COMMIT is still
\* the last record of the log when it is forced.
LEMMA StepCommitForce ==
  ASSUME IInv, NEW t \in Id, CommitForce(t), trouble' = trouble PROVE IInv'
<1>1. /\ Types /\ FileInv /\ Memory /\ phase = "running" /\ rolling = t /\ sess[t] = "commit"
      /\ durable' = Len(file)
      /\ last'    = [last EXCEPT ![t] = lastOf[t]]
      /\ status'  = [status EXCEPT ![t] = "committed"]
      /\ rolling' = 0
      /\ sess'    = [sess EXCEPT ![t] = "none"]
      /\ acked'   = acked \cup {t}
      /\ UNCHANGED <<file, torn, lastOf, nextId, toUndo, phase>>
  BY DEF IInv, CommitForce
<1>2. Object(t)
  BY <1>1 DEF Memory, Active, Sessions
<1>3. Len(file) \in Nat /\ DOMAIN file = 1..Len(file) /\ durable \in 0..Len(file)
  BY <1>1, LenProperties DEF Types
<1>4. LogOK(file', trouble')
  BY <1>1 DEF FileInv
<1>5. BeginForced'
  BY <1>1, <1>3 DEF BeginForced
<1>6. AckedFile'
  <2>1. SUFFICES ASSUME NEW a \in acked'
                 PROVE  \E i \in 1..Len(file) :
                          /\ file[i].txn = a /\ file[i].type = "COMMIT"
                          /\ \A j \in (i + 1)..Len(file) : file[j].txn # a
    BY <1>1 DEF AckedFile
  <2>2. CASE a = t
    BY <1>1, <1>2, <1>3, <2>2, Len(file) \in 1..Len(file) DEF Object
  <2>3. CASE a \in acked
    <3>1. PICK i \in 1..durable : /\ file[i].txn = a /\ file[i].type = "COMMIT"
                                  /\ \A j \in (i + 1)..Len(file) : file[j].txn # a
      BY <1>1, <2>3 DEF FileInv, AckedFile
    <3> QED BY <1>3, <3>1, i \in 1..Len(file)
  <2> QED BY <1>1, <2>2, <2>3
<1>7. Types'
  <2>1. lastOf[t] \in Nat
    BY <1>1 DEF Types, Id
  <2>2. last' \in [Id -> Nat] /\ status' \in [Id -> Status] /\ sess' \in [Id -> Sess]
    BY <1>1, <2>1 DEF Types, Status, Sess
  <2>3. rolling' \in 0..MaxTxn /\ acked' \subseteq Id /\ durable' \in 0..Len(file')
    BY <1>1, <1>3, LogAssumption DEF Types
  <2> QED BY <1>1, <2>2, <2>3 DEF Types
<1>8. /\ status'[t] = "committed" /\ sess'[t] = "none"
      /\ \A u \in Id \ {t} : status'[u] = status[u] /\ sess'[u] = sess[u] /\ last'[u] = last[u]
  BY <1>1 DEF Types
<1>9. Sessions'
  BY <1>1, <1>8 DEF Memory, Sessions
<1>10. ASSUME NEW u \in Active' PROVE Object(u)'
  <2>1. u \in Id /\ u # t /\ u \in Active
    BY <1>8 DEF Active
  <2> QED BY <1>1, <1>8, <2>1, ObjectStays DEF Memory, Id
<1>11. \A u \in acked' : status'[u] = "committed"
  BY <1>1, <1>8 DEF Memory, Types
<1>12. Memory'
  BY <1>1, <1>9, <1>10, <1>11 DEF Memory, Chains, IdsBelow
<1> QED BY <1>4, <1>5, <1>6, <1>7, <1>12 DEF IInv, FileInv

LEMMA StepCommitFails ==
  ASSUME IInv, NEW t \in Id, CommitFails(t), trouble' = trouble PROVE IInv'
<1>1. /\ Types /\ FileInv /\ Memory /\ phase = "running" /\ rolling = t /\ sess[t] = "commit"
      /\ trouble = "disk" /\ rolling' = 0 /\ sess' = [sess EXCEPT ![t] = "retry"]
      /\ UNCHANGED <<file, durable, torn, lastOf, nextId, status, last, toUndo, phase, acked>>
  BY DEF IInv, CommitFails
<1>2. Object(t) /\ status[t] = "active"
  BY <1>1 DEF Memory, Active, Sessions
<1>3. sess'[t] = "retry" /\ \A u \in Id \ {t} : sess'[u] = sess[u]
  BY <1>1 DEF Types
<1>4. Object(t)'
  <2>1. Has(file, t, "COMMIT")
    BY <1>1, <1>2, LenProperties DEF Object, Has, Types
  <2> QED BY <1>1, <1>2, <1>3, <2>1 DEF Object, Sheltered, Undone, Id
<1>5. ASSUME NEW u \in Active' PROVE Object(u)'
  <2>1. u \in Id /\ u \in Active
    BY <1>1 DEF Active
  <2> QED BY <1>1, <1>3, <1>4, <2>1, ObjectStays DEF Memory, Id
<1>6. Sessions'
  BY <1>1, <1>2, <1>3 DEF Memory, Sessions
<1>7. Memory'
  BY <1>1, <1>5, <1>6 DEF Memory, Chains, IdsBelow
<1>8. Types'
  <2>1. sess' \in [Id -> Sess]
    BY <1>1 DEF Types, Sess
  <2> QED BY <1>1, <2>1, LogAssumption DEF Types
<1> QED BY <1>1, <1>7, <1>8 DEF IInv, FileInv, BeginForced, AckedFile

\* rollback reads the whole log: it has collected every UPDATE there is.
LEMMA StepCollect ==
  ASSUME IInv, NEW t \in Id, NEW how \in {"rollback", "abort"}, Collect(t, how),
         trouble' = trouble
  PROVE  IInv'
<1>1. /\ phase # "down" /\ status[t] = "active" /\ rolling = 0
      /\ sess[t] \in {"none", "open"} \/ how = "abort"
      /\ toUndo' = [toUndo EXCEPT ![t] = LsnsOf(file, t, {"UPDATE"})]
      /\ sess'   = [sess EXCEPT ![t] = how]
      /\ UNCHANGED <<file, durable, torn, lastOf, nextId, status, last, rolling, phase, acked>>
  BY DEF Collect, Active
<1>2. Types /\ FileInv /\ Memory /\ Object(t)
  BY <1>1 DEF IInv, Memory, Active
<1>3. /\ sess'[t] = how /\ toUndo'[t] = LsnsOf(file, t, {"UPDATE"})
      /\ \A u \in Id \ {t} : sess'[u] = sess[u] /\ toUndo'[u] = toUndo[u]
  BY <1>1, <1>2 DEF Types
<1>4. Object(t)'
  <2>1. rolling' # t /\ rolling # t
    BY <1>1 DEF Id
  <2>2. sess[t] # "commit"
    BY <1>1, <1>2, <2>1 DEF Memory, Sessions
  <2> QED BY <1>1, <1>2, <1>3, <2>1, <2>2 DEF Object, Sheltered, Undone
<1>5. ASSUME NEW u \in Active' PROVE Object(u)'
  <2>1. u \in Id /\ u \in Active
    BY <1>1 DEF Active
  <2> QED BY <1>1, <1>2, <1>3, <1>4, <2>1, ObjectStays DEF Memory
<1>6. Sessions'
  BY <1>1, <1>2, <1>3 DEF Memory, Sessions
<1>7. Memory'
  BY <1>1, <1>2, <1>5, <1>6 DEF Memory, Chains, IdsBelow
<1>8. Types'
  <2>1. sess' \in [Id -> Sess]
    BY <1>1, <1>2 DEF Types, Sess
  <2>2. LsnsOf(file, t, {"UPDATE"}) \in SUBSET Nat
    BY <1>2, LenProperties DEF Types, LsnsOf
  <2>3. toUndo' \in [Id -> SUBSET Nat]
    BY <1>1, <1>2, <2>2 DEF Types
  <2> QED BY <1>1, <1>2, <2>1, <2>3 DEF Types
<1> QED BY <1>1, <1>2, <1>7, <1>8 DEF IInv, FileInv, BeginForced, AckedFile

\* append accepts the last_lsn of the object only while the chain agrees with
\* it: an ABORT never follows the COMMIT of a sheltered transaction.
LEMMA NoCommitBefore ==
  ASSUME IInv, phase # "down", NEW t \in Id, status[t] = "active", sess[t] # "commit",
         Accepts(t, last[t]), Sheltered(t)
  PROVE  ~ Has(file, t, "COMMIT")
<1>1. SUFFICES ASSUME Has(file, t, "COMMIT") PROVE FALSE
  OBVIOUS
<1>2. Types /\ LogOK(file, trouble) /\ Object(t)
  BY DEF IInv, FileInv, Memory, Active
<1>3. last[t] < lastOf[t] /\ trouble = "disk"
  BY <1>1, <1>2 DEF Object
<1>4. last[t] = 0
  BY <1>2, <1>3 DEF Accepts, Types, Id
<1>5. Len(file) \in Nat /\ file[1].txn = t
  BY <1>2, <1>4, LenProperties DEF Object, LsnsOf, Types
<1> QED BY <1>3, <1>5 DEF Sheltered

LEMMA StepWriteAbort ==
  ASSUME IInv, NEW t \in Id, WriteAbort(t), trouble' = trouble PROVE IInv'
<1>1. /\ phase # "down" /\ rolling = 0 /\ sess[t] \in {"rollback", "abort"}
      /\ status[t] = "active" /\ Append1("ABORT", t, last[t], 0) /\ Forced
      /\ last' = [last EXCEPT ![t] = Len(Base)]
      /\ rolling' = t
      /\ UNCHANGED <<nextId, status, toUndo, sess, phase, acked>>
  BY DEF WriteAbort, Active
<1>2. Types /\ FileInv /\ Memory /\ Object(t)
  BY <1>1 DEF IInv, Memory, Active
<1>3. Grown("ABORT", t, 0)
  BY <1>1, <1>2, AppendStep DEF Type, Id
<1>4. /\ \A y \in Type : Has(file', t, y) <=> Has(file, t, y) \/ y = "ABORT"
      /\ Len(Base) \in Nat /\ Len(Base) \in LsnsOf(file', t, Type) /\ lastOf'[t] = Len(Base)
      /\ LsnsOf(file', t, {"UPDATE"}) = LsnsOf(file, t, {"UPDATE"})
  BY <1>2, <1>3, OwnRecords DEF Type
<1>5. /\ last' \in [Id -> Nat] /\ last'[t] = Len(Base)
      /\ \A u \in Id \ {t} : last'[u] = last[u]
  BY <1>1, <1>2, <1>4 DEF Types
<1>6. Sheltered(t) => ~ Has(file, t, "COMMIT")
  BY <1>1, NoCommitBefore DEF Append1
<1>7. Sessions'
  BY <1>1, <1>2 DEF Memory, Sessions, Id
<1>8. Descending(t)'
  <2>1. /\ file'[Len(file')].type = "ABORT" /\ file'[Len(file')].txn = t
        /\ Len(file') \in Nat /\ DOMAIN file' = 1..Len(file')
    BY <1>3 DEF Grown
  <2>2. ASSUME NEW i \in DOMAIN file', file'[i].type = "CLR" PROVE Len(file') \in (i + 1)..Len(file')
    BY <2>1, <2>2
  <2> QED BY <2>1, <2>2 DEF Descending
<1>9. Undone(t) \subseteq Undone(t)'
  BY <1>3, UndoneAfter
<1>10. Has(file, t, "COMMIT") /\ Sheltered(t)' => Sheltered(t)
  BY <1>3, ShelteredAfter
<1>11. Object(t)'
  BY <1>1, <1>2, <1>4, <1>5, <1>6, <1>8, <1>9, <1>10 DEF Object, Type
<1> QED BY <1>1, <1>2, <1>5, <1>6, <1>7, <1>11, ActorStep DEF Type, Types

\* The newest of the collected changes is undone: those that remain are older.
LEMMA StepUndoNext ==
  ASSUME IInv, NEW t \in Id, UndoNext(t), trouble' = trouble PROVE IInv'
<1> DEFINE u == Latest(toUndo[t])
<1>1. /\ phase # "down" /\ rolling = t /\ sess[t] # "commit" /\ toUndo[t] # {}
      /\ Append1("CLR", t, last[t], u) /\ Unforced
      /\ last'   = [last EXCEPT ![t] = Len(Base)]
      /\ toUndo' = [toUndo EXCEPT ![t] = @ \ {u}]
      /\ UNCHANGED <<nextId, status, rolling, sess, phase, acked>>
  BY DEF UndoNext
<1>2. /\ Types /\ FileInv /\ Memory /\ status[t] = "active" /\ Object(t)
      /\ sess[t] \in {"rollback", "abort"} /\ rolling # 0
  BY <1>1 DEF IInv, Memory, Active, Sessions, Id
<1>3. u \in toUndo[t] /\ \A x \in toUndo[t] : x <= u
  <2>1. toUndo[t] \subseteq LsnsOf(file, t, {"UPDATE"}) /\ Len(file) \in Nat
    BY <1>2, LenProperties DEF Object, Types
  <2>2. toUndo[t] \subseteq 0..Len(file)
    BY <2>1 DEF LsnsOf
  <2> QED BY <1>1, <2>1, <2>2, LatestGreatest
<1>4. toUndo[t] \in SUBSET Nat /\ u \in Nat
  BY <1>2, <1>3 DEF Types
<1> HIDE DEF u
<1>5. Grown("CLR", t, u)
  BY <1>1, <1>2, <1>4, AppendStep DEF Type, Id
<1>6. /\ \A y \in Type : Has(file', t, y) <=> Has(file, t, y) \/ y = "CLR"
      /\ Len(Base) \in Nat /\ Len(Base) \in LsnsOf(file', t, Type) /\ lastOf'[t] = Len(Base)
      /\ LsnsOf(file', t, {"UPDATE"}) = LsnsOf(file, t, {"UPDATE"})
  BY <1>2, <1>5, OwnRecords DEF Type
<1>7. /\ last' \in [Id -> Nat] /\ last'[t] = Len(Base) /\ toUndo'[t] = toUndo[t] \ {u}
      /\ toUndo' \in [Id -> SUBSET Nat]
      /\ \A x \in Id \ {t} : last'[x] = last[x] /\ toUndo'[x] = toUndo[x]
  BY <1>1, <1>2, <1>4, <1>6 DEF Types
<1>8. /\ Has(file, t, "ABORT") /\ Descending(t)
      /\ Sheltered(t) => ~ Has(file, t, "COMMIT")
  BY <1>1, <1>2 DEF Object
<1>9. Descending(t)'
  <2>1. SUFFICES ASSUME NEW i \in DOMAIN file', file'[i].txn = t, file'[i].type = "CLR",
                        \A k \in (i + 1)..Len(file') : file'[k].txn = t => file'[k].type # "ABORT",
                        NEW x \in toUndo'[t]
                 PROVE  x < file'[i].undoes
    BY DEF Descending
  <2>2. x \in Nat /\ x <= u /\ x # u /\ x \in toUndo[t]
    BY <1>3, <1>4, <1>7, <2>1
  <2> DEFINE b == Len(Readable(file))
  <2>3. /\ b \in Nat /\ b <= Len(file) /\ Len(file) \in Nat /\ DOMAIN file = 1..Len(file)
        /\ Len(file') = b + 1 /\ DOMAIN file' = 1..(b + 1) /\ file'[b + 1].undoes = u
        /\ \A k \in 1..b : file'[k] = file[k]
        /\ \A k \in (b + 1)..Len(file) : file[k].txn # t
    BY <1>5 DEF Grown, Id
  <2> HIDE DEF b
  <2>4. CASE i = b + 1
    BY <1>4, <2>2, <2>3, <2>4
  <2>5. CASE i \in 1..b
    <3>1. file'[i] = file[i] /\ i \in DOMAIN file
      BY <2>3, <2>5
    <3>2. \A k \in (i + 1)..Len(file) : file[k].txn = t => file[k].type # "ABORT"
      <4>1. ASSUME NEW k \in (i + 1)..Len(file), file[k].txn = t PROVE file[k].type # "ABORT"
        <5>1. k \in 1..b
          BY <2>3, <2>5, <4>1
        <5>2. k \in (i + 1)..Len(file') /\ file'[k] = file[k]
          BY <2>3, <2>5, <5>1
        <5> QED BY <2>1, <4>1, <5>2
      <4> QED BY <4>1
    <3> QED BY <1>8, <2>1, <2>2, <3>1, <3>2 DEF Descending
  <2> QED BY <2>3, <2>4, <2>5
<1>10. Undone(t) \subseteq Undone(t)' /\ u \in Undone(t)'
  BY <1>5, UndoneAfter
<1>11. Has(file, t, "COMMIT") /\ Sheltered(t)' => Sheltered(t)
  BY <1>5, ShelteredAfter
<1>12. Sessions'
  BY <1>1, <1>2 DEF Memory, Sessions
<1>13. Object(t)'
  BY <1>1, <1>2, <1>6, <1>7, <1>8, <1>9, <1>10, <1>11 DEF Object, Type
<1>14. \A i \in DOMAIN file :
         /\ file[i].txn = t /\ file[i].type = "CLR"
         /\ \A k \in (i + 1)..Len(file) : file[k].txn = t => file[k].type # "ABORT"
         => u < file[i].undoes
  BY <1>3, <1>8 DEF Descending
<1>15. sess' \in [Id -> Sess] /\ rolling \in {0, t} /\ rolling' \in {0, t}
  BY <1>1, <1>2 DEF Types
<1> QED BY <1>1, <1>2, <1>4, <1>7, <1>8, <1>12, <1>13, <1>14, <1>15, ActorStep DEF Type

LEMMA StepRollbackEnd ==
  ASSUME IInv, NEW t \in Id, RollbackEnd(t), trouble' = trouble PROVE IInv'
<1>1. /\ phase # "down" /\ rolling = t /\ sess[t] # "commit"
      /\ durable' = Len(file)
      /\ status' = [status EXCEPT ![t] = "aborted"]
      /\ rolling' = 0 /\ sess' = [sess EXCEPT ![t] = "none"]
      /\ UNCHANGED <<file, torn, lastOf, nextId, last, toUndo, phase, acked>>
  BY DEF RollbackEnd
<1>2. /\ Types /\ FileInv /\ Memory
      /\ Len(file) \in Nat /\ DOMAIN file = 1..Len(file) /\ durable \in 0..Len(file)
  BY <1>1, LenProperties DEF IInv, Types
<1>3. /\ status'[t] = "aborted" /\ sess'[t] = "none"
      /\ \A u \in Id \ {t} : status'[u] = status[u] /\ sess'[u] = sess[u]
  BY <1>1, <1>2 DEF Types
<1>4. status[t] = "active" /\ t \notin acked
  BY <1>1, <1>2 DEF Memory, Sessions, Id
<1>5. FileInv'
  <2>1. \A i \in 1..durable : i \in 1..Len(file)
    BY <1>2
  <2> QED BY <1>1, <1>2, <2>1 DEF FileInv, BeginForced, AckedFile
<1>6. Types'
  <2>1. status' \in [Id -> Status] /\ sess' \in [Id -> Sess]
    BY <1>1, <1>2 DEF Types, Status, Sess
  <2>2. rolling' \in 0..MaxTxn /\ durable' \in 0..Len(file')
    BY <1>1, <1>2, LogAssumption
  <2> QED BY <1>1, <1>2, <2>1, <2>2 DEF Types
<1>7. ASSUME NEW u \in Active' PROVE Object(u)'
  <2>1. u \in Id /\ u # t /\ u \in Active
    BY <1>3 DEF Active
  <2> QED BY <1>1, <1>2, <1>3, <2>1, ObjectStays DEF Memory, Id
<1>8. Sessions'
  BY <1>1, <1>2, <1>3 DEF Memory, Sessions
<1>9. \A u \in acked' : status'[u] = "committed"
  BY <1>1, <1>2, <1>3, <1>4 DEF Memory, Types
<1>10. Memory'
  BY <1>1, <1>2, <1>7, <1>8, <1>9 DEF Memory, Chains, IdsBelow
<1> QED BY <1>5, <1>6, <1>10 DEF IInv

\* A rollback that raises leaves the transaction active, and everything that is
\* known of it: another ABORT will start its undo again.
LEMMA StepRollbackFails ==
  ASSUME IInv, NEW t \in Id, RollbackFails(t), trouble' = trouble PROVE IInv'
<1>1. /\ phase # "down" /\ sess[t] \in {"rollback", "abort"}
      /\ rolling = 0 \/ rolling = t
      /\ rolling' = 0
      /\ toUndo'  = [toUndo EXCEPT ![t] = {}]
      /\ sess'    = [sess EXCEPT ![t] = IF @ = "rollback" THEN "retry" ELSE "left"]
      /\ phase'   = IF phase = "running" THEN phase ELSE "down"
      /\ UNCHANGED <<file, durable, torn, lastOf, nextId, status, last, acked>>
  BY DEF RollbackFails
<1>2. Types /\ FileInv /\ Memory
  BY <1>1 DEF IInv
<1>3. status[t] = "active" /\ Object(t)
  BY <1>1, <1>2 DEF Memory, Sessions, Active
<1>4. /\ sess'[t] = (IF sess[t] = "rollback" THEN "retry" ELSE "left") /\ toUndo'[t] = {}
      /\ \A u \in Id \ {t} : toUndo'[u] = toUndo[u] /\ sess'[u] = sess[u]
  BY <1>1, <1>2 DEF Types
<1>5. Object(t)'
  BY <1>1, <1>3, <1>4 DEF Object, Sheltered, Id
<1>6. ASSUME NEW u \in Active' PROVE Object(u)'
  <2>1. u \in Id /\ u \in Active
    BY <1>1 DEF Active
  <2> QED BY <1>1, <1>2, <1>4, <1>5, <2>1, ObjectStays DEF Memory, Id
<1>7. phase' # "down" => Sessions'
  BY <1>1, <1>2, <1>3, <1>4 DEF Memory, Sessions
<1>8. phase' # "down" => Memory'
  BY <1>1, <1>2, <1>6, <1>7 DEF Memory, Chains, IdsBelow
<1>9. Types'
  <2>1. sess' \in [Id -> Sess] /\ toUndo' \in [Id -> SUBSET Nat] /\ phase' \in Phase
    BY <1>1, <1>2 DEF Types, Sess, Phase
  <2> QED BY <1>1, <1>2, <2>1, LogAssumption DEF Types
<1> QED BY <1>1, <1>2, <1>8, <1>9 DEF IInv, FileInv, BeginForced, AckedFile

LEMMA StepForceLog ==
  ASSUME IInv, ForceLog, trouble' = trouble PROVE IInv'
<1>1. /\ phase = "running" /\ durable' = Len(file)
      /\ UNCHANGED <<file, mem, phase, acked>>
  BY DEF ForceLog
<1>2. /\ Types /\ FileInv /\ Memory
      /\ Len(file) \in Nat /\ DOMAIN file = 1..Len(file) /\ durable \in 0..Len(file)
  BY <1>1, LenProperties DEF IInv, Types
<1>3. FileInv'
  <2>1. \A i \in 1..durable : i \in 1..Len(file)
    BY <1>2
  <2> QED BY <1>1, <1>2, <2>1 DEF FileInv, BeginForced, AckedFile
<1>4. Types'
  BY <1>1, <1>2 DEF Types, mem
<1>5. Memory'
  <2>1. ASSUME NEW u \in Active' PROVE Object(u)'
    <3>1. u \in Id /\ u \in Active
      BY <1>1 DEF Active, mem
    <3> QED BY <1>1, <1>2, <3>1, ObjectStays DEF Memory, mem
  <2> QED BY <1>1, <1>2, <2>1 DEF Memory, Chains, IdsBelow, Sessions, mem
<1> QED BY <1>3, <1>4, <1>5 DEF IInv

\* Recovery ends, or a shutdown begins: nothing but the phase changes.
LEMMA StepPhase ==
  ASSUME IInv, RecoverEnd \/ CloseStart, trouble' = trouble PROVE IInv'
<1>1. /\ phase # "down" /\ phase' \in {"running", "closing"}
      /\ (phase = "recovering" /\ Active = {}) \/ rolling = 0
      /\ UNCHANGED <<file, durable, mem, acked>>
  BY DEF RecoverEnd, CloseStart
<1>2. Types /\ FileInv /\ Memory
  BY <1>1 DEF IInv
<1>3. ASSUME NEW u \in Active' PROVE Object(u)'
  <2>1. u \in Id /\ u \in Active
    BY <1>1 DEF Active, mem
  <2> QED BY <1>1, <1>2, <2>1, ObjectStays DEF Memory, mem
<1>4. Sessions'
  <2>1. \A t \in Id : sess[t] # "commit"
    BY <1>1, <1>2 DEF Memory, Sessions, Id, Active
  <2> QED BY <1>1, <1>2, <2>1 DEF Memory, Sessions, mem
<1>5. Memory'
  BY <1>1, <1>2, <1>3, <1>4 DEF Memory, Chains, IdsBelow, mem
<1> QED BY <1>1, <1>2, <1>5 DEF IInv, FileInv, BeginForced, AckedFile, Types, Phase, mem

LEMMA StepCloseEnd ==
  ASSUME IInv, CloseEnd, trouble' = trouble PROVE IInv'
<1>1. /\ phase = "closing" /\ Active = {}
      /\ Append1("CHECKPOINT", 0, 0, 0) /\ Forced /\ phase' = "down"
      /\ UNCHANGED <<nextId, status, last, rolling, toUndo, sess, acked>>
  BY DEF CloseEnd
<1>2. Types /\ FileInv /\ Memory /\ 0 \in 0..MaxTxn /\ 0 \notin acked
  BY <1>1, LogAssumption DEF IInv, Types, Id
<1>3. Grown("CHECKPOINT", 0, 0)
  BY <1>1, <1>2, AppendStep DEF Type
<1>4. LogOK(file', trouble')
  BY <1>2, <1>3, LogAfter DEF Type
<1>5. durable' \in 0..Len(file') /\ BeginForced' /\ AckedFile'
  BY <1>1, <1>2, <1>3, DurableAfter DEF Type
<1>6. Types'
  BY <1>1, <1>2, <1>3, <1>5, TypesAfter DEF Types, Phase
<1> QED BY <1>1, <1>4, <1>5, <1>6 DEF IInv, FileInv

\* A crash keeps a beginning of the log: everything forced is still there.
LEMMA StepCrash ==
  ASSUME IInv, Crash, trouble' = trouble PROVE IInv'
<1>1. phase' = "down" /\ durable' = Len(file') /\ UNCHANGED <<mem, acked>>
  BY DEF Crash
<1>2. PICK n \in durable..Len(file) :
         \/ file' = SubSeq(file, 1, n)
         \/ /\ Readable(SubSeq(file, 1, n)) = SubSeq(file, 1, n)
            /\ file' = Append(SubSeq(file, 1, n), Fragment)
  BY DEF Crash
<1>3. Types /\ FileInv /\ Len(file) \in Nat /\ durable \in 0..Len(file) /\ n \in 0..Len(file)
  BY LenProperties DEF IInv, Types
<1> DEFINE k == SubSeq(file, 1, n)
<1>4. LogOK(k, trouble) /\ k \in Seq(Record) /\ Len(k) = n /\ \A i \in 1..n : k[i] = file[i]
  BY <1>3, PrefixOK, PrefixOf DEF FileInv, LogOK
<1>5. LogOK(file', trouble')
  BY <1>2, <1>4, FragmentOK
<1>6. /\ file' \in Seq(Record) /\ Len(file') \in Nat /\ DOMAIN file' = 1..Len(file')
      /\ n <= Len(file') /\ \A i \in 1..n : file'[i] = file[i]
      /\ \A i \in (n + 1)..Len(file') : file'[i].txn = 0
  <2>1. CASE file' = k
    BY <1>3, <1>4, <2>1, LenProperties
  <2>2. CASE file' = Append(k, Fragment)
    <3>1. Fragment \in Record /\ Fragment.txn = 0
      BY LogAssumption DEF Fragment, Record, Type
    <3>2. /\ file' \in Seq(Record) /\ Len(file') = n + 1 /\ file'[n + 1] = Fragment
          /\ \A i \in 1..n : file'[i] = k[i]
      BY <1>4, <2>2, <3>1, AppendProperties
    <3> QED BY <1>3, <1>4, <3>1, <3>2, LenProperties
  <2> QED BY <1>2, <2>1, <2>2
<1>7. BeginForced'
  BY <1>1, <1>6 DEF BeginForced
<1>8. AckedFile'
  <2>1. SUFFICES ASSUME NEW a \in acked
                 PROVE  \E i \in 1..Len(file') :
                          /\ file'[i].txn = a /\ file'[i].type = "COMMIT"
                          /\ \A j \in (i + 1)..Len(file') : file'[j].txn # a
    BY <1>1 DEF AckedFile
  <2>2. PICK i \in 1..durable : /\ file[i].txn = a /\ file[i].type = "COMMIT"
                                /\ \A j \in (i + 1)..Len(file) : file[j].txn # a
    BY <1>3 DEF FileInv, AckedFile
  <2>3. i \in 1..n /\ i \in 1..Len(file') /\ file'[i] = file[i] /\ a # 0
    BY <1>3, <1>6, <2>2 DEF Types, Id
  <2>4. \A j \in (i + 1)..Len(file') : file'[j].txn # a
    <3>1. ASSUME NEW j \in (i + 1)..Len(file') PROVE file'[j].txn # a
      <4>1. CASE j \in (i + 1)..n
        <5>1. j \in 1..n /\ j \in (i + 1)..Len(file)
          BY <1>3, <2>3, <4>1
        <5> QED BY <1>6, <2>2, <5>1
      <4>2. CASE j \in (n + 1)..Len(file')
        BY <1>6, <2>3, <4>2
      <4> QED BY <1>3, <1>6, <2>3, <4>1, <4>2
    <3> QED BY <3>1
  <2> QED BY <2>2, <2>3, <2>4
<1>9. Types'
  BY <1>1, <1>3, <1>6 DEF Types, mem, Phase
<1> QED BY <1>1, <1>5, <1>7, <1>8, <1>9 DEF IInv, FileInv

\* A start derives from the log everything that is known while the process runs.
LEMMA StepOpen ==
  ASSUME IInv, Open, trouble' = trouble PROVE IInv'
<1> DEFINE f == Readable(file)
<1>1. /\ torn'   = (f # file)
      /\ lastOf' = [t \in 0..MaxTxn |-> ChainLast(f, t)]
      /\ status' = [t \in Id |-> Loaded(f, t)]
      /\ last'   = [t \in Id |-> ObjectLast(f, t)]
      /\ nextId' = NextId(f)
      /\ rolling' = 0
      /\ toUndo' = [t \in Id |-> {}]
      /\ sess'   = [t \in Id |-> "none"]
      /\ phase'  = "recovering"
      /\ UNCHANGED <<file, durable, acked>>
  BY DEF Open
<1>2. Types /\ FileInv /\ file \in Seq(Record) /\ TornLast(file)
  BY DEF IInv, FileInv, LogOK
<1>3. /\ f \in Seq(Record) /\ Len(f) \in Nat /\ DOMAIN f = 1..Len(f)
      /\ Len(file) \in Nat /\ DOMAIN file = 1..Len(file) /\ Len(f) <= Len(file)
      /\ \A i \in 1..Len(f) : f[i] = file[i]
      /\ \A i \in (Len(f) + 1)..Len(file) : file[i].type = "TORN"
  BY <1>2, ReadableOf, LenProperties
<1>4. \A i \in (Len(f) + 1)..Len(file) : file[i].txn = 0
  BY <1>2, <1>3 DEF FileInv, LogOK, Owned
<1>5. \A i \in 1..Len(file) : file[i].txn \in 0..MaxTxn /\ file[i].type \in Type
  <2>1. \A i \in 1..Len(file) : file[i] \in Record
    BY <1>2, ElementOfSeq
  <2> QED BY <2>1 DEF Record
<1> HIDE DEF f
<1>6. Seen(f) \cup {0} \subseteq 0..MaxTxn
  BY <1>3, <1>5, LogAssumption DEF Seen
<1>7. /\ nextId' \in 1..(MaxTxn + 1)
      /\ \A t \in Seen(f) \cup {0} : t < nextId'
  <2>1. /\ Latest(Seen(f) \cup {0}) \in 0..MaxTxn
        /\ \A t \in Seen(f) \cup {0} : t <= Latest(Seen(f) \cup {0})
    BY <1>6, LatestGreatest, LogAssumption
  <2> DEFINE m == Latest(Seen(f) \cup {0})
  <2>2. nextId' = m + 1
    BY <1>1 DEF NextId
  <2> HIDE DEF m
  <2>3. m \in 0..MaxTxn /\ \A t \in Seen(f) \cup {0} : t \in Int /\ t <= m
    BY <1>6, <2>1 DEF m
  <2> QED BY <2>2, <2>3, LogAssumption
<1>8. Types'
  <2>1. lastOf' \in [0..MaxTxn -> Nat] /\ last' \in [Id -> Nat]
    BY <1>1, <1>3, LatestType DEF ChainLast, ObjectLast
  <2>2. status' \in [Id -> Status]
    BY <1>1, LoadedType
  <2>3. /\ torn' \in BOOLEAN /\ rolling' \in 0..MaxTxn /\ toUndo' \in [Id -> SUBSET Nat]
        /\ sess' \in [Id -> Sess] /\ phase' \in Phase
    BY <1>1, LogAssumption DEF Sess, Phase
  <2> QED BY <1>1, <1>2, <1>7, <2>1, <2>2, <2>3 DEF Types
<1>9. IdsBelow'
  <2>1. SUFFICES ASSUME NEW i \in 1..Len(file) PROVE file[i].txn < nextId'
    BY <1>1, <1>3 DEF IdsBelow
  <2>2. CASE file[i].txn = 0
    BY <1>7, <2>2
  <2>3. CASE file[i].txn # 0
    <3>1. i \in 1..Len(f) /\ f[i] = file[i] /\ f[i].type \notin {"CHECKPOINT", "TORN"}
      BY <1>2, <1>3, <1>4, <2>3 DEF FileInv, LogOK, Owned
    <3>2. CASE f[i].type # "CLR"
      <4>1. f[i].txn \in Seen(f)
        BY <1>3, <3>1, <3>2 DEF Seen, Skipped
      <4> QED BY <1>7, <3>1, <4>1
    <3>3. CASE f[i].type = "CLR"
      <4>1. PICK j \in 1..(i - 1) : file[j].txn = file[i].txn /\ file[j].type = "ABORT"
        BY <1>2, <1>3, <3>1, <3>3 DEF FileInv, LogOK, Aborting
      <4>2. j \in 1..Len(f) /\ f[j] = file[j]
        BY <1>3, <3>1, <4>1
      <4>3. f[j].txn \in Seen(f)
        BY <1>3, <4>1, <4>2 DEF Seen, Skipped
      <4> QED BY <1>7, <4>1, <4>2, <4>3
    <3> QED BY <3>2, <3>3
  <2> QED BY <2>2, <2>3
<1>10. ASSUME NEW t \in Active' PROVE Object(t)'
  <2>1. t \in Id /\ t # 0 /\ t \in 0..MaxTxn /\ Loaded(f, t) = "active"
    BY <1>1 DEF Active, Id
  <2>2. LsnsOf(f, t, Outcomes) = {} /\ t \in Seen(f)
    BY <2>1, LoadedType
  <2>3. \A i \in 1..Len(f) : f[i].txn = t => f[i].type \notin Outcomes
    <3>1. \A i \in 1..Len(f) : f[i].txn = t /\ f[i].type \in Outcomes => i - 1 \in LsnsOf(f, t, Outcomes)
      BY <1>3 DEF LsnsOf
    <3> QED BY <2>2, <3>1
  <2>4. \A i \in 1..Len(f) : f[i].txn = t => f[i].type \notin Skipped
    <3>1. SUFFICES ASSUME NEW i \in 1..Len(f), f[i].txn = t, f[i].type = "CLR" PROVE FALSE
      BY <1>2, <1>3, <2>1 DEF Skipped, FileInv, LogOK, Owned
    <3>2. PICK j \in 1..(i - 1) : file[j].txn = file[i].txn /\ file[j].type = "ABORT"
      BY <1>2, <1>3, <3>1 DEF FileInv, LogOK, Aborting
    <3>3. j \in 1..Len(f) /\ f[j].txn = t /\ f[j].type = "ABORT"
      BY <1>3, <3>1, <3>2
    <3> QED BY <2>3, <3>3 DEF Outcomes
  <2>5. LsnsOf(f, t, Type \ Skipped) = LsnsOf(f, t, Type) /\ LsnsOf(f, t, Type) # {}
    <3>1. \A i \in 0..(Len(f) - 1) : i + 1 \in 1..Len(f)
      BY <1>3
    <3>2. LsnsOf(f, t, Type \ Skipped) = LsnsOf(f, t, Type)
      BY <2>4, <3>1 DEF LsnsOf
    <3>3. PICK i \in 1..Len(f) : f[i].txn = t
      BY <1>3, <2>2 DEF Seen
    <3>4. i - 1 \in LsnsOf(f, t, Type)
      BY <1>3, <1>5, <3>3 DEF LsnsOf
    <3> QED BY <3>2, <3>4
  <2>6. last'[t] = lastOf'[t] /\ last'[t] \in LsnsOf(f, t, Type)
    BY <1>1, <1>3, <2>1, <2>5, LatestType DEF ChainLast, ObjectLast
  <2>7. last'[t] \in LsnsOf(file, t, Type)
    BY <1>3, <2>6 DEF LsnsOf
  <2>8. ~ Has(file, t, "COMMIT") /\ ~ Has(file, t, "ABORT")
    <3>1. \A i \in 1..Len(file) : file[i].txn = t => i \in 1..Len(f)
      BY <1>3, <1>4, <2>1
    <3> QED BY <1>3, <2>3, <3>1 DEF Has, Outcomes
  <2>9. sess'[t] = "none" /\ rolling' # t
    BY <1>1, <2>1
  <2> QED BY <1>1, <2>6, <2>7, <2>8, <2>9 DEF Object
<1>11. ASSUME NEW a \in acked' PROVE status'[a] = "committed"
  <2>1. PICK i \in 1..durable : /\ file[i].txn = a /\ file[i].type = "COMMIT"
                                /\ \A j \in (i + 1)..Len(file) : file[j].txn # a
    BY <1>1, <1>2, <1>11 DEF FileInv, AckedFile
  <2>2. durable \in 0..Len(file) /\ a \in Id
    BY <1>1, <1>2, <1>11 DEF Types
  <2>3. i \in 1..Len(f) /\ f[i] = file[i]
    BY <1>3, <2>1, <2>2
  <2>4. \A j \in (i + 1)..Len(f) : f[j].txn # a
    BY <1>3, <2>1, <2>3
  <2> QED BY <1>1, <1>3, <2>1, <2>2, <2>3, <2>4, LoadedCommitted
<1>12. Sessions'
  BY <1>1 DEF Sessions, Id
<1>13. Memory'
  BY <1>1, <1>9, <1>10, <1>11, <1>12 DEF Memory, Chains, f
<1> QED BY <1>1, <1>2, <1>8, <1>13 DEF IInv, FileInv, BeginForced, AckedFile

-----------------------------------------------------------------------------
(* The invariant holds.                                                    *)

LEMMA InitIInv == Init => IInv
<1>1. SUFFICES ASSUME Init PROVE IInv
  OBVIOUS
<1>2. file = <<>> /\ file \in Seq(Record) /\ Len(file) = 0 /\ DOMAIN file = 1..0
  BY <1>1, EmptySeq, LenProperties DEF Init
<1>3. TornLast(file) /\ Readable(file) = file
  <2>1. TornLast(file) /\ \A i \in DOMAIN file : file[i].type # "TORN"
    BY <1>2 DEF TornLast
  <2> QED BY <1>2, <2>1, ReadableOf
<1>4. LogOK(file, trouble)
  BY <1>2, <1>3 DEF LogOK, Owned, BeginFirst, Aborting, Linked, Backwards, Final
<1>5. BeginForced /\ AckedFile
  BY <1>1, <1>2 DEF Init, BeginForced, AckedFile
<1>6. Types
  <2>1. durable \in 0..Len(file) /\ torn \in BOOLEAN /\ rolling \in 0..MaxTxn /\ nextId \in 1..(MaxTxn + 1)
    BY <1>1, <1>2, LogAssumption DEF Init
  <2>2. /\ lastOf \in [0..MaxTxn -> Nat] /\ status \in [Id -> Status] /\ last \in [Id -> Nat]
        /\ toUndo \in [Id -> SUBSET Nat] /\ sess \in [Id -> Sess]
        /\ phase \in Phase /\ acked \subseteq Id
    BY <1>1 DEF Init, Status, Sess, Phase
  <2> QED BY <1>2, <2>1, <2>2 DEF Types
<1>7. Chains
  <2>1. \A t \in 0..MaxTxn : LsnsOf(file, t, Type) = {}
    BY <1>2 DEF LsnsOf
  <2> QED BY <1>1, <1>3, <2>1 DEF Init, Chains, ChainLast, Latest
<1>8. Memory
  BY <1>1, <1>2, <1>3, <1>7 DEF Init, Memory, IdsBelow, Sessions, Active
<1> QED BY <1>4, <1>5, <1>6, <1>8 DEF IInv, FileInv

LEMMA NextIInv == IInv /\ [Next]_vars => IInv'
<1>1. SUFFICES ASSUME IInv, [Next]_vars PROVE IInv'
  OBVIOUS
<1>2. CASE UNCHANGED vars
  BY <1>1, <1>2, SMTT(30) DEF vars, mem, IInv, Types, FileInv, Memory, BeginForced, AckedFile, Chains,
     IdsBelow, Sessions, Active, Object, Sheltered, Descending, Undone
<1>3. CASE Next
  <2>1. trouble' = trouble
    BY <1>3 DEF Next
  <2>2. CASE Begin
    BY <1>1, <2>1, <2>2, StepBegin
  <2>3. CASE ForceLog
    BY <1>1, <2>1, <2>3, StepForceLog
  <2>4. CASE \E t \in Id : LogUpdate(t) \/ CommitAppend(t) \/ CommitForce(t) \/ CommitFails(t)
    BY <1>1, <2>1, <2>4, StepLogUpdate, StepCommitAppend, StepCommitForce, StepCommitFails
  <2>5. CASE \E t \in Id : \E how \in {"rollback", "abort"} : Collect(t, how)
    BY <1>1, <2>1, <2>5, StepCollect
  <2>6. CASE \E t \in Id : WriteAbort(t) \/ UndoNext(t) \/ RollbackEnd(t) \/ RollbackFails(t)
    BY <1>1, <2>1, <2>6, StepWriteAbort, StepUndoNext, StepRollbackEnd, StepRollbackFails
  <2>7. CASE RecoverEnd \/ CloseStart
    BY <1>1, <2>1, <2>7, StepPhase
  <2>8. CASE CloseEnd
    BY <1>1, <2>1, <2>8, StepCloseEnd
  <2>9. CASE Crash
    BY <1>1, <2>1, <2>9, StepCrash
  <2>10. CASE Open
    BY <1>1, <2>1, <2>10, StepOpen
  <2> QED BY <1>3, <2>2, <2>3, <2>4, <2>5, <2>6, <2>7, <2>8, <2>9, <2>10 DEF Next
<1> QED BY <1>1, <1>2, <1>3

LEMMA Invariance == Spec => []IInv
BY InitIInv, NextIInv, PTL DEF Spec

-----------------------------------------------------------------------------
(* What the invariant implies.                                             *)

\* A transaction that has a record has a BEGIN.
LEMMA HasBegin ==
  ASSUME NEW f, NEW tr, LogOK(f, tr), NEW i \in DOMAIN f, f[i].txn # 0
  PROVE  \E j \in 1..i : f[j].txn = f[i].txn /\ f[j].type = "BEGIN"
<1> DEFINE S == {j \in 1..i : f[j].txn = f[i].txn}
<1>1. f \in Seq(Record) /\ Len(f) \in Nat /\ DOMAIN f = 1..Len(f)
  BY LenProperties DEF LogOK
<1>2. S \in SUBSET (0..Len(f)) /\ i \in S
  BY <1>1
<1>3. PICK m \in S : \A x \in S : m <= x
  <2> HIDE DEF S
  <2> QED BY <1>1, <1>2, LeastExists
<1>4. m \in 1..i /\ m \in DOMAIN f /\ f[m].txn = f[i].txn
  BY <1>1, <1>3
<1>5. ASSUME NEW j \in 1..(m - 1), f[j].txn = f[m].txn PROVE FALSE
  <2>1. j \in S /\ ~ (m <= j)
    BY <1>1, <1>4, <1>5
  <2> QED BY <1>3, <2>1
<1> QED BY <1>4, <1>5 DEF LogOK, BeginFirst

\* The BEGIN of t has LSN 0 exactly when the log begins with a record of t.
LEMMA BeginAtZero ==
  ASSUME NEW f, NEW tr, LogOK(f, tr), NEW t \in Id
  PROVE  LsnsOf(f, t, {"BEGIN"}) # {0} <=> Len(f) = 0 \/ f[1].txn # t
<1>1. Len(f) \in Nat /\ DOMAIN f = 1..Len(f) /\ t # 0
  BY LenProperties DEF LogOK, Id
<1>2. CASE Len(f) > 0 /\ f[1].txn = t
  <2>1. f[1].type = "BEGIN" /\ \A i \in 2..Len(f) : f[i].txn = t => f[i].type # "BEGIN"
    BY <1>1, <1>2 DEF LogOK, BeginFirst
  <2>2. LsnsOf(f, t, {"BEGIN"}) = {0}
    BY <1>1, <1>2, <2>1 DEF LsnsOf
  <2> QED BY <1>1, <1>2, <2>2
<1>3. CASE ~ (Len(f) > 0 /\ f[1].txn = t)
  <2>1. 0 \notin LsnsOf(f, t, {"BEGIN"})
    BY <1>1, <1>3 DEF LsnsOf
  <2> QED BY <1>1, <1>3, <2>1
<1> QED BY <1>2, <1>3

\* A transaction is unprotected exactly when its BEGIN is the first record of the
\* log and an fsync may fail.
LEMMA ProtectedIs ==
  ASSUME IInv, NEW t \in Id
  PROVE  Protected(t) <=> trouble # "disk" \/ Len(file) = 0 \/ file[1].txn # t
BY BeginAtZero DEF IInv, FileInv, Protected

LEMMA ImpliesLogSound == IInv => LogSound
<1>1. SUFFICES ASSUME IInv PROVE LogSound
  OBVIOUS
<1> DEFINE f == Readable(file)
<1>2. Types /\ LogOK(file, trouble) /\ file \in Seq(Record) /\ TornLast(file)
  BY <1>1 DEF IInv, FileInv, LogOK
<1>3. /\ f \in Seq(Record) /\ Len(f) \in 0..Len(file) /\ DOMAIN f = 1..Len(f)
      /\ Len(file) \in Nat /\ DOMAIN file = 1..Len(file)
      /\ \A i \in 1..Len(f) : f[i] = file[i] /\ file[i].type # "TORN"
  BY <1>2, ReadableOf, LenProperties
<1> HIDE DEF f
<1>4. ASSUME NEW i \in 1..Len(f)
      PROVE  /\ file[i].prev = Latest(LsnsOf(SubSeq(file, 1, i - 1), file[i].txn, Type))
             /\ f[i].prev < i
  <2>1. file[i].prev = Latest(LsnsOf(SubSeq(file, 1, i - 1), file[i].txn, Type))
    BY <1>2, <1>3 DEF LogOK, Linked
  <2> DEFINE S == LsnsOf(SubSeq(file, 1, i - 1), file[i].txn, Type)
  <2>2. SubSeq(file, 1, i - 1) \in Seq(Record) /\ Len(SubSeq(file, 1, i - 1)) = i - 1
    BY <1>2, <1>3, PrefixOf, i - 1 \in 0..Len(file)
  <2>3. S \subseteq 0..(i - 2)
    BY <2>2 DEF LsnsOf
  <2>4. Latest(S) = 0 \/ Latest(S) \in S
    BY <2>2, LatestType DEF Latest
  <2> HIDE DEF S
  <2>5. Latest(S) < i
    <3>1. i \in Nat /\ 0 < i
      BY <1>3
    <3>2. \A x \in 0..(i - 2) : x < i
      BY <3>1
    <3> QED BY <2>3, <2>4, <3>1, <3>2
  <2> QED BY <1>3, <2>1, <2>5 DEF S
<1>5. LogReadable
  BY <1>1, <1>3, <1>4 DEF LogReadable, Valid, IInv, Memory, f
<1>6. ChainComplete
  BY <1>3, <1>4 DEF ChainComplete, f
<1>7. ChainAgrees
  <2>1. SUFFICES ASSUME trouble # "disk", phase # "down", rolling = 0, NEW t \in Active
                 PROVE  Accepts(t, last[t])
    BY DEF ChainAgrees
  <2>2. Object(t) /\ Sessions /\ t \in Id /\ t # 0
    BY <1>1, <2>1 DEF IInv, Memory, Active, Id
  <2>3. last[t] = lastOf[t]
    BY <2>1, <2>2 DEF Object, Sheltered, Sessions
  <2> QED BY <2>3 DEF Accepts
<1> QED BY <1>2, <1>5, <1>6, <1>7 DEF LogSound

LEMMA ImpliesCommitDurable == IInv => CommitDurable
<1>1. SUFFICES ASSUME IInv, NEW t \in acked
               PROVE  /\ LsnsOf(Readable(SubSeq(file, 1, durable)), t, {"COMMIT"}) # {}
                      /\ phase # "down" => status[t] = "committed"
  BY DEF CommitDurable
<1>2. Types /\ LogOK(file, trouble) /\ file \in Seq(Record) /\ durable \in 0..Len(file) /\ Len(file) \in Nat
  BY <1>1, LenProperties DEF IInv, FileInv, LogOK, Types
<1>3. PICK i \in 1..durable : file[i].txn = t /\ file[i].type = "COMMIT"
  BY <1>1 DEF IInv, FileInv, AckedFile
<1> DEFINE k == SubSeq(file, 1, durable)
           f == Readable(k)
<1>4. /\ k \in Seq(Record) /\ Len(k) = durable /\ TornLast(k)
      /\ \A j \in 1..durable : k[j] = file[j]
  BY <1>2, PrefixOf, PrefixOK DEF LogOK
<1> HIDE DEF k
<1>5. /\ Len(f) \in 0..Len(k) /\ \A j \in 1..Len(f) : f[j] = k[j]
      /\ \A j \in (Len(f) + 1)..Len(k) : k[j].type = "TORN"
  BY <1>4, ReadableOf
<1> HIDE DEF f
<1>6. i \in 1..Len(f)
  BY <1>2, <1>3, <1>4, <1>5
<1>7. i - 1 \in LsnsOf(f, t, {"COMMIT"})
  BY <1>2, <1>3, <1>4, <1>5, <1>6 DEF LsnsOf
<1> QED BY <1>1, <1>7 DEF IInv, Memory, f, k

LEMMA ImpliesDecidedOnce == IInv => DecidedOnce
<1>1. SUFFICES ASSUME IInv PROVE DecidedOnce
  OBVIOUS
<1>2. /\ LogOK(file, trouble) /\ Len(file) \in Nat /\ DOMAIN file = 1..Len(file)
      /\ \A i \in DOMAIN file : file[i].txn \in 0..MaxTxn
  <2>1. \A i \in 1..Len(file) : file[i] \in Record
    BY <1>1, ElementOfSeq DEF IInv, FileInv, LogOK
  <2> QED BY <1>1, <2>1, LenProperties DEF IInv, FileInv, LogOK, Record
<1>3. ASSUME NEW i \in DOMAIN file, NEW j \in DOMAIN file, i < j,
             file[i].txn = file[j].txn, file[i].txn # 0
      PROVE  /\ file[j].type # "BEGIN"
             /\ Protected(file[i].txn) => file[i].type # "COMMIT"
             /\ file[i].type = "ABORT" => file[j].type # "COMMIT"
  <2>1. i \in 1..(j - 1) /\ file[i].txn \in Id
    BY <1>2, <1>3 DEF Id
  <2>2. Protected(file[i].txn) => trouble # "disk" \/ file[1].txn # file[i].txn
    BY <1>1, <1>2, <2>1, ProtectedIs
  <2> QED BY <1>2, <1>3, <2>1, <2>2 DEF LogOK, BeginFirst, Final, Aborting
<1>4. ASSUME NEW t \in Id, Protected(t), NEW a \in LsnsOf(file, t, {"COMMIT"}),
             NEW b \in LsnsOf(file, t, {"ABORT"})
      PROVE  FALSE
  <2>1. /\ a + 1 \in DOMAIN file /\ file[a + 1].txn = t /\ file[a + 1].type = "COMMIT"
        /\ b + 1 \in DOMAIN file /\ file[b + 1].txn = t /\ file[b + 1].type = "ABORT"
        /\ t # 0
    BY <1>2, <1>4 DEF LsnsOf, Id
  <2>2. CASE a + 1 < b + 1
    BY <1>3, <1>4, <2>1, <2>2
  <2>3. CASE b + 1 < a + 1
    BY <1>3, <1>4, <2>1, <2>3
  <2> QED BY <1>2, <2>1, <2>2, <2>3
<1>5. \A t \in Id : Protected(t) => LsnsOf(file, t, {"COMMIT"}) = {} \/ LsnsOf(file, t, {"ABORT"}) = {}
  BY <1>4
<1>6. IdUsedOnce
  BY <1>3 DEF IdUsedOnce
<1> QED BY <1>5, <1>6 DEF DecidedOnce

LEMMA ImpliesUndoBackwards == IInv => UndoBackwards
<1>1. SUFFICES ASSUME IInv, NEW i \in DOMAIN file, NEW j \in DOMAIN file,
                      i < j, file[i].txn = file[j].txn, file[i].type = "CLR", file[j].type = "CLR",
                      \A k \in i..j : file[k].txn = file[i].txn => file[k].type # "ABORT"
               PROVE  file[j].undoes < file[i].undoes
  BY DEF UndoBackwards
<1>2. LogOK(file, trouble) /\ i \in 1..(j - 1)
  BY <1>1, LenProperties DEF IInv, FileInv, LogOK
<1> QED BY <1>1, <1>2 DEF LogOK, Backwards

\* Only RollbackEnd takes a transaction from active to aborted while the process
\* runs, with nothing left to undo.
LEMMA RollbackStep ==
  ASSUME IInv, [Next]_vars, trouble # "threads", NEW t \in Id,
         phase # "down", status[t] = "active", status'[t] = "aborted"
  PROVE  LsnsOf(file, t, {"UPDATE"}) \subseteq Undone(t)
<1>1. Types /\ Memory
  BY DEF IInv
<1>2. RollbackEnd(t)
  <2>1. status' # status /\ Next
    BY DEF vars, mem
  <2>2. ~ (\/ UNCHANGED status \/ Open)
    BY <2>1 DEF Open
  <2>3. ~ Begin
    <3>1. ASSUME Begin PROVE status'[t] # "aborted"
      BY <1>1, <3>1 DEF Begin, Types
    <3> QED BY <3>1
  <2>4. ASSUME NEW u \in Id PROVE ~ CommitForce(u)
    BY <1>1 DEF CommitForce, Types
  <2>5. PICK u \in Id : RollbackEnd(u)
    BY <2>1, <2>2, <2>3, <2>4 DEF Next, ForceLog, LogUpdate, CommitAppend, CommitFails, Collect,
       WriteAbort, UndoNext, RollbackFails, RecoverEnd, CloseStart, CloseEnd, Crash, mem
  <2>6. u = t
    BY <1>1, <2>5 DEF RollbackEnd, Types
  <2> QED BY <2>5, <2>6
<1>3. /\ Object(t) /\ toUndo[t] = {} /\ rolling = t /\ sess[t] # "commit"
      /\ sess[t] \in {"rollback", "abort"}
  BY <1>1, <1>2 DEF RollbackEnd, Memory, Active, Sessions, Id
<1> QED BY <1>3 DEF Object

-----------------------------------------------------------------------------
(* The refinement of TransactionOutcome.                                   *)

\* What a step leaves of the forced records of t, and what it can add for a
\* transaction that had none.
Kept(t) ==
  /\ \A i \in 1..durable : file[i].txn = t => i <= durable' /\ file'[i] = file[i]
  /\ (\A i \in DOMAIN file : file[i].txn # t) =>
       \A i \in DOMAIN file' : file'[i].txn = t => file'[i].type = "BEGIN"

LEMMA GrownKept ==
  ASSUME Types, NEW type, NEW a \in 0..MaxTxn, NEW undoes, Grown(type, a, undoes),
         Forced \/ Unforced, NEW t \in Id,
         a = t /\ type # "BEGIN" => \E i \in DOMAIN file : file[i].txn = t
  PROVE  Kept(t)
<1> DEFINE b == Len(Readable(file))
<1>1. /\ b \in 0..Len(file) /\ Len(file) \in Nat /\ Len(Base) = b
      /\ DOMAIN file = 1..Len(file) /\ DOMAIN file' = 1..(b + 1) /\ Len(file') = b + 1
      /\ \A i \in 1..b : file'[i] = file[i]
      /\ \A i \in (b + 1)..Len(file) : file[i].txn # t
      /\ file'[b + 1].type = type /\ file'[b + 1].txn = a
  BY DEF Grown, Id
<1>2. durable \in 0..Len(file)
  BY DEF Types
<1> HIDE DEF b
<1>3. durable' = b + 1 \/ durable' = (IF durable > b THEN b ELSE durable)
  BY <1>1 DEF Forced, Unforced
<1>4. \A i \in 1..durable : file[i].txn = t => i <= durable' /\ file'[i] = file[i]
  <2>1. ASSUME NEW i \in 1..durable, file[i].txn = t PROVE i \in 1..b /\ i <= durable'
    <3>1. i \in 1..b
      BY <1>1, <1>2, <2>1
    <3> QED BY <1>1, <1>2, <1>3, <3>1
  <2> QED BY <1>1, <2>1
<1>5. ASSUME \A i \in DOMAIN file : file[i].txn # t, NEW i \in DOMAIN file', file'[i].txn = t
      PROVE  file'[i].type = "BEGIN"
  <2>1. i = b + 1
    BY <1>1, <1>5
  <2> QED BY <1>1, <1>5, <2>1
<1> QED BY <1>4, <1>5 DEF Kept

\* An active transaction has a record.
LEMMA ActiveHasRecord ==
  ASSUME IInv, phase # "down", NEW t \in Id, status[t] = "active"
  PROVE  \E i \in DOMAIN file : file[i].txn = t
<1>1. last[t] \in LsnsOf(file, t, Type) /\ DOMAIN file = 1..Len(file) /\ Len(file) \in Nat
  BY LenProperties DEF IInv, Types, Memory, Active, Object
<1>2. last[t] + 1 \in DOMAIN file /\ file[last[t] + 1].txn = t
  BY <1>1 DEF LsnsOf
<1> QED BY <1>2

LEMMA NextKept ==
  ASSUME IInv, IInv', Next, NEW t \in Id
  PROVE  Kept(t)
<1>1. /\ Types /\ FileInv /\ durable \in 0..Len(file) /\ Len(file) \in Nat
      /\ DOMAIN file = 1..Len(file)
  BY LenProperties DEF IInv, Types
<1>2. ASSUME file' = file, durable' \in {durable, Len(file)} PROVE Kept(t)
  <2>1. \A i \in 1..durable : i <= durable'
    BY <1>1, <1>2
  <2>2. \A i \in DOMAIN file : (\A j \in DOMAIN file : file[j].txn # t) => file[i].txn # t
    OBVIOUS
  <2> QED BY <1>2, <2>1, <2>2 DEF Kept
<1>3. ASSUME NEW a \in Id, NEW type \in Type, type # "TORN", NEW prev, NEW undoes \in Nat,
             phase # "down", Append1(type, a, prev, undoes), Forced \/ Unforced,
             type = "BEGIN" \/ status[a] = "active"
      PROVE  Kept(t)
  <2>1. a \in 0..MaxTxn
    BY DEF Id
  <2>2. Grown(type, a, undoes)
    BY <1>1, <1>3, <2>1, AppendStep DEF IInv
  <2> QED BY <1>1, <1>3, <2>1, <2>2, GrownKept, ActiveHasRecord
<1>4. CASE Begin
  <2>1. PICK a \in Id : a = nextId
    BY <1>1, <1>4, LogAssumption DEF Begin, Types, Id
  <2> QED BY <1>3, <1>4, <2>1 DEF Begin, Type
<1>5. CASE \E a \in Id : LogUpdate(a) \/ CommitAppend(a) \/ WriteAbort(a)
  <2>1. PICK a \in Id : LogUpdate(a) \/ CommitAppend(a) \/ WriteAbort(a)
    BY <1>5
  <2> QED BY <1>3, <2>1 DEF LogUpdate, CommitAppend, WriteAbort, Active, Type
<1>6. CASE \E a \in Id : UndoNext(a)
  <2>1. PICK a \in Id : UndoNext(a)
    BY <1>6
  <2>2. /\ Append1("CLR", a, last[a], Latest(toUndo[a])) /\ Unforced /\ phase # "down"
        /\ rolling = a /\ sess[a] # "commit" /\ toUndo[a] # {}
    BY <2>1 DEF UndoNext
  <2>3. status[a] = "active" /\ toUndo[a] \subseteq LsnsOf(file, a, {"UPDATE"})
    BY <2>2 DEF IInv, Memory, Sessions, Active, Object, Id
  <2>4. toUndo[a] \subseteq 0..Len(file)
    BY <1>1, <2>3 DEF LsnsOf
  <2>5. Latest(toUndo[a]) \in Nat
    <3>1. toUndo[a] # {} /\ toUndo[a] \in SUBSET (0..Len(file))
      BY <2>2, <2>4
    <3>2. Latest(toUndo[a]) \in toUndo[a]
      BY <1>1, <3>1, LatestGreatest
    <3> QED BY <1>1, <3>1, <3>2
  <2> QED BY <1>3, <2>2, <2>3, <2>5 DEF Type
<1>7. CASE CloseEnd
  <2>1. 0 \in 0..MaxTxn /\ 0 # t
    BY LogAssumption DEF Id
  <2>2. Grown("CHECKPOINT", 0, 0) /\ Forced
    BY <1>1, <1>7, <2>1, AppendStep DEF CloseEnd, IInv, Type
  <2> QED BY <1>1, <2>1, <2>2, GrownKept
<1>8. CASE Crash
  <2>1. PICK n \in durable..Len(file) :
           \/ file' = SubSeq(file, 1, n)
           \/ file' = Append(SubSeq(file, 1, n), Fragment)
    BY <1>8 DEF Crash
  <2>2. durable' = Len(file') /\ n \in 0..Len(file)
    BY <1>1, <1>8 DEF Crash
  <2>3. /\ SubSeq(file, 1, n) \in Seq(Record) /\ Len(SubSeq(file, 1, n)) = n
        /\ \A i \in 1..n : SubSeq(file, 1, n)[i] = file[i]
    BY <1>1, <2>2, PrefixOf DEF Types
  <2>4. /\ Len(file') \in n..(n + 1) /\ DOMAIN file' = 1..Len(file')
        /\ \A i \in 1..n : file'[i] = file[i]
        /\ \A i \in (n + 1)..Len(file') : file'[i].txn # t
    <3>1. CASE file' = SubSeq(file, 1, n)
      BY <2>2, <2>3, <3>1, LenProperties
    <3>2. CASE file' = Append(SubSeq(file, 1, n), Fragment)
      <4>1. Fragment \in Record /\ Fragment.txn # t
        BY LogAssumption DEF Fragment, Record, Type, Id
      <4> QED BY <2>2, <2>3, <3>2, <4>1, AppendProperties, LenProperties
    <3> QED BY <2>1, <3>1, <3>2
  <2>5. \A i \in 1..durable : i \in 1..n /\ i <= durable'
    BY <1>1, <2>2, <2>4
  <2>6. ASSUME \A i \in DOMAIN file : file[i].txn # t, NEW i \in DOMAIN file' PROVE file'[i].txn # t
    <3>1. CASE i \in 1..n
      BY <1>1, <2>2, <2>4, <2>6, <3>1
    <3>2. CASE i \in (n + 1)..Len(file')
      BY <2>4, <3>2
    <3> QED BY <2>2, <2>4, <3>1, <3>2
  <2> QED BY <2>4, <2>5, <2>6 DEF Kept
<1>9. CASE \/ ForceLog \/ RecoverEnd \/ CloseStart \/ Open
           \/ \E a \in Id : CommitForce(a) \/ CommitFails(a) \/ RollbackEnd(a) \/ RollbackFails(a)
                            \/ \E how \in {"rollback", "abort"} : Collect(a, how)
  BY <1>2, <1>9 DEF ForceLog, RecoverEnd, CloseStart, Open, CommitForce, CommitFails, RollbackEnd,
     RollbackFails, Collect
<1> QED BY <1>4, <1>5, <1>6, <1>7, <1>8, <1>9 DEF Next

\* What a restart would make of t from what is forced.
OnDisk(t) == Loaded(SubSeq(file, 1, durable), t)

\* The forced part of the log, as the lemmas need it.
LEMMA ForcedPart ==
  ASSUME NEW f, NEW tr, LogOK(f, tr), NEW d \in 0..Len(f)
  PROVE  LET k == SubSeq(f, 1, d) IN
         /\ k \in Seq(Record) /\ Len(k) = d /\ DOMAIN k = 1..d
         /\ \A i \in 1..d : k[i] = f[i]
         /\ Len(f) \in Nat /\ d \in Nat /\ DOMAIN f = 1..Len(f)
<1>1. f \in Seq(Record)
  BY DEF LogOK
<1> QED BY <1>1, PrefixOf, LenProperties

LEMMA Prefix ==
  ASSUME IInv
  PROVE  LET k == SubSeq(file, 1, durable) IN
         /\ k \in Seq(Record) /\ Len(k) = durable /\ DOMAIN k = 1..durable
         /\ \A i \in 1..durable : k[i] = file[i]
         /\ durable \in 0..Len(file) /\ Len(file) \in Nat /\ durable \in Nat
         /\ DOMAIN file = 1..Len(file)
         /\ LogOK(file, trouble)
<1>1. Types /\ LogOK(file, trouble) /\ durable \in 0..Len(file)
  BY DEF IInv, FileInv, Types
<1> QED BY <1>1, ForcedPart

\* While t has no forced record, it has none.
LEMMA NoneOnDisk ==
  ASSUME IInv, NEW t \in Id, OnDisk(t) = "none"
  PROVE  \A i \in DOMAIN file : file[i].txn # t
<1> DEFINE k == SubSeq(file, 1, durable)
<1>1. /\ DOMAIN k = 1..durable /\ \A i \in 1..durable : k[i] = file[i]
      /\ DOMAIN file = 1..Len(file) /\ Len(file) \in Nat
      /\ LogOK(file, trouble) /\ BeginForced /\ t # 0
  BY Prefix DEF IInv, FileInv, Id
<1> HIDE DEF k
<1>2. t \notin Seen(k)
  BY LoadedType DEF OnDisk, k
<1>3. SUFFICES ASSUME NEW i \in DOMAIN file, file[i].txn = t PROVE FALSE
  OBVIOUS
<1>4. PICK j \in 1..i : file[j].txn = t /\ file[j].type = "BEGIN"
  BY <1>1, <1>3, HasBegin
<1>5. j \in 1..durable
  BY <1>1, <1>3, <1>4 DEF BeginForced
<1> QED BY <1>1, <1>2, <1>4, <1>5 DEF Seen, Skipped

\* A forced COMMIT that is the last record of its transaction is its outcome.
LEMMA LastCommit ==
  ASSUME NEW f, NEW tr, LogOK(f, tr), NEW d \in 0..Len(f), NEW t, NEW i \in 1..d,
         f[i].txn = t, f[i].type = "COMMIT", \A j \in (i + 1)..Len(f) : f[j].txn # t
  PROVE  Loaded(SubSeq(f, 1, d), t) = "committed"
<1> DEFINE k == SubSeq(f, 1, d)
<1>1. /\ k \in Seq(Record) /\ Len(k) = d /\ \A j \in 1..d : k[j] = f[j]
      /\ d \in Nat /\ Len(f) \in Nat
  BY ForcedPart
<1> HIDE DEF k
<1>2. i \in 1..Len(k) /\ k[i].txn = t /\ k[i].type = "COMMIT"
  BY <1>1
<1>3. \A j \in (i + 1)..Len(k) : k[j].txn # t
  BY <1>1
<1>4. Loaded(k, t) = "committed"
  BY <1>1, <1>2, <1>3, LoadedCommitted
<1> QED BY <1>4 DEF k

\* The acknowledged transactions are committed on disk.
LEMMA AckedOnDisk ==
  ASSUME IInv, NEW t \in acked PROVE OnDisk(t) = "committed"
<1>1. PICK i \in 1..durable : /\ file[i].txn = t /\ file[i].type = "COMMIT"
                              /\ \A j \in (i + 1)..Len(file) : file[j].txn # t
  BY DEF IInv, FileInv, AckedFile
<1>2. LogOK(file, trouble) /\ durable \in 0..Len(file)
  BY Prefix
<1>3. Loaded(SubSeq(file, 1, durable), t) = "committed"
  BY <1>1, <1>2, LastCommit
<1> QED BY <1>3 DEF OnDisk

\* A transaction with an outcome on disk has a forced record.
LEMMA SomeOnDisk ==
  ASSUME IInv, NEW t \in Id, OnDisk(t) # "none"
  PROVE  \E i \in 1..durable : file[i].txn = t
<1> DEFINE k == SubSeq(file, 1, durable)
<1>1. /\ Len(k) = durable /\ DOMAIN k = 1..durable /\ \A i \in 1..durable : k[i] = file[i]
      /\ durable \in Nat
  BY Prefix
<1> HIDE DEF k
<1>2. LsnsOf(k, t, Outcomes) # {} \/ t \in Seen(k)
  BY LoadedType DEF OnDisk, k
<1>3. \E i \in 1..durable : k[i].txn = t
  BY <1>1, <1>2 DEF LsnsOf, Seen
<1> QED BY <1>1, <1>3

\* What is protected stays so unless it was begun in this step, and conversely.
LEMMA ProtectedStep ==
  ASSUME IInv, IInv', trouble' = trouble, NEW t \in Id, Kept(t)
  PROVE  /\ Protected(t)' => Protected(t)
         /\ Protected(t) /\ ~ Protected(t)' => OnDisk(t) = "none"
<1>1. /\ DOMAIN file = 1..Len(file) /\ Len(file) \in Nat /\ LogOK(file, trouble) /\ BeginForced
      /\ durable \in 0..Len(file) /\ t # 0
  BY Prefix DEF IInv, FileInv, Id
<1>2. Protected(t) <=> trouble # "disk" \/ Len(file) = 0 \/ file[1].txn # t
  BY ProtectedIs
<1>3. Protected(t)' <=> trouble' # "disk" \/ Len(file') = 0 \/ file'[1].txn # t
  <2>1. LogOK(file', trouble')
    BY DEF IInv, FileInv
  <2> QED BY <2>1, BeginAtZero DEF Protected
<1>4. Len(file') \in Nat /\ durable' \in 0..Len(file') /\ DOMAIN file' = 1..Len(file')
  BY LenProperties DEF IInv, Types
<1>5. ASSUME ~ Protected(t) PROVE ~ Protected(t)'
  <2>1. Len(file) > 0 /\ file[1].txn = t /\ trouble = "disk"
    BY <1>1, <1>2, <1>5
  <2>2. file[1].type = "BEGIN"
    BY <1>1, <2>1 DEF LogOK, BeginFirst
  <2>3. 1 \in 1..durable
    BY <1>1, <2>1, <2>2 DEF BeginForced
  <2>4. 1 <= durable' /\ file'[1] = file[1]
    BY <2>1, <2>3 DEF Kept
  <2> QED BY <1>3, <1>4, <2>1, <2>4
<1>6. ASSUME Protected(t), ~ Protected(t)', OnDisk(t) # "none" PROVE FALSE
  <2>1. Len(file') > 0 /\ file'[1].txn = t /\ trouble = "disk"
    BY <1>3, <1>4, <1>6
  <2>2. \E i \in 1..durable : file[i].txn = t
    BY <1>6, SomeOnDisk
  <2>3. PICK i \in 1..durable : file[i].txn = t /\ file[i].type = "BEGIN"
    <3>1. PICK m \in 1..durable : file[m].txn = t
      BY <2>2
    <3>2. m \in DOMAIN file
      BY <1>1, <3>1
    <3>3. PICK j \in 1..m : file[j].txn = t /\ file[j].type = "BEGIN"
      BY <1>1, <3>1, <3>2, HasBegin
    <3> QED BY <1>1, <3>1, <3>3
  <2>4. i <= durable' /\ file'[i] = file[i]
    BY <2>3 DEF Kept
  <2>5. i = 1
    <3>1. LogOK(file', trouble')
      BY DEF IInv, FileInv
    <3>2. i \in DOMAIN file' /\ file'[i].txn = t /\ file'[i].type = "BEGIN"
      BY <1>1, <1>4, <2>3, <2>4
    <3>3. \A j \in 1..(i - 1) : file'[j].txn # t
      BY <1>1, <3>1, <3>2 DEF LogOK, BeginFirst
    <3> QED BY <1>1, <2>1, <2>3, <3>3
  <2> QED BY <1>1, <1>2, <1>6, <2>1, <2>3, <2>5
<1> QED BY <1>5, <1>6

\* What a restart would make of a protected transaction only moves forward.
LEMMA OnDiskStep ==
  ASSUME IInv, IInv', trouble' = trouble, NEW t \in Id, Kept(t), Protected(t)'
  PROVE  OnDisk(t)' \in Decision!Later[OnDisk(t)]
<1> DEFINE k == SubSeq(file, 1, durable)
           n == SubSeq(file', 1, durable')
<1>1. /\ k \in Seq(Record) /\ Len(k) = durable /\ DOMAIN k = 1..durable
      /\ \A i \in 1..durable : k[i] = file[i]
      /\ durable \in 0..Len(file) /\ Len(file) \in Nat /\ durable \in Nat
      /\ DOMAIN file = 1..Len(file)
  BY Prefix
<1>2. /\ n \in Seq(Record) /\ Len(n) = durable' /\ DOMAIN n = 1..durable'
      /\ \A i \in 1..durable' : n[i] = file'[i]
      /\ durable' \in 0..Len(file') /\ Len(file') \in Nat /\ durable' \in Nat
      /\ DOMAIN file' = 1..Len(file')
      /\ LogOK(file', trouble')
  <2>1. LogOK(file', trouble') /\ durable' \in 0..Len(file')
    BY DEF IInv, FileInv, Types
  <2> QED BY <2>1, ForcedPart
<1>3. OnDisk(t) = Loaded(k, t) /\ OnDisk(t)' = Loaded(n, t)
  BY DEF OnDisk
<1> HIDE DEF k, n
<1>4. \A i \in 1..durable : k[i].txn = t => i \in 1..durable' /\ n[i] = k[i]
  BY <1>1, <1>2 DEF Kept
<1>5. trouble' # "disk" \/ Len(file') = 0 \/ file'[1].txn # t
  BY <1>2, BeginAtZero DEF Protected
<1>6. \A j \in DOMAIN n : \A i \in 1..(j - 1) : n[i].txn = t /\ n[j].txn = t => n[i].type # "COMMIT"
  <2>1. SUFFICES ASSUME NEW j \in 1..durable', NEW i \in 1..(j - 1), n[i].txn = t, n[j].txn = t
                 PROVE  n[i].type # "COMMIT"
    BY <1>2
  <2>2. i \in 1..durable' /\ j \in 1..Len(file') /\ n[i] = file'[i] /\ n[j] = file'[j]
    BY <1>2, <2>1
  <2> QED BY <1>2, <1>5, <2>1, <2>2 DEF LogOK, Final, Id
<1>7. \A j \in DOMAIN n : \A i \in 1..(j - 1) :
        n[i].txn = t /\ n[j].txn = t /\ n[i].type = "ABORT" => n[j].type # "COMMIT"
  <2>1. SUFFICES ASSUME NEW j \in 1..durable', NEW i \in 1..(j - 1), n[i].txn = t, n[j].txn = t,
                        n[i].type = "ABORT"
                 PROVE  n[j].type # "COMMIT"
    BY <1>2
  <2>2. i \in 1..durable' /\ j \in 1..Len(file') /\ n[i] = file'[i] /\ n[j] = file'[j]
    BY <1>2, <2>1
  <2> QED BY <1>2, <2>1, <2>2 DEF LogOK, Aborting
<1>8. CASE OnDisk(t) = "committed"
  <2>1. PICK i \in 1..durable : k[i].txn = t /\ k[i].type = "COMMIT"
    <3>1. Has(k, t, "COMMIT")
      BY <1>1, <1>3, <1>8, OutcomeRecord
    <3> QED BY <1>1, <3>1 DEF Has
  <2>2. i \in 1..durable' /\ n[i].txn = t /\ n[i].type = "COMMIT"
    BY <1>4, <2>1
  <2>3. \A j \in (i + 1)..Len(n) : n[j].txn = t => n[j].type \notin Outcomes
    BY <1>2, <1>6, <2>2
  <2>4. Loaded(n, t) = "committed"
    BY <1>2, <2>2, <2>3, LoadedCommitted
  <2> QED BY <1>3, <1>8, <2>4 DEF Decision!Later
<1>9. CASE OnDisk(t) = "aborted"
  <2>1. PICK i \in 1..durable : k[i].txn = t /\ k[i].type = "ABORT"
    <3>1. Has(k, t, "ABORT")
      BY <1>1, <1>3, <1>9, OutcomeRecord
    <3> QED BY <1>1, <3>1 DEF Has
  <2>2. i \in 1..durable' /\ n[i].txn = t /\ n[i].type = "ABORT"
    BY <1>4, <2>1
  <2>3. Loaded(n, t) \in {"committed", "aborted"} /\ (Loaded(n, t) = "committed" => Has(n, t, "COMMIT"))
    BY <1>2, <2>2, LoadedOutcome DEF Has
  <2>4. ~ Has(n, t, "COMMIT")
    <3>1. SUFFICES ASSUME NEW j \in 1..durable', n[j].txn = t, n[j].type = "COMMIT" PROVE FALSE
      BY <1>2 DEF Has
    <3>2. CASE i < j
      BY <1>2, <1>7, <2>2, <3>1, <3>2, i \in 1..(j - 1)
    <3>3. CASE j < i
      BY <1>2, <1>6, <2>2, <3>1, <3>3, j \in 1..(i - 1)
    <3> QED BY <1>2, <2>2, <3>1, <3>2, <3>3
  <2> QED BY <1>3, <1>9, <2>3, <2>4 DEF Decision!Later
<1>10. CASE OnDisk(t) = "active"
  <2>1. PICK i \in 1..durable : k[i].txn = t /\ k[i].type \notin Skipped
    <3>1. t \in Seen(k)
      BY <1>3, <1>10, LoadedType
    <3> QED BY <1>1, <3>1 DEF Seen
  <2>2. t \in Seen(n)
    BY <1>2, <1>4, <2>1 DEF Seen
  <2>3. Loaded(n, t) # "none" /\ Loaded(n, t) \in Status
    BY <2>2, LoadedType
  <2> QED BY <1>3, <1>10, <2>3 DEF Decision!Later, Status
<1>11. CASE OnDisk(t) = "none"
  <2>1. \A i \in 1..durable' : n[i].txn = t => n[i].type = "BEGIN"
    BY <1>2, <1>11, NoneOnDisk DEF Kept
  <2>2. LsnsOf(n, t, Outcomes) = {}
    BY <1>2, <2>1 DEF LsnsOf, Outcomes
  <2>3. Loaded(n, t) \in {"none", "active"}
    BY <2>2, LoadedType
  <2> QED BY <1>3, <1>11, <2>3 DEF Decision!Later
<1>12. OnDisk(t) \in Status
  BY <1>3, LoadedType
<1> QED BY <1>8, <1>9, <1>10, <1>11, <1>12 DEF Status

LEMMA InitOutcome == Init => Decision!Init
<1>1. SUFFICES ASSUME Init PROVE Decision!Init
  OBVIOUS
<1>2. file = <<>> /\ durable = 0 /\ acked = {}
  BY <1>1 DEF Init
<1>3. /\ SubSeq(file, 1, durable) = <<>> /\ DOMAIN SubSeq(file, 1, durable) = {}
      /\ Len(SubSeq(file, 1, durable)) = 0
  BY <1>2
<1>4. \A t \in Id : OnDisk(t) = "none"
  <2>1. \A t \in Id : LsnsOf(SubSeq(file, 1, durable), t, Outcomes) = {}
    <3> DEFINE none == Len(SubSeq(file, 1, durable))
    <3>1. none = 0
      BY <1>3
    <3> HIDE DEF none
    <3>2. 0..(none - 1) = {}
      BY <3>1
    <3> QED BY <3>2 DEF LsnsOf, none
  <2>2. Seen(SubSeq(file, 1, durable)) = {}
    BY <1>3 DEF Seen
  <2> QED BY <2>1, <2>2, LoadedType DEF OnDisk
<1> QED BY <1>2, <1>4 DEF Decision!Init, OnDisk

\* The values of the refinement mapping.
Outcome == [t \in Id |-> IF Protected(t) THEN Loaded(SubSeq(file, 1, durable), t) ELSE "none"]
Told    == {t \in acked : Protected(t)}

LEMMA NextOutcome ==
  ASSUME IInv, IInv', [Next]_vars
  PROVE  [Decision!Step]_<<Outcome, Told>>
<1>1. CASE UNCHANGED vars
  BY <1>1 DEF vars, mem, Outcome, Told, Protected
<1>2. CASE Next
  <2>1. trouble' = trouble /\ \A t \in Id : Kept(t)
    BY <1>2, NextKept DEF Next
  <2>2. acked \subseteq acked' /\ acked \subseteq Id /\ acked' \subseteq Id
    <3>1. acked \subseteq acked'
      BY <1>2 DEF Next, Begin, LogUpdate, ForceLog, CommitAppend, CommitForce, CommitFails, Collect,
         WriteAbort, UndoNext, RollbackEnd, RollbackFails, RecoverEnd, CloseStart, CloseEnd, Crash, Open
    <3> QED BY <3>1 DEF IInv, Types
  <2>3. ASSUME NEW t \in Id
        PROVE  /\ Outcome[t] = IF Protected(t) THEN OnDisk(t) ELSE "none"
               /\ Outcome'[t] = IF Protected(t)' THEN OnDisk(t)' ELSE "none"
    BY DEF Outcome, OnDisk, Protected
  <2>4. ASSUME NEW t \in Id PROVE Outcome'[t] \in Decision!Later[Outcome[t]]
    <3>1. CASE Protected(t) /\ Protected(t)'
      BY <2>1, <2>3, <3>1, OnDiskStep
    <3>2. CASE ~ Protected(t)
      <4>1. ~ Protected(t)'
        BY <2>1, <3>2, ProtectedStep
      <4> QED BY <2>3, <3>2, <4>1 DEF Decision!Later
    <3>3. CASE Protected(t) /\ ~ Protected(t)'
      <4>1. OnDisk(t) = "none"
        BY <2>1, <3>3, ProtectedStep
      <4> QED BY <2>3, <3>3, <4>1 DEF Decision!Later
    <3> QED BY <3>1, <3>2, <3>3
  <2>5. ASSUME NEW t \in Told PROVE t \in Told'
    <3>1. t \in acked /\ t \in Id /\ Protected(t)
      BY <2>2 DEF Told
    <3>2. OnDisk(t) # "none"
      BY <3>1, AckedOnDisk
    <3>3. Protected(t)'
      BY <2>1, <3>1, <3>2, ProtectedStep
    <3> QED BY <2>2, <3>1, <3>3 DEF Told, Protected
  <2>6. ASSUME NEW t \in Told' PROVE Outcome'[t] = "committed"
    <3>1. t \in acked' /\ t \in Id /\ Protected(t)'
      BY <2>2 DEF Told, Protected
    <3>2. PICK i \in 1..durable' : /\ file'[i].txn = t /\ file'[i].type = "COMMIT"
                                   /\ \A j \in (i + 1)..Len(file') : file'[j].txn # t
      BY <3>1 DEF IInv, FileInv, AckedFile
    <3>3. LogOK(file', trouble') /\ durable' \in 0..Len(file')
      BY DEF IInv, FileInv, Types
    <3>4. Loaded(SubSeq(file', 1, durable'), t) = "committed"
      BY <3>2, <3>3, LastCommit
    <3> QED BY <2>3, <3>1, <3>4 DEF OnDisk
  <2> QED BY <2>4, <2>5, <2>6 DEF Decision!Step, Outcome, Told
<1> QED BY <1>1, <1>2

-----------------------------------------------------------------------------
(* The theorems.                                                           *)

\* The log can be reopened and continued through any number of crashes and
\* restarts: read_all accepts what a crash leaves, LogManager's append puts every
\* record where a reader finds it, prev_lsn links the records of each
\* transaction, and the last_lsn of the Transaction objects agrees with it.
THEOREM LogIsSound == Spec => []LogSound
BY Invariance, ImpliesLogSound, PTL

\* A commit() that has returned survives every crash: its COMMIT is in the forced
\* part of the log, and every start loads the transaction as committed.
THEOREM CommitIsDurable == Spec => []CommitDurable
BY Invariance, ImpliesCommitDurable, PTL

\* No transaction both commits and aborts, and no id is begun twice: whether its
\* session, the error handler of ejecutar, close or recovery ends it.
THEOREM DecidedAtMostOnce == Spec => []DecidedOnce
BY Invariance, ImpliesDecidedOnce, PTL

\* TransactionManager.rollback undoes the newest change first.
THEOREM UndoGoesBackwards == Spec => []UndoBackwards
BY Invariance, ImpliesUndoBackwards, PTL

\* A rollback() that returns has written a CLR for each UPDATE of its
\* transaction, unless another thread logs under the transaction meanwhile.
THEOREM RollbackIsComplete == Spec => RollbackComplete
<1>1. IInv /\ [Next]_vars =>
        [trouble # "threads" => \A t \in Id :
           phase # "down" /\ status[t] = "active" /\ status'[t] = "aborted" =>
             LsnsOf(file, t, {"UPDATE"}) \subseteq Undone(t)]_vars
  BY RollbackStep
<1> QED BY <1>1, Invariance, PTL DEF Spec, RollbackComplete

\* The log and the transactions of the code, with crashes and restarts, implement
\* the abstract promise: each transaction is decided at most once, for ever, and
\* commit() returns only when the outcome on disk is "committed".
THEOREM OutcomeIsImplemented == Spec => ImplementsOutcome
<1>1. Init => Decision!Init
  BY InitOutcome
<1>2. IInv /\ IInv' /\ [Next]_vars =>
        [Decision!Step]_<<[t \in Id |-> IF Protected(t) THEN Loaded(SubSeq(file, 1, durable), t) ELSE "none"],
                         {t \in acked : Protected(t)}>>
  BY NextOutcome DEF Outcome, Told
<1> QED BY <1>1, <1>2, Invariance, PTL DEF Spec, ImplementsOutcome, Decision!Spec
=============================================================================
