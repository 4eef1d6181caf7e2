---------------------------- MODULE ExternalHash ----------------------------
(***************************************************************************)
(* ExternalHasher of src/indexes/external_hash.py, which JOIN and GROUP BY *)
(* use: the items are dealt to files by a hash of the bytes of their keys, *)
(* and the files joined or grouped one after the other with a dictionary,  *)
(* which compares the values of the keys.                                  *)
(***************************************************************************)
EXTENDS Integers, Sequences, FiniteSets, SequencesExt, FiniteSetsExt

CONSTANTS
  Code,       \* keys, as bytes
  ValueOf,    \* the value that a key decodes to, by key
  NumBuckets, \* num_buckets
  MaxItems    \* bound: items on both sides together

ASSUME HashAssumption == NumBuckets \in Nat \ {0} /\ MaxItems \in Nat

VARIABLES
  hash,       \* _hash_bytes % num_buckets, by key: any function
  grouping,   \* whether it is group_by that runs, or hash_join
  left, right, \* the items: each side a sequence of keys
  dealt,      \* items dealt so far, of both sides
  files,      \* [left, right]: the items in the file of each bucket, in order
  bucket,     \* the bucket at work, or -1 before partition ends
  table,      \* the dictionary: the items with each value, in order
  output      \* what has been handed out

vars == <<hash, grouping, left, right, dealt, files, bucket, table, output>>

Bucket == 0..NumBuckets - 1
Value(x) == ValueOf[x[1]]

\* An item is its key and its place, which stands for the row.
Items == [i \in DOMAIN left |-> <<left[i], i>>] \o [i \in DOMAIN right |-> <<right[i], Len(left) + i>>]
Lefts  == {Items[i] : i \in DOMAIN left}
Rights == {Items[Len(left) + i] : i \in DOMAIN right}

-----------------------------------------------------------------------------
\* partition: an item goes to the file of its bucket, first those of the left.
Deal ==
  /\ bucket = -1 /\ dealt < Len(Items)
  /\ dealt' = dealt + 1
  /\ LET x    == Items[dealt + 1]
         side == IF dealt < Len(left) THEN "left" ELSE "right"
     IN  files' = [files EXCEPT ![side][hash[x[1]]] = Append(@, x)]
  /\ UNCHANGED <<hash, grouping, left, right, bucket, table, output>>

Start ==
  /\ bucket = -1 /\ dealt = Len(Items)
  /\ bucket' = 0
  /\ UNCHANGED <<hash, grouping, left, right, dealt, files, table, output>>

\* The next item of the left file of the bucket: setdefault and append, or the
\* accumulator of its group.
Build ==
  /\ bucket \in Bucket /\ files.left[bucket] # <<>>
  /\ LET x == Head(files.left[bucket]) IN table' = [table EXCEPT ![Value(x)] = Append(@, x)]
  /\ files' = [files EXCEPT !.left[bucket] = Tail(@)]
  /\ UNCHANGED <<hash, grouping, left, right, dealt, bucket, output>>

\* The next item of the right file, with each item of its value on the left.
Probe ==
  /\ bucket \in Bucket /\ ~ grouping /\ files.left[bucket] = <<>> /\ files.right[bucket] # <<>>
  /\ LET x == Head(files.right[bucket]) IN
       output' = output \o [i \in DOMAIN table[Value(x)] |-> <<table[Value(x)][i], x>>]
  /\ files' = [files EXCEPT !.right[bucket] = Tail(@)]
  /\ UNCHANGED <<hash, grouping, left, right, dealt, bucket, table>>

\* Mutant of Emptied: the dictionary of one bucket is there for the next.
EmptiedNot == table

\* build and grupos are new for each bucket.
Emptied == [v \in DOMAIN table |-> <<>>]

\* The bucket is done: its groups are handed out, and the next one begins.
NextBucket ==
  /\ bucket \in Bucket /\ files.left[bucket] = <<>> /\ (grouping \/ files.right[bucket] = <<>>)
  /\ output' = IF grouping THEN output \o SetToSeq({ToSet(table[v]) : v \in DOMAIN table} \ {{}}) ELSE output
  /\ bucket' = bucket + 1 /\ table' = Emptied
  /\ UNCHANGED <<hash, grouping, left, right, dealt, files>>

Init ==
  /\ hash \in [Code -> Bucket] /\ grouping \in BOOLEAN
  /\ \E n \in 0..MaxItems : \E m \in 0..MaxItems - n :
       left \in [1..n -> Code] /\ right \in [1..m -> Code] /\ (grouping => m = 0)
  /\ dealt = 0 /\ bucket = -1 /\ output = <<>>
  /\ files = [left |-> [b \in Bucket |-> <<>>], right |-> [b \in Bucket |-> <<>>]]
  /\ table = [v \in {ValueOf[c] : c \in Code} |-> <<>>]

Next == Deal \/ Start \/ Build \/ Probe \/ NextBucket
Spec == Init /\ [][Next]_vars

-----------------------------------------------------------------------------
(* Properties.                                                             *)

Ended == bucket = NumBuckets

\* Whatever the hash function does, a join hands out the pairs of rows with equal
\* keys, each once, and never another pair.
JoinExact ==
  ~ grouping => /\ IsInjective(output)
                /\ \A p \in ToSet(output) : p \in Lefts \X Rights /\ Value(p[1]) = Value(p[2])
                /\ Ended => Cardinality(ToSet(output))
                              = Cardinality({p \in Lefts \X Rights : Value(p[1]) = Value(p[2])})

\* GROUP BY hands out one group for each key, with all of its rows.
GroupsExact ==
  grouping /\ Ended =>
    /\ IsInjective(output)
    /\ ToSet(output) = {{x \in Lefts : Value(x) = v} : v \in {Value(x) : x \in Lefts}}

\* JOIN hands out every pair once and GROUP BY every group once.
HashExact == JoinExact /\ GroupsExact
=============================================================================
