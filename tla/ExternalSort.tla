---------------------------- MODULE ExternalSort ----------------------------
(***************************************************************************)
(* ExternalSorter of src/indexes/external_sort.py, which ORDER BY uses:    *)
(* sorted runs of a bounded number of items on disk, merged with a heap.   *)
(* A run is sorted by the values of the keys, the heap compares the bytes  *)
(* that the keys are encoded as, so several encodings of equal values (the *)
(* two zeros of a FLOAT) come out of a run in any order.                   *)
(*                                                                         *)
(* A key is a number for its bytes, in the order of the bytes.             *)
(***************************************************************************)
EXTENDS Integers, Sequences, FiniteSets, SequencesExt

CONSTANTS
  Code,       \* keys, as bytes
  ValueOf,    \* the value that a key decodes to, by key
  Budget,     \* budget: items of a run
  MaxItems    \* bound: items to be sorted

ASSUME SortAssumption == Budget \in Nat \ {0} /\ MaxItems \in Nat

\* encode_key keeps the order of the values (of all but NaN, which has no place in an
\* order), though several encodings may have one value.
ASSUME EncodingAssumption == /\ Code \subseteq Int /\ ValueOf \in [Code -> Int]
                             /\ \A c, d \in Code : c <= d => ValueOf[c] <= ValueOf[d]

VARIABLES
  input,      \* the keys of the items in the order in which they come
  reverse,
  taken,      \* items that have been asked for
  buffer,     \* items in memory
  runs,       \* the files: what is left of each run, which is not removed yet
  merging,    \* the entries of the heap: at most one of each run
  stage,      \* "fill", "memory", "merge" or "done"
  output      \* items handed out

sortVars == <<input, reverse, taken, buffer, runs, merging, stage, output>>

\* An item is its key and its place in the input, which stands for the row.
Item(i)     == <<input[i], i>>
Value(x)    == ValueOf[x[1]]
Precedes(a, b) == IF reverse THEN b < a ELSE a < b

\* list.sort(key, reverse): equal keys stay as they came, in both directions.
SortedItems(s) ==
  LET ahead(i, j) == Precedes(Value(s[i]), Value(s[j])) \/ (Value(s[i]) = Value(s[j]) /\ i < j)
      place(i)    == Cardinality({j \in DOMAIN s : ahead(j, i)}) + 1
  IN  [k \in DOMAIN s |-> s[CHOOSE i \in DOMAIN s : place(i) = k]]

-----------------------------------------------------------------------------
(* Steps of sort, which is a generator: between two of them its consumer    *)
(* may stop.                                                               *)

\* _drop_runs: streams are closed and every file is removed.
DropRuns == runs' = <<>> /\ merging' = {} /\ buffer' = <<>> /\ stage' = "done"

\* An item comes, and with the last one of the budget a run is written.
Take ==
  /\ stage = "fill" /\ taken < Len(input)
  /\ taken' = taken + 1
  /\ LET full == Append(buffer, Item(taken + 1)) IN
       IF Len(full) >= Budget THEN runs' = Append(runs, SortedItems(full)) /\ buffer' = <<>>
       ELSE runs' = runs /\ buffer' = full
  /\ UNCHANGED <<input, reverse, merging, stage, output>>

\* There are no more items, and there was no run: the buffer is handed out.
InMemory ==
  /\ stage = "fill" /\ taken = Len(input) /\ runs = <<>>
  /\ IF buffer = <<>> THEN DropRuns
     ELSE buffer' = SortedItems(buffer) /\ stage' = "memory" /\ UNCHANGED <<runs, merging>>
  /\ UNCHANGED <<input, reverse, taken, output>>

\* What is left becomes the last run, and the first entry of each goes to the heap.
StartMerge ==
  /\ stage = "fill" /\ taken = Len(input) /\ runs # <<>>
  /\ LET all == IF buffer = <<>> THEN runs ELSE Append(runs, SortedItems(buffer)) IN
       /\ merging' = {[item |-> all[i][1], seq |-> 0, run |-> i] : i \in DOMAIN all}
       /\ runs' = [i \in DOMAIN all |-> Tail(all[i])]
  /\ buffer' = <<>> /\ stage' = "merge"
  /\ UNCHANGED <<input, reverse, taken, output>>

\* Mutant of Least: the heap compares the bytes as they are, reversed or not.
LeastForward(e) == \A f \in merging : e.item[1] <= f.item[1]

\* The heap compares bytes, then places in runs, then runs; _ReverseKey has no
\* equality, so that reversed any of the entries with the greatest bytes comes.
Least(e) ==
  IF reverse THEN \A f \in merging : f.item[1] <= e.item[1]
  ELSE \A f \in merging \ {e} :
         \/ e.item[1] < f.item[1]
         \/ e.item[1] = f.item[1] /\ (e.seq < f.seq \/ (e.seq = f.seq /\ e.run < f.run))

\* The least entry is handed out, and the next one of its run is read.
Merge ==
  /\ stage = "merge" /\ merging # {}
  /\ \E e \in {x \in merging : Least(x)} :
       /\ output' = Append(output, e.item)
       /\ IF runs[e.run] = <<>> THEN merging' = merging \ {e} /\ UNCHANGED runs
          ELSE /\ merging' = (merging \ {e}) \cup {[item |-> Head(runs[e.run]), seq |-> e.seq + 1, run |-> e.run]}
               /\ runs' = [runs EXCEPT ![e.run] = Tail(@)]
  /\ UNCHANGED <<input, reverse, taken, buffer, stage>>

FromMemory ==
  /\ stage = "memory" /\ buffer # <<>>
  /\ output' = Append(output, Head(buffer)) /\ buffer' = Tail(buffer)
  /\ UNCHANGED <<input, reverse, taken, runs, merging, stage>>

\* The last item is out; or the consumer has enough (LIMIT), or a row cannot be
\* read or encoded, at any point. The generator's finally removes the runs.
Finish ==
  /\ stage # "done" /\ ~ (stage = "fill" /\ taken = Len(input) /\ runs = <<>> /\ buffer = <<>>)
  /\ DropRuns
  /\ UNCHANGED <<input, reverse, taken, output>>

SortInit ==
  /\ input \in UNION {[1..n -> Code] : n \in 0..MaxItems} /\ reverse \in BOOLEAN
  /\ taken = 0 /\ buffer = <<>> /\ runs = <<>> /\ merging = {} /\ stage = "fill" /\ output = <<>>

SortNext == Take \/ InMemory \/ StartMerge \/ Merge \/ FromMemory \/ Finish
SortSpec == SortInit /\ [][SortNext]_sortVars

-----------------------------------------------------------------------------
(* Properties.                                                             *)

InRuns    == (UNION {ToSet(runs[i]) : i \in DOMAIN runs}) \cup {e.item : e \in merging}
Remaining == ToSet(buffer) \cup InRuns

\* No more than the budget is in memory, with one entry of each run, and the heap
\* holds the next entry of each run that has one: no item is lost or doubled.
TypeOK ==
  /\ Len(buffer) <= Budget
  /\ \A e, f \in merging : e.run = f.run => e = f
  /\ stage = "merge" => \A i \in DOMAIN runs : runs[i] # <<>> => \E e \in merging : e.run = i
  /\ IsInjective(output)
  /\ stage # "done" => /\ ToSet(output) \cap Remaining = {}
                       /\ ToSet(output) \cup Remaining = {Item(i) : i \in 1..taken}

\* What has been handed out is in order, and nothing that is still to come belongs
\* before it: the first k rows are the k first, whenever the consumer stops, though
\* the runs need not be in the order of the bytes that the heap compares.
PrefixInOrder ==
  /\ \A i, j \in DOMAIN output : i < j => ~ Precedes(Value(output[j]), Value(output[i]))
  /\ stage # "done" => \A i \in DOMAIN output : \A x \in Remaining : ~ Precedes(Value(x), Value(output[i]))

\* No row is lost, and what comes out is in order, whenever it is stopped.
SortExact == TypeOK /\ PrefixInOrder
=============================================================================
