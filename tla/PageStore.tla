----------------------------- MODULE PageStore -----------------------------
(***************************************************************************)
(* What a buffer pool promises, without frames: files of pages, each with  *)
(* the image that its last change made.  Only a change by a caller and the *)
(* undo of one alter an image; loading, evicting, flushing and closing     *)
(* never do.  Of a page that was just added to a file, or to which an undo *)
(* was applied, the pool may keep an image from before: what it contains   *)
(* is Unknown until it is settled by a change or by leaving the pool.      *)
(* BufferManager implements this.                                          *)
(***************************************************************************)
EXTENDS Integers, FiniteSets

CONSTANTS Manager, Key, MaxChanges, Gone, Unknown

VARIABLES
  pages,    \* the image of each page; Gone if the file is not that long
  next,     \* the image that the next change makes
  undoing   \* where a rollback is in its records

Image == 0..MaxChanges

Init == pages = [k \in Key |-> 0] /\ next = 1 /\ undoing = 0

Write(k) ==
  /\ pages[k] # Gone
  /\ pages' = [pages EXCEPT ![k] = next]
  /\ next' = next + 1
  /\ UNCHANGED undoing

Grow(k) ==
  /\ pages[k] = Gone
  /\ \E v \in Image \cup {Unknown} : pages' = [pages EXCEPT ![k] = v]
  /\ UNCHANGED <<next, undoing>>

\* What is known stays; what is not may become known.
Settle ==
  /\ UNCHANGED <<next, undoing>>
  /\ DOMAIN pages' = Key
  /\ \A k \in Key : IF pages[k] = Unknown THEN pages'[k] \in Image \cup {Gone, Unknown}
                   ELSE pages'[k] = pages[k]

Shrink(m, n) ==
  /\ pages' = [k \in Key |-> IF k[1] = m /\ k[2] >= n THEN Gone ELSE pages[k]]
  /\ UNCHANGED <<next, undoing>>

\* A file starts again with one page of zeros.
Renew(m) ==
  /\ pages' = [k \in Key |-> IF k[1] # m THEN pages[k] ELSE IF k[2] = 0 THEN 0 ELSE Gone]
  /\ UNCHANGED <<next, undoing>>

\* A rollback step gives a page an image it had, at once or for later.
Undo(k) ==
  /\ undoing' # undoing
  /\ \E v \in 0..(next - 1) \cup {Unknown, pages[k]} : pages' = [pages EXCEPT ![k] = v]
  /\ UNCHANGED next

StartUndo == undoing = 0 /\ undoing' \in Nat \ {0} /\ UNCHANGED <<pages, next>>

Next ==
  \/ Settle
  \/ \E k \in Key : Write(k) \/ Grow(k) \/ Undo(k)
  \/ \E m \in Manager : Renew(m) \/ \E n \in 1..Cardinality(Key) : Shrink(m, n)
  \/ StartUndo

Spec == Init /\ [][Next]_<<pages, next, undoing>>
=============================================================================
