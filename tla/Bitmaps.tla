------------------------------ MODULE Bitmaps ------------------------------
(***************************************************************************)
(* The bitmaps of src/indexes/bitmap_index.py: sets of row ids, kept as one*)
(* chunk of bytes for each heap page that has a row, with a count of rows. *)
(* The executor intersects and unites them to answer conditions over       *)
(* several columns; the index stores their encoding.                       *)
(*                                                                         *)
(* A byte is the set of its bits that are one.  SLOTS_PER_PAGE is          *)
(* ChunkBytes * ByteBits; adding a slot beyond that raises.                *)
(***************************************************************************)
EXTENDS Integers, Sequences, FiniteSets, FiniteSetsExt, SequencesExt, Functions

CONSTANTS
  HeapPage,      \* numbers of heap pages
  ChunkBytes,    \* CHUNK_BYTES
  ByteBits,      \* bits of a byte
  MaxRows        \* bound: rows in one bitmap

VARIABLES left, right    \* two bitmaps: [chunks, n]

vars == <<left, right>>

Bytes  == 0..(ChunkBytes - 1)
Slots  == 0..(ChunkBytes * ByteBits - 1)
RowIds == HeapPage \X Slots
Zeros  == [b \in Bytes |-> {}]
Empty  == [chunks |-> [p \in {} |-> Zeros], n |-> 0]

Popcount(chunk) == MapThenSumSet(LAMBDA b : Cardinality(chunk[b]), Bytes)
Byte(slot)      == slot \div ByteBits
Bit(slot)       == slot % ByteBits
ChunkOf(m, p)   == IF p \in DOMAIN m.chunks THEN m.chunks[p] ELSE Zeros

\* A bitmap of chunks with their number of rows; With keeps what is not empty.
Counted(chunks) == [chunks |-> chunks, n |-> MapThenSumSet(LAMBDA p : Popcount(chunks[p]), DOMAIN chunks)]
With(chunks) == Counted([p \in {q \in DOMAIN chunks : chunks[q] # Zeros} |-> chunks[p]])

\* rids and __contains__.
Rids(m)    == {r \in RowIds : r[1] \in DOMAIN m.chunks /\ Bit(r[2]) \in m.chunks[r[1]][Byte(r[2])]}
Has(m, r)  == r \in Rids(m)

AddAt(m, p, slot) ==
  IF Has(m, <<p, slot>>) THEN m
  ELSE [chunks |-> [q \in DOMAIN m.chunks \cup {p} |->
                      IF q = p THEN [ChunkOf(m, p) EXCEPT ![Byte(slot)] = @ \cup {Bit(slot)}]
                      ELSE m.chunks[q]],
        n |-> m.n + 1]

\* The last row of a page takes the chunk along.
DiscardAt(m, p, slot) ==
  LET chunk == [m.chunks[p] EXCEPT ![Byte(slot)] = @ \ {Bit(slot)}] IN
  IF ~ Has(m, <<p, slot>>) THEN m
  ELSE [chunks |-> [q \in IF chunk = Zeros THEN DOMAIN m.chunks \ {p} ELSE DOMAIN m.chunks |->
                      IF q = p THEN chunk ELSE m.chunks[q]],
        n |-> m.n - 1]

-----------------------------------------------------------------------------
(* Combinations, chunk by chunk.                                           *)

\* The pages of the bitmap with fewer rows are gone through.
Intersect(m, o) ==
  LET small == IF m.n > o.n THEN o ELSE m
      large == IF m.n > o.n THEN m ELSE o
      both(p) == [b \in Bytes |-> small.chunks[p][b] \cap large.chunks[p][b]]
  IN  With([p \in DOMAIN small.chunks \cap DOMAIN large.chunks |-> both(p)])

Union(m, o) ==
  LET either(p) == [b \in Bytes |-> ChunkOf(m, p)[b] \cup ChunkOf(o, p)[b]] IN
  Counted([p \in DOMAIN m.chunks \cup DOMAIN o.chunks |-> either(p)])

\* Mutant of Difference: a page that the other has not is left out.
DifferenceShared(m, o) ==
  LET only(p) == [b \in Bytes |-> m.chunks[p][b] \ ChunkOf(o, p)[b]] IN
  With([p \in DOMAIN m.chunks \cap DOMAIN o.chunks |-> only(p)])

Difference(m, o) ==
  LET only(p) == [b \in Bytes |-> m.chunks[p][b] \ ChunkOf(o, p)[b]] IN
  With([p \in DOMAIN m.chunks |-> only(p)])

-----------------------------------------------------------------------------
(* encode and decode: <<page, length, bytes>>, without zeros at the end.   *)

Length(chunk) == LET used == {b \in Bytes : chunk[b] # {}} IN IF used = {} THEN 0 ELSE Max(used) + 1

Encode(m) ==
  LET part(p) == <<p, Length(m.chunks[p]), [b \in 1..Length(m.chunks[p]) |-> m.chunks[p][b - 1]]>>
      pages == {p \in DOMAIN m.chunks : Length(m.chunks[p]) > 0}
  IN  [i \in 1..Cardinality(pages) |-> part(SetToSortSeq(pages, <)[i])]

Decode(data) ==
  LET pages == {data[i][1] : i \in DOMAIN data}
      chunk(p) == LET d == CHOOSE d \in Range(data) : d[1] = p
                  IN  [b \in Bytes |-> IF b < d[2] THEN d[3][b + 1] ELSE {}]
  IN  Counted([p \in pages |-> chunk(p)])

-----------------------------------------------------------------------------

Add(p, slot) ==
  /\ left.n < MaxRows
  /\ left' = AddAt(left, p, slot) /\ UNCHANGED right

Discard(p, slot) == left' = DiscardAt(left, p, slot) /\ UNCHANGED right

\* The executor combines two bitmaps that it has read from the index.
Combine ==
  /\ left' \in {Intersect(left, right), Union(left, right), Difference(left, right)}
  /\ left'.n <= MaxRows
  /\ UNCHANGED right

Store == left' = right /\ right' = Decode(Encode(left))

Init == left = Empty /\ right = Empty
Next ==
  \/ \E p \in HeapPage, slot \in Slots : Add(p, slot) \/ Discard(p, slot)
  \/ Combine
  \/ Store

Spec == Init /\ [][Next]_vars

-----------------------------------------------------------------------------
(* Properties.                                                             *)

\* The form of a bitmap: no empty chunk, the count is that of its rows.  Two
\* bitmaps of the same rows are equal, as __eq__ and the tests take for granted.
Canonical ==
  \A m \in {left, right} :
    /\ \A p \in DOMAIN m.chunks : m.chunks[p] # Zeros
    /\ m.n = Cardinality(Rids(m))

\* intersect, union and difference answer with the rows of the sets, in the
\* canonical form, whichever of the two has more rows or pages.
Algebra ==
  \A m \in {left}, o \in {right} :
    /\ Rids(Intersect(m, o))  = Rids(m) \cap Rids(o)
    /\ Rids(Union(m, o))      = Rids(m) \cup Rids(o)
    /\ Rids(Difference(m, o)) = Rids(m) \ Rids(o)

\* A bitmap comes back from its encoding as it was stored, also with bytes of
\* zeros before the last one that is used.
RoundTrip == \A m \in {left, right} : Decode(Encode(m)) = m
=============================================================================
