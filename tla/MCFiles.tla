------------------------------ MODULE MCFiles -------------------------------
(* The heap file and the sequential table, each on its own small instance. *)
(* An initial state chooses one of them, and only that one takes steps.    *)
EXTENDS HeapFile, TLC

CONSTANTS
  Parts,     \* bound: what is explored
  one, two,  \* heap: rows of one and of two units
  Key, Val, Fresh, Stays, MaxStatement, Emptied, Moving   \* sequential table

VARIABLES part, file, indexed, index, tableRows, wrong

tableVars == <<file, indexed, index, tableRows, wrong>>

SizeOf == one :> 1 @@ two :> 2

S == INSTANCE SequentialTable WITH
       rows <- tableRows,
       PageCap <- 2, MinRecords <- 4, MaxPages <- 5, MaxRecords <- 7

FilesInit == part \in Parts /\ Init /\ S!Init /\ (part # "sequential" => ~ indexed)

FilesNext ==
  \/ part = "heap"       /\ Next   /\ UNCHANGED <<part, tableVars>>
  \/ part = "sequential" /\ S!Next /\ UNCHANGED <<part, vars>>

FilesSpec == FilesInit /\ [][FilesNext]_<<part, vars, tableVars>>

-----------------------------------------------------------------------------
(* The properties of the sequential table, by name.                        *)

\* Sequential: counters, pages and links agree, and searches find what a scan lists.
SequentialSound == S!TypeOK /\ S!ChainOrdered /\ S!SearchMatchesScan

\* Sequential: the index answers every live row with a value where it now is, once.
IndexExact == S!IndexExact

\* Sequential: a statement changes the rows that its condition holds for, no others.
StatementExact == S!StatementExact
=============================================================================
