-------------------------- MODULE MCBufferManager --------------------------
(* Small instances of BufferManager: three pages in two files, and a pool   *)
(* of two frames.                                                           *)
EXTENDS BufferManager, TLC

CONSTANTS m1, m2

ThreePages == m1 :> 2 @@ m2 :> 1
=============================================================================
