---------------------------- MODULE MCBufferPool ----------------------------
(***************************************************************************)
(* Model checking BufferPool: two files, two threads, and so few frames    *)
(* that pages are evicted.                                                 *)
(***************************************************************************)
EXTENDS BufferPool, TLC

\* The first file was used before and is as long as it can be, the second is new.
Count == <<3, 1>>
Bits  == <<{1, 2}, {}>>

Symmetry == Permutations(Threads)
=============================================================================
