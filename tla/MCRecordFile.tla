---------------------------- MODULE MCRecordFile ----------------------------
(***************************************************************************)
(* Model checking RecordFile: two threads, pages of two records.           *)
(***************************************************************************)
EXTENDS RecordFile, TLC

Symmetry == Permutations(Threads)
=============================================================================
