-------------------------------- MODULE MCMvcc --------------------------------
(***************************************************************************)
(* Model checking MvccTrx: the sessions are interchangeable.               *)
(***************************************************************************)
EXTENDS MvccTrx, TLC

Symmetry == Permutations(Sessions)
=============================================================================
