--------------------------------- MODULE MCDwb ---------------------------------
(***************************************************************************)
(* Model checking DoubleWriteBuffer.                                       *)
(***************************************************************************)
EXTENDS DoubleWriteBuffer

\* One page more than the buffer holds, and a close that has several to write.
Numbers == 0..MaxPages
=============================================================================
