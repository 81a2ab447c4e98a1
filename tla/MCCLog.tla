-------------------------------- MODULE MCCLog --------------------------------
(***************************************************************************)
(* Model checking CLog: symmetry of the appenders and the memory bound of  *)
(* the buffer.                                                             *)
(***************************************************************************)
EXTENDS CLog, TLC

LOCAL INSTANCE Functions

Symmetry == Permutations(Appenders)

\* The bytes the entries in the buffer really take.
BufferBytes == FoldFunction(LAMBDA x, y : x + y, 0,
                  [i \in 1..Len(entries) |-> HeaderSize + entries[i].size])

\* The comment on LogEntryBuffer::append: since only an entry that is itself large
\* escapes the control, the buffer holds 2 * max_bytes_ at most.
BufferBounded == BufferBytes <= 2 * MaxBytes
=============================================================================
