---------------------------- MODULE MCRecordLock ----------------------------
(* Small instances of the record lock for TLC. *)
EXTENDS RecordLock, TLC

\* Processes are interchangeable in the safety runs.
Symmetry == Permutations(Proc)

=============================================================================
