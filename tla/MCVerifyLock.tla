---------------------------- MODULE MCVerifyLock ----------------------------
(* Small instances of the verifier lock for TLC. *)
EXTENDS VerifyLock, TLC

\* States of the repository are interchangeable, and so are verifiers.
Symmetry == Permutations(Tree) \union Permutations(Proc \ Forced)

=============================================================================
