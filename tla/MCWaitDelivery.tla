--------------------------- MODULE MCWaitDelivery ---------------------------
(* Small instances of the processes around the wait registry for TLC. *)
EXTENDS WaitDelivery, TLC

Outcomes == {"passed"}

Results == Outcomes \union {"error", "timeout"}

Events == {"terminal"}

\* Each record is about a target of its own.
OwnTarget == [w \in Wait |-> w]

\* Watchers are interchangeable in the safety runs.
Symmetry == Permutations(Watcher)

=============================================================================
