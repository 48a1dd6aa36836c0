--------------------------- MODULE MCRunArtifacts ---------------------------
(* Three runs over three states: two on one commit whose configurations      *)
(* select different checks, and one on another commit.                      *)
EXTENDS RunArtifacts, TLC

CONSTANTS r1, r2, r3, t1, t2, t3

Runs == {r1, r2, r3}
Trees == {t1, t2, t3}
Names == <<"test", "lint", "types">>
Heads == t1 :> 1 @@ t2 :> 1 @@ t3 :> 2
Chosen == t1 :> {"test", "lint"} @@ t2 :> {"test", "types"} @@ t3 :> {"test", "lint"}
Testing == {"test"}
Symmetry == Permutations(Runs)

=============================================================================
