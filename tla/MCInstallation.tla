--------------------------- MODULE MCInstallation ---------------------------
(* Every installer, with one version of the user's and one edit of it. *)
EXTENDS Installation, TLC

AllKinds == {"hooks", "init", "setup", "skill"}

=============================================================================
