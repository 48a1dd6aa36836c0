----------------------------- MODULE MCAsyncJob -----------------------------
(* The job is small enough to be checked as it is. *)
EXTENDS AsyncJob

=============================================================================
