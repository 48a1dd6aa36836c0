--------------------------- MODULE MCWatcherRepair ---------------------------
(* The small instance of watcher repair for TLC. *)
EXTENDS WatcherRepair

=============================================================================
