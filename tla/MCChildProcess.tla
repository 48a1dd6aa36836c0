--------------------------- MODULE MCChildProcess ---------------------------
(* All four runners, with descendants that are interchangeable. *)
EXTENDS ChildProcess, TLC

AllRunners == {"mcp", "docsync", "attention", "command"}
Command == {"command"}

=============================================================================
