---------------------------- MODULE AllOrNothing ----------------------------
(***************************************************************************)
(* What an installation promises about the set of files it has to change:   *)
(* it reports "applied" only when every change stands and "undone" only     *)
(* when none does; changes are made first, then perhaps taken back, never   *)
(* mixed; a report is final.                                               *)
(***************************************************************************)

CONSTANT Item   \* the files an installation may change

VARIABLES
    due,       \* the files it has decided to change
    net,       \* those whose change stands
    verdict    \* what it is doing, or what it has reported

Idle == due = {} /\ net = {} /\ verdict = "idle"

Decide ==
    /\ verdict = "idle"
    /\ due' \in SUBSET Item
    /\ verdict' = "open"
    /\ UNCHANGED net

Change(f) ==
    /\ verdict = "open"
    /\ f \in due \ net
    /\ net' = net \union {f}
    /\ UNCHANGED <<due, verdict>>

\* A refusal, or the first failure.
Withdraw ==
    /\ verdict = "open"
    /\ verdict' = "undoing"
    /\ UNCHANGED <<due, net>>

Undo(f) ==
    /\ verdict = "undoing"
    /\ f \in net
    /\ net' = net \ {f}
    /\ UNCHANGED <<due, verdict>>

Report ==
    /\ verdict \in {"open", "undoing"}
    /\ \/ verdict = "open" /\ net = due /\ verdict' = "applied"
       \/ verdict = "undoing" /\ net = {} /\ verdict' = "undone"
       \/ net # {} /\ verdict' = "incomplete"
    /\ UNCHANGED <<due, net>>

\* The process dies, or is interrupted, wherever it is.
Vanish ==
    /\ verdict \in {"open", "undoing"}
    /\ verdict' = "dead"
    /\ UNCHANGED <<due, net>>

Act ==
    \/ Decide
    \/ \E f \in Item : Change(f) \/ Undo(f)
    \/ Withdraw
    \/ Report
    \/ Vanish

Promise == Idle /\ [][Act]_<<due, net, verdict>>

=============================================================================
