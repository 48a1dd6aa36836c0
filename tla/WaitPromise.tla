----------------------------- MODULE WaitPromise -----------------------------
(***************************************************************************)
(* What the durable-wait registry promises to its clients about one wait:   *)
(* the terminal result is decided once and never replaced, and at most one  *)
(* automatic notification is ever attempted; an attempt that has ended, or  *)
(* was given up before it began, is not repeated.                           *)
(***************************************************************************)
CONSTANTS
    Wait,       \* wait records
    Result,     \* terminal results
    NoResult    \* "not decided yet"

VARIABLES
    outcome,    \* the terminal result of each wait
    attempt     \* the one notification attempt: "none", "running", "over"

promiseVars == <<outcome, attempt>>

Init ==
    /\ outcome = [w \in Wait |-> NoResult]
    /\ attempt = [w \in Wait |-> "none"]

\* The target's result, a query error or the deadline decides the wait.
Decide(w, r) ==
    /\ outcome[w] = NoResult
    /\ attempt[w] = "none"
    /\ outcome' = [outcome EXCEPT ![w] = r]
    /\ UNCHANGED attempt

\* One notifier gets the right to notify, of a decided wait only.
Begin(w) ==
    /\ outcome[w] # NoResult
    /\ attempt[w] = "none"
    /\ attempt' = [attempt EXCEPT ![w] = "running"]
    /\ UNCHANGED outcome

\* The attempt ends, or the wait is closed without one.
End(w) ==
    /\ attempt[w] \in {"none", "running"}
    /\ attempt' = [attempt EXCEPT ![w] = "over"]
    /\ UNCHANGED outcome

Next ==
    \E w \in Wait : Begin(w) \/ End(w) \/ \E r \in Result : Decide(w, r)

Spec == Init /\ [][Next]_promiseVars

=============================================================================
