---------------------------- MODULE WaitRegistry ----------------------------
(***************************************************************************)
(* The durable-wait registry (agent_waits/registry.py, notifications.py):   *)
(* one JSON record per wait and the transitions that any process may run on *)
(* it.  Every transition re-reads the record under the record's lock and    *)
(* writes it back before it lets go, so it is one step here; RecordLock     *)
(* says when that is so.  Who calls what, and when, is not constrained:     *)
(* WaitDelivery adds the processes.  Registering takes no lock: looking for *)
(* a record of the same target and writing a new one are two steps.         *)
(*                                                                         *)
(* updated_at and deadline_at become the ticks since the last write and the *)
(* ticks to the deadline, each saturating where the code stops telling      *)
(* values apart.                                                            *)
(***************************************************************************)
EXTENDS Integers

CONSTANTS
    Wait,          \* wait records (their ids)
    Identity,      \* what is waited for: kind, target, repository, commit
    IdentityOf,    \* the identity of each record
    RepoWaits,     \* waits whose heartbeat_mode is "repo"
    Result,        \* terminal results: the target's, an error, a timeout
    NoResult,      \* terminal_result is still empty
    Event,         \* lifecycle events claimed once per wait
    Timeout,       \* timeout_seconds in ticks
    NotifyLease,   \* lease of a notification claim in ticks
    ReadyTTL,      \* ready_older_than_seconds of the cleanup in ticks
    MaxAge         \* bound: the greatest age told apart

ASSUME RegistryAssumption ==
    /\ IdentityOf \in [Wait -> Identity]
    /\ RepoWaits \subseteq Wait
    /\ NoResult \notin Result
    /\ "terminal" \in Event
    /\ Timeout \in Nat
    /\ NotifyLease \in Nat
    /\ ReadyTTL \in Nat
    /\ MaxAge \in Nat
    /\ NotifyLease =< MaxAge
    /\ ReadyTTL =< MaxAge

VARIABLES
    status,     \* status of each record; "absent": not registered
    result,     \* terminal_result
    notified,   \* heartbeat_notified_at is present
    observed,   \* the events whose observation is claimed
    age,        \* ticks since updated_at
    left,       \* ticks to deadline_at
    looked,     \* new records whose registration has looked and not yet written
    crossed     \* history: records whose registration looked between the look
                \* and the write of another of the same identity

registerVars == <<looked, crossed>>
recordVars == <<status, result, notified, observed, age, left, registerVars>>

Statuses == {"absent", "pending", "ready", "notifying", "notify_failed",
             "resumed", "expired"}

TypeOK ==
    /\ status \in [Wait -> Statuses]
    /\ result \in [Wait -> Result \union {NoResult}]
    /\ notified \in [Wait -> BOOLEAN]
    /\ observed \in [Wait -> SUBSET Event]
    /\ age \in [Wait -> 0..MaxAge]
    /\ left \in [Wait -> 0..Timeout]
    /\ looked \subseteq Wait
    /\ crossed \subseteq Wait

Init ==
    /\ status = [w \in Wait |-> "absent"]
    /\ result = [w \in Wait |-> NoResult]
    /\ notified = [w \in Wait |-> FALSE]
    /\ observed = [w \in Wait |-> {}]
    /\ age = [w \in Wait |-> 0]
    /\ left = [w \in Wait |-> 0]
    /\ looked = {}
    /\ crossed = {}

\* The record has terminal continuation content.
Ready(w) == status[w] \in {"ready", "notify_failed"}

\* Every write but an observation claim renews updated_at.
Touch(w) == age' = [age EXCEPT ![w] = 0]

\* The records that a repeated registration returns instead of a new one.
ActiveStatuses == {"pending", "ready", "notifying", "notify_failed"}

\* Other records of what w waits for.
Rivals(w) == {v \in Wait \ {w} : IdentityOf[v] = IdentityOf[w]}

\* register looks for an active record of the same identity; if there is one
\* it returns that and nothing changes.
LookForRecord(w) ==
    /\ status[w] = "absent" /\ w \notin looked
    /\ \A v \in Rivals(w) : status[v] \notin ActiveStatuses
    /\ looked' = looked \union {w}
    /\ crossed' = IF Rivals(w) \intersect looked # {}
                  THEN crossed \union {w} ELSE crossed
    /\ UNCHANGED <<status, result, notified, observed, age, left>>

\* A new record is written, whatever has been written since the look.
Register(w) ==
    /\ status[w] = "absent" /\ w \in looked
    /\ looked' = looked \ {w}
    /\ status' = [status EXCEPT ![w] = "pending"]
    /\ left' = [left EXCEPT ![w] = Timeout]
    /\ Touch(w)
    /\ UNCHANGED <<result, notified, observed, crossed>>

\* A poll found the target still running.
Observe(w) ==
    /\ status[w] = "pending"
    /\ Touch(w)
    /\ UNCHANGED <<status, result, notified, observed, left, registerVars>>

\* A watcher leaves its mark (start, poll, failure) on a pending wait.
UpdateMetadata(w) ==
    /\ status[w] = "pending"
    /\ Touch(w)
    /\ UNCHANGED <<status, result, notified, observed, left, registerVars>>

\* The wait becomes terminal; later completions return the record unchanged.
Complete(w, r) ==
    /\ status[w] = "pending"
    /\ status' = [status EXCEPT ![w] = "ready"]
    /\ result' = [result EXCEPT ![w] = r]
    /\ Touch(w)
    /\ UNCHANGED <<notified, observed, left, registerVars>>

\* Seeded fault: a failed notification may be claimed again.
ClaimNotification_Ready(w) ==
    /\ Ready(w)
    /\ status' = [status EXCEPT ![w] = "notifying"]
    /\ Touch(w)
    /\ UNCHANGED <<result, notified, observed, left, registerVars>>

\* claim_terminal_notification: only a record that was never claimed.
ClaimNotification(w) ==
    /\ status[w] = "ready"
    /\ status' = [status EXCEPT ![w] = "notifying"]
    /\ Touch(w)
    /\ UNCHANGED <<result, notified, observed, left, registerVars>>

\* finish_terminal_notification, with either outcome.
FinishNotification(w, end) ==
    /\ end \in {"resumed", "notify_failed"}
    /\ status[w] = "notifying"
    /\ status' = [status EXCEPT ![w] = end]
    /\ Touch(w)
    /\ UNCHANGED <<result, notified, observed, left, registerVars>>

\* Seeded fault: an abandoned claim is offered to the next notifier again.
RepairNotification_Retry(w) ==
    /\ status[w] = "notifying"
    /\ age[w] >= NotifyLease
    /\ status' = [status EXCEPT ![w] = "ready"]
    /\ Touch(w)
    /\ UNCHANGED <<result, notified, observed, left, registerVars>>

\* repair_stale_notifications: a claim older than the lease fails closed.
RepairNotification(w) ==
    /\ status[w] = "notifying"
    /\ age[w] >= NotifyLease
    /\ status' = [status EXCEPT ![w] = "notify_failed"]
    /\ Touch(w)
    /\ UNCHANGED <<result, notified, observed, left, registerVars>>

\* claim_ready_for_notification: the repo heartbeat shows a ready wait once.
ClaimHeartbeat(w) ==
    /\ Ready(w) /\ w \in RepoWaits /\ ~notified[w]
    /\ notified' = [notified EXCEPT ![w] = TRUE]
    /\ Touch(w)
    /\ UNCHANGED <<status, result, observed, left, registerVars>>

\* _claim_observation: each lifecycle event of a wait is emitted once, the
\* terminal one only when the wait is ready; the timing stays as it is.
ClaimObservation(w, e) ==
    /\ status[w] # "absent" /\ e \notin observed[w]
    /\ e = "terminal" => Ready(w)
    /\ observed' = [observed EXCEPT ![w] = @ \union {e}]
    /\ UNCHANGED <<status, result, notified, age, left, registerVars>>

\* Seeded fault: the cleanup goes by the age of a record only.
ExpireReady_AnyOld(w) ==
    /\ status[w] \in ActiveStatuses
    /\ age[w] >= ReadyTTL
    /\ status' = [status EXCEPT ![w] = "expired"]
    /\ Touch(w)
    /\ UNCHANGED <<result, notified, observed, left, registerVars>>

\* expire_ready_records.
ExpireReady(w) ==
    /\ Ready(w)
    /\ age[w] >= ReadyTTL
    /\ status' = [status EXCEPT ![w] = "expired"]
    /\ Touch(w)
    /\ UNCHANGED <<result, notified, observed, left, registerVars>>

\* mark_resumed: unconditional, whatever the record's status.
MarkResumed(w) ==
    /\ status[w] # "absent"
    /\ status' = [status EXCEPT ![w] = "resumed"]
    /\ Touch(w)
    /\ UNCHANGED <<result, notified, observed, left, registerVars>>

Tick ==
    /\ age' = [w \in Wait |-> IF age[w] < MaxAge THEN age[w] + 1 ELSE age[w]]
    /\ left' = [w \in Wait |-> IF left[w] > 0 THEN left[w] - 1 ELSE 0]
    /\ UNCHANGED <<status, result, notified, observed, registerVars>>

\* One locked transition on the record of w.
Transition(w) ==
    \/ LookForRecord(w) \/ Register(w) \/ Observe(w) \/ UpdateMetadata(w)
    \/ \E r \in Result : Complete(w, r)
    \/ ClaimNotification(w)
    \/ \E end \in {"resumed", "notify_failed"} : FinishNotification(w, end)
    \/ RepairNotification(w)
    \/ ClaimHeartbeat(w)
    \/ \E e \in Event : ClaimObservation(w, e)
    \/ ExpireReady(w) \/ MarkResumed(w)

Next == Tick \/ \E w \in Wait : Transition(w)

Spec == Init /\ [][Next]_recordVars

-----------------------------------------------------------------------------
\* The promise the registry keeps.  A closed record counts as one whose
\* attempt is over, whether or not there was one.
AttemptOf(s) ==
    CASE s \in {"absent", "pending", "ready"} -> "none"
      [] s = "notifying" -> "running"
      [] OTHER -> "over"

Promise == INSTANCE WaitPromise WITH
    outcome <- result,
    attempt <- [w \in Wait |-> AttemptOf(status[w])]

\* Every sequence of transitions by any clients keeps the promise: a late
\* writer never replaces a terminal result, no notification is repeated.
KeepsPromise == Promise!Spec

\* A record that claims to have something to say has a result, and what was
\* announced to a heartbeat or an event stream was terminal: no transition
\* leads from there back to an undecided wait.
AnnouncedIsDecided ==
    \A w \in Wait :
        \/ status[w] \in {"ready", "notifying", "notify_failed", "expired"}
        \/ notified[w] \/ "terminal" \in observed[w]
        => result[w] # NoResult

\* "Create and persist one pending wait", or return the one there is: two
\* records of one target are active together only if one registration looked
\* while the other had looked and not yet written.  A record that was closed,
\* and so was not found, never becomes active again.
OneRecordEach ==
    \A w \in Wait : \A v \in Rivals(w) :
        status[v] \in ActiveStatuses /\ status[w] \in ActiveStatuses
            => v \in crossed \/ w \in crossed

=============================================================================
