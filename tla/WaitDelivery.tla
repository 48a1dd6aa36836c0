---------------------------- MODULE WaitDelivery ----------------------------
(***************************************************************************)
(* The processes that work on the wait registry: detached watchers          *)
(* (wait sweep --watch), the repository's launchd daemon, the command line  *)
(* (register, heartbeat, cleanup, repair), the target a wait is about and   *)
(* the Codex app server.  Between two registry transitions a process holds  *)
(* what it read and anything may happen: another process moves the record,  *)
(* time passes, the process dies.  launchctl kickstart -k kills a running   *)
(* daemon on every registration that is handed to launchd.                  *)
(***************************************************************************)
EXTENDS WaitRegistry, FiniteSets

CONSTANTS
    Watcher,         \* detached watcher processes
    Daemon,          \* the daemon process
    NoWait,          \* "on no wait"
    Outcome,         \* terminal states of a target
    EnvelopeTTL,     \* ENVELOPE_TTL_SECONDS in ticks
    IdleTimeout,     \* idle_timeout_seconds of the daemon in ticks
    PassTime,        \* bound: ticks one pass of the daemon lasts
    ByHand,          \* bound: waits that other clients may mark resumed
    MaxLaunches,     \* bound: registrations handed to launchd
    MaxCrashes       \* bound: deaths of watchers or of the daemon

Actor == Watcher \union {Daemon}

ASSUME DeliveryAssumption ==
    /\ Daemon \notin Watcher
    /\ NoWait \notin Wait
    /\ \A v, w \in Wait : IdentityOf[v] = IdentityOf[w] => v = w
    /\ Result = Outcome \union {"error", "timeout"}
    /\ Outcome \intersect {"error", "timeout", "running", "none"} = {}
    /\ EnvelopeTTL \in Nat \ {0}
    /\ NotifyLease > 0
    /\ IdleTimeout \in Nat \ {0}
    /\ PassTime \in Nat
    /\ ByHand \subseteq Wait
    /\ MaxLaunches \in Nat
    /\ MaxCrashes \in Nat

VARIABLES
    target,      \* the real state of each target
    at,          \* where each process is
    on,          \* the wait each process works on
    got,         \* the answer of a query, or the verdict about to be written
    todo,        \* waits left in the daemon's present pass
    envelope,    \* life left in each rewake envelope; 0: none
    quiet,       \* ticks since the daemon's last activity
    busy,        \* the daemon's present pass has polled a pending wait
    rested,      \* the daemon has finished a pass since the last tick
    passing,     \* ticks the daemon's present pass has lasted
    calls,       \* history: app-server calls made for each wait
    launches,
    crashes

procVars == <<at, on, got>>
daemonVars == <<todo, envelope, quiet, busy, rested, passing>>
outerVars == <<target, calls, launches, crashes>>
vars == <<recordVars, procVars, daemonVars, outerVars>>

Locations ==
    {"none", "watch", "stopped",                      \* a watcher's loop
     "rest", "sweep", "mark", "repair", "resume",     \* the daemon's loop
     "query", "answer", "settle", "rewake", "claimed", "calling"}

DeliveryTypeOK ==
    /\ target \in [Wait -> Outcome \union {"running"}]
    /\ at \in [Actor -> Locations]
    /\ on \in [Actor -> Wait \union {NoWait}]
    /\ got \in [Actor -> Result \union {"running", "none"}]
    /\ todo \subseteq Wait
    /\ envelope \in [Wait -> 0..EnvelopeTTL]
    /\ quiet \in 0..IdleTimeout
    /\ busy \in BOOLEAN
    /\ rested \in BOOLEAN
    /\ passing \in 0..PassTime
    /\ calls \in [Wait -> Nat]
    /\ launches \in 0..MaxLaunches
    /\ crashes \in 0..MaxCrashes

DeliveryInit ==
    /\ Init
    /\ target = [w \in Wait |-> "running"]
    /\ at = [p \in Actor |-> "none"]
    /\ on = [p \in Actor |-> NoWait]
    /\ got = [p \in Actor |-> "none"]
    /\ todo = {}
    /\ envelope = [w \in Wait |-> 0]
    /\ quiet = 0
    /\ busy = FALSE
    /\ rested = FALSE
    /\ passing = 0
    /\ calls = [w \in Wait |-> 0]
    /\ launches = 0
    /\ crashes = 0

-----------------------------------------------------------------------------
(* The target and the command line.                                        *)

TargetEnds(w, o) ==
    /\ target[w] = "running"
    /\ target' = [target EXCEPT ![w] = o]
    /\ UNCHANGED <<recordVars, procVars, daemonVars, calls, launches, crashes>>

RegisterWait(w) ==
    /\ LookForRecord(w) \/ Register(w)
    /\ UNCHANGED <<procVars, daemonVars, outerVars>>

\* Seeded fault: an envelope outlives its time to live.
FreshEnvelope_Longer == EnvelopeTTL + 1

FreshEnvelope == EnvelopeTTL

\* A registration (also a repeated one, which finds the record) is handed to
\* launchd: the envelope is written and the daemon kicked, which kills the
\* one that runs, wherever it is.
LaunchDaemon(w) ==
    /\ launches < MaxLaunches
    /\ status[w] \in ActiveStatuses
    /\ envelope' = [envelope EXCEPT ![w] = FreshEnvelope]
    /\ at' = [at EXCEPT ![Daemon] = "rest"]
    /\ on' = [on EXCEPT ![Daemon] = NoWait]
    /\ got' = [got EXCEPT ![Daemon] = "none"]
    /\ todo' = {}
    /\ quiet' = 0
    /\ busy' = FALSE
    /\ rested' = FALSE
    /\ passing' = 0
    /\ launches' = launches + 1
    /\ UNCHANGED <<recordVars, target, calls, crashes>>

\* A watcher process is started for a wait that registration returned.
LaunchWatcher(p, w) ==
    /\ at[p] = "none"
    /\ status[w] \in ActiveStatuses
    /\ at' = [at EXCEPT ![p] = "watch"]
    /\ on' = [on EXCEPT ![p] = w]
    /\ UNCHANGED <<recordVars, got, daemonVars, outerVars>>

\* wait heartbeat, wait cleanup and wait repair; mark_resumed, which the
\* registry offers to other clients.
Maintain(w) ==
    /\ \/ ClaimHeartbeat(w) \/ ExpireReady(w) \/ RepairNotification(w)
       \/ w \in ByHand /\ MarkResumed(w)
    /\ UNCHANGED <<procVars, daemonVars, outerVars>>

-----------------------------------------------------------------------------
(* Polling one wait: sweep_record and poll_once.                           *)

Home(p) == IF p = Daemon THEN "sweep" ELSE "watch"

Move(p, there) == at' = [at EXCEPT ![p] = there]

\* Seeded fault: a wait expires one tick before its deadline.
Expired_Early(w) == left[w] =< 1

\* _expired, _timed_out.
Expired(w) == left[w] = 0

\* The snapshot is pending: its deadline decides whether to query at all.
BeginPoll(p, w) ==
    /\ on' = [on EXCEPT ![p] = w]
    /\ IF Expired(w)
       THEN Move(p, "answer") /\ got' = [got EXCEPT ![p] = "timeout"]
       ELSE Move(p, "query") /\ got' = [got EXCEPT ![p] = "none"]

\* The external query returns, or fails; either may take long.
Query(p) ==
    /\ at[p] = "query"
    /\ Move(p, "answer")
    /\ \E a \in {target[on[p]], "error"} : got' = [got EXCEPT ![p] = a]
    /\ UNCHANGED <<recordVars, on, daemonVars, outerVars>>

\* The record that an update returned is ready: it goes on to be announced.
Returned(p) == Move(p, IF Ready(on[p]) THEN "settle" ELSE Home(p))

\* A verdict is in hand: complete the wait unless it is complete by now.
ApplyVerdict(p) ==
    /\ at[p] = "answer" /\ got[p] \in Result
    /\ \/ Complete(on[p], got[p]) /\ Move(p, "settle")
       \/ status[on[p]] # "pending" /\ Returned(p) /\ UNCHANGED recordVars
    /\ UNCHANGED <<on, got, daemonVars, outerVars>>

\* The target is still running: observe, then look at the deadline again.
ApplyRunning(p) ==
    /\ at[p] = "answer" /\ got[p] = "running"
    /\ \/ Observe(on[p])
       \/ status[on[p]] # "pending" /\ UNCHANGED recordVars
    /\ IF Expired(on[p])
       THEN got' = [got EXCEPT ![p] = "timeout"] /\ UNCHANGED at
       ELSE Returned(p) /\ UNCHANGED got
    /\ UNCHANGED <<on, daemonVars, outerVars>>

\* _emit_terminal_observed, then back to the loop; a watcher that sees its
\* wait ready goes on to the rewake.
Settle(p) ==
    /\ at[p] = "settle"
    /\ \/ ClaimObservation(on[p], "terminal") /\ Ready(on[p])
       \/ ~(Ready(on[p]) /\ "terminal" \notin observed[on[p]])
          /\ UNCHANGED recordVars
    /\ Move(p, IF p # Daemon /\ Ready(on[p]) THEN "rewake" ELSE Home(p))
    /\ got' = [got EXCEPT ![p] = "none"]
    /\ UNCHANGED <<on, daemonVars, outerVars>>

\* One round of watch_wait up to the query: the poll is marked while the wait
\* is pending, a ready wait ends the loop, any other status goes to sleep.
WatchRound(p) ==
    /\ at[p] = "watch"
    /\ \/ /\ UpdateMetadata(on[p])
          /\ BeginPoll(p, on[p])
       \/ /\ Ready(on[p])
          /\ Move(p, "rewake")
          /\ UNCHANGED <<recordVars, on, got>>
    /\ UNCHANGED <<daemonVars, outerVars>>

-----------------------------------------------------------------------------
(* Notification: CodexRewakeBackend.resume_if_available.                   *)

Return(p) == Move(p, IF p = Daemon THEN "resume" ELSE "stopped")

\* The claim is durable before anything is sent.
Claim(p) ==
    /\ at[p] = "rewake"
    /\ ClaimNotification(on[p])
    /\ Move(p, "claimed")
    /\ UNCHANGED <<on, got, daemonVars, outerVars>>

\* Rewake is disabled, has no thread, or the lock is busy, or the wait was
\* claimed or closed by somebody else.
SkipClaim(p) ==
    /\ at[p] = "rewake"
    /\ Return(p)
    /\ UNCHANGED <<recordVars, on, got, daemonVars, outerVars>>

CallServer(p) ==
    /\ at[p] = "claimed"
    /\ Move(p, "calling")
    /\ calls' = [calls EXCEPT ![on[p]] = @ + 1]
    /\ UNCHANGED <<recordVars, on, got, daemonVars, target, launches, crashes>>

\* Seeded fault: a failed call returns without finishing the claim.
FinishCall_Forgets(p) ==
    /\ at[p] = "calling"
    /\ Return(p)
    /\ UNCHANGED <<recordVars, on, got, daemonVars, outerVars>>

\* The call failed, or was accepted without a visible wake: failed both ways,
\* unless the claim has been taken away meanwhile.
FinishCall(p) ==
    /\ at[p] = "calling"
    /\ Return(p)
    /\ \/ FinishNotification(on[p], "notify_failed")
       \/ status[on[p]] # "notifying" /\ UNCHANGED recordVars
    /\ UNCHANGED <<on, got, daemonVars, outerVars>>

-----------------------------------------------------------------------------
(* The daemon's loop: sweep, mark, repair, resume, account, sleep.         *)

WaitsIn(s) == {w \in Wait : status[w] = s}

PendingWaits == WaitsIn("pending")

DaemonGoes(there, work) ==
    /\ at' = [at EXCEPT ![Daemon] = there]
    /\ todo' = work
    /\ on' = [on EXCEPT ![Daemon] = NoWait]

BeginPass ==
    /\ at[Daemon] = "rest" /\ ~rested
    /\ quiet < IdleTimeout
    /\ DaemonGoes("sweep", PendingWaits)
    /\ busy' = FALSE
    /\ UNCHANGED <<recordVars, got, envelope, quiet, rested, passing, outerVars>>

\* The idle timeout is over: the daemon exits and launchd does not revive it.
IdleExit ==
    /\ at[Daemon] = "rest" /\ ~rested
    /\ quiet >= IdleTimeout
    /\ DaemonGoes("stopped", {})
    /\ UNCHANGED <<recordVars, got, envelope, quiet, busy, rested, passing, outerVars>>

SweepNext(w) ==
    /\ at[Daemon] = "sweep" /\ w \in todo
    /\ todo' = todo \ {w}
    /\ \/ status[w] = "pending" /\ BeginPoll(Daemon, w) /\ busy' = TRUE
       \/ status[w] # "pending" /\ UNCHANGED <<procVars, busy>>
    /\ UNCHANGED <<recordVars, envelope, quiet, rested, passing, outerVars>>

\* mark_pending_watcher_polls.
MarkNext(w) ==
    /\ at[Daemon] = "mark" /\ w \in todo
    /\ todo' = todo \ {w}
    /\ \/ UpdateMetadata(w)
       \/ status[w] # "pending" /\ UNCHANGED recordVars
    /\ UNCHANGED <<procVars, envelope, quiet, busy, rested, passing, outerVars>>

\* Every notification claim past its lease fails closed.
RepairNext(w) ==
    /\ at[Daemon] = "repair" /\ w \in todo
    /\ todo' = todo \ {w}
    /\ \/ RepairNotification(w)
       \/ ~(status[w] = "notifying" /\ age[w] >= NotifyLease)
          /\ UNCHANGED recordVars
    /\ UNCHANGED <<procVars, envelope, quiet, busy, rested, passing, outerVars>>

\* read_rewake_envelope: read and deleted, before the claim.
ResumeNext(w) ==
    /\ at[Daemon] = "resume" /\ w \in todo
    /\ todo' = todo \ {w}
    /\ envelope' = [envelope EXCEPT ![w] = 0]
    /\ IF envelope[w] > 0
       THEN Move(Daemon, "rewake") /\ on' = [on EXCEPT ![Daemon] = w]
       ELSE UNCHANGED <<at, on>>
    /\ UNCHANGED <<recordVars, got, quiet, busy, rested, passing, outerVars>>

\* Seeded fault: the daemon leaves stale claims to wait repair.
NextPhase_NoRepair ==
    /\ todo = {}
    /\ \/ at[Daemon] = "sweep" /\ DaemonGoes("mark", PendingWaits)
       \/ at[Daemon] = "mark" /\ DaemonGoes("resume", WaitsIn("ready"))
    /\ UNCHANGED <<recordVars, got, envelope, quiet, busy, rested, passing, outerVars>>

\* The phase is done: the next one starts from what the records say now.
NextPhase ==
    /\ todo = {}
    /\ \/ at[Daemon] = "sweep" /\ DaemonGoes("mark", PendingWaits)
       \/ at[Daemon] = "mark" /\ DaemonGoes("repair", WaitsIn("notifying"))
       \/ at[Daemon] = "repair" /\ DaemonGoes("resume", WaitsIn("ready"))
    /\ UNCHANGED <<recordVars, got, envelope, quiet, busy, rested, passing, outerVars>>

\* _has_active_work: a pending wait, or an envelope that is still good.
ActiveWork == PendingWaits # {} \/ \E w \in Wait : envelope[w] > 0

\* Seeded fault: only a resumed thread counts as activity.
EndPass_NoActivity ==
    /\ at[Daemon] = "resume" /\ todo = {}
    /\ DaemonGoes("rest", {})
    /\ rested' = TRUE
    /\ passing' = 0
    /\ UNCHANGED <<recordVars, got, envelope, quiet, busy, outerVars>>

\* The pass is over: a wait it polled or work still active keeps the daemon.
EndPass ==
    /\ at[Daemon] = "resume" /\ todo = {}
    /\ DaemonGoes("rest", {})
    /\ quiet' = IF busy \/ ActiveWork THEN 0 ELSE quiet
    /\ rested' = TRUE
    /\ passing' = 0
    /\ UNCHANGED <<recordVars, got, envelope, busy, outerVars>>

-----------------------------------------------------------------------------
(* Death and time.                                                         *)

Crash(p) ==
    /\ crashes < MaxCrashes
    /\ at[p] \notin {"none", "stopped"}
    /\ Move(p, "stopped")
    /\ on' = [on EXCEPT ![p] = NoWait]
    /\ got' = [got EXCEPT ![p] = "none"]
    /\ todo' = IF p = Daemon THEN {} ELSE todo
    /\ crashes' = crashes + 1
    /\ UNCHANGED <<recordVars, envelope, quiet, busy, rested, passing, target, calls, launches>>

\* A tick is longer than the daemon's own work in a pass; only its queries and
\* app-server calls make a pass last, for PassTime ticks at most.
InCall == at[Daemon] \in {"query", "calling"}

DaemonPrompt ==
    \/ at[Daemon] \in {"none", "stopped"}
    \/ InCall /\ passing < PassTime
    \/ at[Daemon] = "rest" /\ rested

TimePasses ==
    /\ DaemonPrompt
    /\ Tick
    /\ envelope' = [w \in Wait |-> IF envelope[w] > 0 THEN envelope[w] - 1 ELSE 0]
    /\ quiet' = IF quiet < IdleTimeout /\ at[Daemon] \notin {"none", "stopped"}
                THEN quiet + 1 ELSE quiet
    /\ rested' = FALSE
    /\ passing' = IF InCall THEN passing + 1 ELSE passing
    /\ UNCHANGED <<procVars, todo, busy, outerVars>>

Work(p) ==
    \/ Query(p) \/ ApplyVerdict(p) \/ ApplyRunning(p) \/ Settle(p)
    \/ Claim(p) \/ SkipClaim(p) \/ CallServer(p) \/ FinishCall(p)

DaemonStep ==
    \/ BeginPass \/ NextPhase \/ EndPass \/ IdleExit \/ Work(Daemon)
    \/ \E w \in Wait :
           SweepNext(w) \/ MarkNext(w) \/ RepairNext(w) \/ ResumeNext(w)

WatcherStep(p) == WatchRound(p) \/ Work(p)

CommandStep(w) ==
    \/ RegisterWait(w) \/ LaunchDaemon(w) \/ Maintain(w)
    \/ \E p \in Watcher : LaunchWatcher(p, w)

DeliveryNext ==
    \/ \E w \in Wait : CommandStep(w) \/ \E o \in Outcome : TargetEnds(w, o)
    \/ DaemonStep
    \/ \E p \in Watcher : WatcherStep(p)
    \/ \E p \in Actor : Crash(p)
    \/ TimePasses

DeliverySpec == DeliveryInit /\ [][DeliveryNext]_vars

\* Processes that are alive go on, and time passes.
DeliveryFairness ==
    /\ WF_vars(DaemonStep)
    /\ \A p \in Watcher : WF_vars(WatcherStep(p))
    /\ WF_vars(TimePasses)

FairDelivery == DeliverySpec /\ DeliveryFairness

-----------------------------------------------------------------------------
Notifiers(w) == {p \in Actor : at[p] \in {"claimed", "calling"} /\ on[p] = w}

\* "Claim terminal notification before calling Codex so parallel watchers
\* cannot double-wake the same wait": over the whole life of a wait, with
\* watchers, daemon and manual repair working on it and dying at any point,
\* the app server is called at most once, and never by two at a time.
AtMostOneCall ==
    \A w \in Wait : calls[w] =< 1 /\ Cardinality(Notifiers(w)) =< 1

\* A verdict is written from what was read before: it is still true of the
\* target, and a timeout is only reported after the deadline.
VerdictIsTrue ==
    \A w \in Wait :
        /\ result[w] = "timeout" => left[w] = 0
        /\ result[w] \in Outcome => target[w] = result[w]

\* A claim without a notifier is the work of a death: nothing short of a
\* crash or a kill by kickstart leaves a record in "notifying".
OrphanedByDeath ==
    \A w \in Wait :
        status[w] = "notifying" =>
            Notifiers(w) # {} \/ crashes > 0 \/ launches > 1

DaemonRuns == at[Daemon] \notin {"none", "stopped"}

\* The daemon tests its idle timeout between passes only, and kicks and deaths
\* leave claims to its repair: when it retires, a claim that is still open is
\* younger than its lease was at the last repair, by one pass and one sleep.  So
\* none is left at all by a daemon that is the only notifier, provided that a
\* lease and a pass are shorter together than the idle timeout, which they are
\* not by default (a call may last 3600 s, the idle timeout is 1800 s).
RetiresClean ==
    [][IdleExit =>
          \A w \in Wait : status[w] = "notifying" =>
              /\ age[w] =< NotifyLease + PassTime
              /\ Watcher = {} => IdleTimeout =< NotifyLease + PassTime]_vars

\* "An abandoned, failed, or visibly unconfirmed attempt becomes manual-only"
\* (the decision record of 2026-07-10) holds under a condition: a claim open while
\* the daemon runs ends, unless a process dies, or the daemon retires with its
\* idle timeout no longer than a lease and a pass, as it may by default.
ClaimEnds ==
    \A w \in Wait :
        status[w] = "notifying" /\ DaemonRuns
            ~> \/ status[w] # "notifying"
               \/ crashes > 0
               \/ ~DaemonRuns /\ IdleTimeout =< NotifyLease + PassTime

\* A wait the daemon has begun to sweep becomes terminal, by its target, by a
\* failing query or by its deadline: the daemon does not retire before.
SweptIsResolved ==
    \A w \in Wait :
        at[Daemon] = "sweep" /\ w \in todo
            ~> status[w] # "pending" \/ crashes > 0

\* "Watch one wait until terminal resume record is ready": once the wait has
\* its terminal result, its watcher comes to an end.
WatchEnds ==
    \A p \in Watcher, w \in Wait :
        at[p] = "watch" /\ on[p] = w /\ result[w] # NoResult
            ~> at[p] = "stopped"

=============================================================================
