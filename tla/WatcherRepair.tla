---------------------------- MODULE WatcherRepair ----------------------------
(***************************************************************************)
(* Who watches a pending wait: registrations, which start a watcher every   *)
(* time they are made (wait/broker.py), wait repair, which replaces a dead  *)
(* one behind a claim in the record (wait/wait_repair.py), the detached     *)
(* watchers and the launchd daemon.  Each locked transition of the record's *)
(* watcher metadata (agent_waits/watcher_state.py) is one step; a client    *)
(* may be overtaken, fail or die between any two.                           *)
(***************************************************************************)
EXTENDS Integers

CONSTANTS
    Registrar,    \* clients that register the wait (again)
    Repairer,     \* clients that run wait repair
    Supported,    \* clients whose environment lets them use launchd
    Pid,          \* detached watcher processes
    NoPid,        \* "no process id"
    StaleAfter,   \* stale_after_seconds in ticks
    Interval,     \* bound: ticks between two polls of a live watcher
    MaxFaults,    \* bound: failing starts, busy locks and deaths of clients
    MaxDeaths     \* bound: deaths of detached watchers

Client == Registrar \union Repairer

ASSUME RepairAssumption ==
    /\ Registrar \intersect Repairer = {}
    /\ Supported \subseteq Client
    /\ NoPid \notin Pid
    /\ StaleAfter \in Nat \ {0}
    /\ Interval \in Nat
    /\ MaxFaults \in Nat
    /\ MaxDeaths \in Nat

VARIABLES
    meta,      \* the record's watcher metadata
    open,      \* the wait is pending
    strict,    \* the record's platform is Codex, where launchd is required
    daemon,    \* the launchd agent: unloaded, running, or loaded but dead
    alive,     \* detached watchers that run
    booting,   \* those of them that have not polled yet
    used,      \* process ids that have been given away
    since,     \* ticks since each watcher's start or poll
    pc,        \* where each client is
    new,       \* the process each client has started
    held,      \* ticks since each repairer's claim
    refused,   \* history: a start was recorded as failed
    faults,
    deaths

watcherVars == <<alive, booting, used, since, deaths>>
clientVars == <<pc, new, held>>
vars == <<meta, open, strict, daemon, watcherVars, clientVars, refused, faults>>

Strategy == {"none", "popen", "launchd", "failed", "repairing"}
ClientLines ==
    {"idle", "claim", "launch", "spawn", "mark", "refused", "confirm",
     "repair failed", "gone"}

\* A record names a process exactly while that process is its watcher.
TypeOK ==
    /\ meta \in [strategy : Strategy, pid : Pid \union {NoPid},
                 poll : 0..StaleAfter, claim : 0..StaleAfter]
    /\ meta.pid # NoPid <=> meta.strategy = "popen"
    /\ open \in BOOLEAN
    /\ strict \in BOOLEAN
    /\ daemon \in {"unloaded", "running", "dead"}
    /\ alive \subseteq used
    /\ booting \subseteq alive
    /\ used \subseteq Pid
    /\ since \in [Pid -> 0..Interval]
    /\ pc \in [Client -> ClientLines]
    /\ new \in [Client -> Pid \union {NoPid}]
    /\ held \in [Client -> 0..StaleAfter]
    /\ refused \in BOOLEAN
    /\ faults \in 0..MaxFaults
    /\ deaths \in 0..MaxDeaths

\* The record has just been written; registration goes on to the start.
Init ==
    /\ meta = [strategy |-> "none", pid |-> NoPid, poll |-> 0, claim |-> 0]
    /\ open = TRUE
    /\ strict \in BOOLEAN
    /\ daemon \in {"unloaded", "dead"}
    /\ alive = {} /\ booting = {} /\ used = {}
    /\ since = [d \in Pid |-> 0]
    /\ pc = [c \in Client |-> "idle"]
    /\ new = [c \in Client |-> NoPid]
    /\ held = [c \in Client |-> 0]
    /\ refused = FALSE
    /\ faults = 0
    /\ deaths = 0

-----------------------------------------------------------------------------
(* What the record says.                                                   *)

\* _watcher_active: a process that exists, or an agent that launchd has loaded.
Active ==
    \/ meta.strategy = "popen" /\ meta.pid \in alive
    \/ meta.strategy = "launchd" /\ daemon # "unloaded"

\* Seeded fault: a claim is judged by the last poll.
Age_IgnoresClaim == meta.poll

\* Seeded fault: a claim never goes stale.
Age_HoldsClaim == IF meta.strategy = "repairing" THEN 0 ELSE meta.poll

\* Age of the repair claim, or of the last poll, start or registration.
Age == IF meta.strategy = "repairing" THEN meta.claim ELSE meta.poll

\* watcher_repair_eligible.
Eligible == open /\ ~Active /\ Age >= StaleAfter

Fault == faults < MaxFaults /\ faults' = faults + 1

\* The client goes to a line with d in hand; a claim's age runs on until the
\* start is recorded.
Hold(c, line, d) ==
    /\ pc' = [pc EXCEPT ![c] = line]
    /\ new' = [new EXCEPT ![c] = d]
    /\ held' = [held EXCEPT ![c] = IF line \in {"spawn", "mark"} THEN @ ELSE 0]

Go(c, line) == Hold(c, line, NoPid)

\* A registrar is through; a repairer may be run again.
Done(c) == IF c \in Repairer THEN "idle" ELSE "gone"

-----------------------------------------------------------------------------
(* Clients.                                                                *)

\* A registration returns the record, new or found, and starts a watcher.
BeginRegistration(c) ==
    /\ c \in Registrar /\ pc[c] = "idle"
    /\ Go(c, "launch")
    /\ UNCHANGED <<meta, open, strict, daemon, watcherVars, refused, faults>>

\* A repair looks at the record without the lock.
BeginRepair(c) ==
    /\ c \in Repairer /\ pc[c] = "idle"
    /\ Eligible
    /\ Go(c, "claim")
    /\ UNCHANGED <<meta, open, strict, daemon, watcherVars, refused, faults>>

\* Seeded fault: the claim is taken without another look.
ClaimRepair_NoRecheck(c) ==
    /\ pc[c] = "claim" /\ open
    /\ meta' = [meta EXCEPT !.strategy = "repairing", !.claim = 0, !.pid = NoPid]
    /\ Go(c, "launch")
    /\ UNCHANGED <<open, strict, daemon, watcherVars, refused, faults>>

\* Seeded fault: the claimed record goes on naming the dead process.
ClaimRepair_KeepsPid(c) ==
    /\ pc[c] = "claim" /\ Eligible
    /\ meta' = [meta EXCEPT !.strategy = "repairing", !.claim = 0]
    /\ Go(c, "launch")
    /\ UNCHANGED <<open, strict, daemon, watcherVars, refused, faults>>

\* claim_watcher_repair: the same question again, under the lock.
ClaimRepair(c) ==
    /\ pc[c] = "claim" /\ Eligible
    /\ meta' = [meta EXCEPT !.strategy = "repairing", !.claim = 0, !.pid = NoPid]
    /\ Go(c, "launch")
    /\ UNCHANGED <<open, strict, daemon, watcherVars, refused, faults>>

SkipRepair(c) ==
    /\ pc[c] = "claim" /\ ~Eligible
    /\ Go(c, "idle")
    /\ UNCHANGED <<meta, open, strict, daemon, watcherVars, refused, faults>>

\* ensure_wait_daemon succeeds: the agent is loaded and kicked.
LaunchDaemon(c) ==
    /\ pc[c] = "launch" /\ c \in Supported
    /\ daemon' = "running"
    /\ Go(c, "mark")
    /\ UNCHANGED <<meta, open, strict, watcherVars, refused, faults>>

\* launchd is not supported, or launchctl fails half way through: a detached
\* process has to do, except for a Codex wait.
LaunchFallback(c) ==
    /\ pc[c] = "launch"
    /\ \/ c \notin Supported /\ UNCHANGED <<daemon, faults>>
       \/ c \in Supported /\ Fault /\ daemon' \in {daemon, "unloaded", "dead"}
    /\ Go(c, IF strict THEN "refused" ELSE "spawn")
    /\ UNCHANGED <<meta, open, strict, watcherVars, refused>>

\* The system gives a new process an id of its own.
FreshPid == CHOOSE d \in Pid : d \notin used

\* launch_wait_watcher_process.
Spawn(c) == LET d == FreshPid IN
    /\ pc[c] = "spawn" /\ used # Pid
    /\ alive' = alive \union {d}
    /\ booting' = booting \union {d}
    /\ used' = used \union {d}
    /\ since' = [since EXCEPT ![d] = 0]
    /\ Hold(c, "mark", d)
    /\ UNCHANGED <<meta, open, strict, daemon, refused, faults, deaths>>

SpawnFails(c) ==
    /\ pc[c] = "spawn"
    /\ Fault
    /\ Go(c, "refused")
    /\ UNCHANGED <<meta, open, strict, daemon, watcherVars, refused>>

\* mark_watcher_started, as far as the wait is still pending.
RecordStart(c) ==
    meta' = IF open
            THEN [meta EXCEPT
                    !.strategy = IF new[c] = NoPid THEN "launchd" ELSE "popen",
                    !.pid = new[c], !.poll = 0, !.claim = 0]
            ELSE meta

MarkStarted(c) ==
    /\ pc[c] = "mark"
    /\ RecordStart(c)
    /\ IF c \in Repairer THEN Hold(c, "confirm", new[c]) ELSE Go(c, "gone")
    /\ UNCHANGED <<open, strict, daemon, watcherVars, refused, faults>>

\* _start_claimed_watcher marks the start once more.
ConfirmStart(c) ==
    /\ pc[c] = "confirm"
    /\ RecordStart(c)
    /\ Go(c, "idle")
    /\ UNCHANGED <<open, strict, daemon, watcherVars, refused, faults>>

\* mark_watcher_failed: the poll and the claim keep their age.  A repair marks
\* its failure twice, once in the broker and once on its own.
MarkFailed(c) ==
    /\ pc[c] \in {"refused", "repair failed"}
    /\ meta' = IF open THEN [meta EXCEPT !.strategy = "failed", !.pid = NoPid]
                       ELSE meta
    /\ refused' = (refused \/ open)
    /\ Go(c, IF pc[c] = "refused" /\ c \in Repairer THEN "repair failed" ELSE Done(c))
    /\ UNCHANGED <<open, strict, daemon, watcherVars, faults>>

\* The record's lock is busy for too long: in the broker's marks a repair
\* counts that as a failed start, anywhere else it ends the client.
LockTimesOut(c) ==
    /\ pc[c] \in {"claim", "mark", "confirm", "refused", "repair failed"}
    /\ Fault
    /\ Go(c, IF c \in Repairer /\ pc[c] \in {"mark", "refused"}
             THEN "repair failed" ELSE Done(c))
    /\ UNCHANGED <<meta, open, strict, daemon, watcherVars, refused>>

\* A repairer that dies may be started again; nothing it did is undone.
ClientDies(c) ==
    /\ pc[c] \notin {"idle", "gone"}
    /\ Fault
    /\ Go(c, Done(c))
    /\ UNCHANGED <<meta, open, strict, daemon, watcherVars, refused>>

-----------------------------------------------------------------------------
(* Watchers, the daemon and the rest.                                      *)

\* mark_watcher_poll, by a watcher whether or not the record names it.
Poll(d) ==
    /\ d \in alive /\ open
    /\ meta' = [meta EXCEPT !.poll = 0]
    /\ booting' = booting \ {d}
    /\ since' = [since EXCEPT ![d] = 0]
    /\ UNCHANGED <<open, strict, daemon, alive, used, deaths, clientVars, refused, faults>>

\* A watcher ends with its wait, or dies.
WatcherEnds(d) ==
    /\ d \in alive
    /\ \/ ~open /\ UNCHANGED deaths
       \/ deaths < MaxDeaths /\ deaths' = deaths + 1
    /\ alive' = alive \ {d}
    /\ booting' = booting \ {d}
    /\ since' = [since EXCEPT ![d] = 0]
    /\ UNCHANGED <<meta, open, strict, daemon, used, clientVars, refused, faults>>

\* mark_pending_watcher_polls.
DaemonPolls ==
    /\ daemon = "running" /\ open
    /\ meta' = [meta EXCEPT !.poll = 0]
    /\ UNCHANGED <<open, strict, daemon, watcherVars, clientVars, refused, faults>>

\* The daemon retires or dies, which leaves the agent loaded; uninstalling
\* unloads it.
DaemonEnds ==
    /\ \/ daemon = "running" /\ daemon' = "dead"
       \/ daemon # "unloaded" /\ daemon' = "unloaded"
    /\ UNCHANGED <<meta, open, strict, watcherVars, clientVars, refused, faults>>

\* The wait gets its result or is closed.
Close ==
    /\ open
    /\ open' = FALSE
    /\ UNCHANGED <<meta, strict, daemon, watcherVars, clientVars, refused, faults>>

\* A repairer that has its claim and is about to start a watcher.
Replacing(c) == c \in Repairer /\ pc[c] \in {"launch", "spawn", "mark"}

\* Ages older than StaleAfter are not told apart.
Older(n) == IF n < StaleAfter THEN n + 1 ELSE n

\* The claim's age only counts while the record is claimed.
Tick ==
    /\ \A d \in alive : open => since[d] < Interval
    /\ meta' = [meta EXCEPT
                  !.poll = Older(@),
                  !.claim = IF meta.strategy = "repairing" THEN Older(@) ELSE @]
    /\ since' = [d \in Pid |->
                   IF d \in alive /\ since[d] < Interval THEN since[d] + 1 ELSE since[d]]
    /\ held' = [c \in Client |-> IF Replacing(c) THEN Older(held[c]) ELSE held[c]]
    /\ UNCHANGED <<open, strict, daemon, alive, booting, used, deaths, pc, new, refused, faults>>

ClientStep(c) ==
    \/ BeginRepair(c) \/ ClaimRepair(c) \/ SkipRepair(c)
    \/ LaunchDaemon(c) \/ LaunchFallback(c)
    \/ Spawn(c) \/ SpawnFails(c)
    \/ MarkStarted(c) \/ ConfirmStart(c) \/ MarkFailed(c)

Next ==
    \/ \E c \in Client :
          BeginRegistration(c) \/ ClientStep(c) \/ LockTimesOut(c) \/ ClientDies(c)
    \/ \E d \in Pid : Poll(d) \/ WatcherEnds(d)
    \/ DaemonPolls \/ DaemonEnds \/ Close \/ Tick

Spec == Init /\ [][Next]_vars

\* wait repair is run again and again, and time passes.  Registrations may stop
\* half way, watchers die at any moment and the wait need never end.
FairSpec == Spec /\ WF_vars(Tick) /\ \A c \in Repairer : WF_vars(ClientStep(c))

-----------------------------------------------------------------------------
\* "Repair stale inactive pending watchers after an atomic per-wait claim": two
\* repairs never replace one watcher at a time, whoever registers, polls or
\* dies meanwhile, unless one took as long as a watcher takes to go stale, or a
\* start was recorded as failed, which drops somebody else's claim as well.
OneRepair ==
    \/ refused
    \/ \A c, e \in Client :
          Replacing(c) /\ Replacing(e) =>
              c = e \/ held[c] >= StaleAfter \/ held[e] >= StaleAfter

\* "Repair only dead or inactive watchers": as long as watchers poll more often
\* than they go stale, no repair is claimed beside a watcher that has polled,
\* not even one that the record does not name, unless an earlier repair took
\* its claim and never came to record the start.
RepairsTheDead ==
    [][\A c \in Client :
          Interval < StaleAfter /\ pc[c] = "claim" /\ pc'[c] = "launch" =>
              alive \subseteq booting \/ meta.strategy = "repairing"]_vars

\* Somebody polls the wait.
Watched == alive # {} \/ daemon = "running"

\* "Watcher repair can restore dead polling": while repair is run, a pending
\* wait without a watcher gets one, also after clients died or failed half way
\* and left their claim; not so if the record names launchd, or requires it.
PollingRestored ==
    open /\ ~Watched /\ ~strict ~> ~open \/ Watched \/ meta.strategy = "launchd"

=============================================================================
