------------------------------ MODULE AsyncJob ------------------------------
(***************************************************************************)
(* One detached verifier job: the launcher (verify/async_jobs.py), the owned *)
(* child (verify/async_child.py) and the state file they share              *)
(* (verify/async_state.py).  Every write replaces the file in one step, but  *)
(* an update is a read and, later, a write, and nothing serializes the two   *)
(* processes.  Signals arrive at any point; a launcher or a child may be     *)
(* killed outright.  Who waits for the job (wait/verifier.py) polls the file. *)
(*                                                                         *)
(* A signal handler and the exception hook run in the child: what it was     *)
(* doing is abandoned and its place taken by the handler's.                  *)
(***************************************************************************)
EXTENDS Integers

CONSTANTS
    Patience,     \* RUNNING_STATE_TIMEOUT_SECONDS in ticks
    LauncherLag,  \* bound: ticks the launcher is held up after the spawn
    MaxSignals,   \* bound: SIGINT and SIGTERM sent to the child from outside
    MaxFaults,    \* bound: reads or writes of the state file that fail
    Killable      \* which of "launcher" and "child" may be killed outright

ASSUME JobAssumption ==
    /\ Patience \in Nat
    /\ LauncherLag \in Nat
    /\ MaxSignals \in Nat
    /\ MaxFaults \in Nat
    /\ Killable \subseteq {"launcher", "child"}

VARIABLES
    job,         \* status in the state file; "absent": there is none
    launcher,    \* where the launcher is
    read,        \* the status the launcher has read for its update
    child,       \* where the child is
    verdict,     \* the status the child is about to write
    exit,        \* how the child ended
    waited,      \* ticks the child has waited for "running"
    lag,         \* ticks since the spawn before the launcher was done
    told,        \* how the job ended, as told to who waits for it
    signals,
    faults

jobVars == <<job, launcher, read, child, verdict, exit, waited, lag, told,
          signals, faults>>

Terminal == {"passed", "failed", "error", "cancelled"}
Status == {"absent", "starting", "running"} \union Terminal
LauncherLines == {"prepare", "spawn", "read", "write", "stop", "reap",
                  "error", "launched", "failed", "dead"}
ChildLines == {"none", "boot", "await", "refuse", "verify", "update", "hook",
               "exiting", "ended"}

TypeOK ==
    /\ job \in Status
    /\ launcher \in LauncherLines
    /\ read \in Status
    /\ child \in ChildLines
    /\ verdict \in Terminal \union {"none"}
    /\ exit \in Terminal \union {"none", "killed"}
    /\ waited \in 0..Patience
    /\ lag \in 0..LauncherLag
    /\ told \in Terminal \union {"none", "timeout"}
    /\ signals \in 0..MaxSignals
    /\ faults \in 0..MaxFaults

JobInit ==
    /\ job = "absent"
    /\ launcher = "prepare"
    /\ read = "absent"
    /\ child = "none"
    /\ verdict = "none"
    /\ exit = "none"
    /\ waited = 0
    /\ lag = 0
    /\ told = "none"
    /\ signals = 0
    /\ faults = 0

-----------------------------------------------------------------------------
(* The launcher.                                                           *)

childVars == <<child, verdict, exit, waited>>
clocks == <<lag, signals, told>>

\* The state file cannot be read or written, this time.
Fault == faults < MaxFaults /\ faults' = faults + 1

\* _prepare_launch: the starting state is on disk before anything runs.
Prepare ==
    /\ launcher = "prepare"
    /\ \/ job' = "starting" /\ launcher' = "spawn" /\ UNCHANGED faults
       \/ launcher' = "failed" /\ Fault /\ UNCHANGED job
    /\ UNCHANGED <<read, childVars, clocks>>

\* _spawn_process: the child starts, or there is none.
Spawn ==
    /\ launcher = "spawn"
    /\ \/ child' = "boot" /\ launcher' = "read"
       \/ launcher' = "error" /\ UNCHANGED child
    /\ UNCHANGED <<job, read, verdict, exit, waited, clocks, faults>>

\* mark_async_running reads the state; a state it cannot make out is a
\* POST_SPAWN_ERROR, which cancels the launch.
ReadState ==
    /\ launcher = "read"
    /\ \/ read' = job /\ launcher' = "write" /\ UNCHANGED faults
       \/ launcher' = "stop" /\ Fault /\ UNCHANGED read
    /\ UNCHANGED <<job, childVars, clocks>>

\* Seeded fault: the launch is reported failed although its record was written.
WriteRunning_Late ==
    /\ launcher = "write"
    /\ job' = IF read \in Terminal THEN job ELSE "running"
    /\ \/ launcher' = "launched" /\ UNCHANGED faults
       \/ launcher' = "error" /\ Fault
    /\ UNCHANGED <<read, childVars, clocks>>

\* ... and writes what it has read, as running, unless that was terminal.  An
\* OSError is no POST_SPAWN_ERROR: it is recorded, the child is not stopped.
WriteRunning ==
    /\ launcher = "write"
    /\ \/ /\ job' = IF read \in Terminal THEN job ELSE "running"
          /\ launcher' = "launched"
          /\ UNCHANGED faults
       \/ /\ read \notin Terminal
          /\ launcher' = "error"
          /\ Fault
          /\ UNCHANGED job
    /\ UNCHANGED <<read, childVars, clocks>>

Alive == child \notin {"none", "ended"}

\* Before its handlers are installed a signal ends the child as it would any
\* process; afterwards the handler takes over.
Interrupt ==
    IF child = "boot"
    THEN child' = "ended" /\ exit' = "killed" /\ UNCHANGED verdict
    ELSE child' = "update" /\ verdict' = "cancelled" /\ UNCHANGED exit

\* _cancel_launch: terminate ...
StopChild ==
    /\ launcher = "stop"
    /\ launcher' = "reap"
    /\ IF Alive THEN Interrupt ELSE UNCHANGED <<child, verdict, exit>>
    /\ UNCHANGED <<job, read, waited, clocks, faults>>

\* ... wait, and kill what is still there.
ReapChild ==
    /\ launcher = "reap"
    /\ launcher' = "error"
    /\ IF Alive THEN child' = "ended" /\ exit' = "killed"
                ELSE UNCHANGED <<child, exit>>
    /\ UNCHANGED <<job, read, verdict, waited, clocks, faults>>

\* _record_launch_error, as far as the file can be written.
RecordError ==
    /\ launcher = "error"
    /\ \/ job' = "error" /\ UNCHANGED faults
       \/ Fault /\ UNCHANGED job
    /\ launcher' = "failed"
    /\ UNCHANGED <<read, childVars, clocks>>

LauncherStep ==
    \/ Prepare \/ Spawn \/ ReadState \/ WriteRunning
    \/ StopChild \/ ReapChild \/ RecordError

-----------------------------------------------------------------------------
(* The child.                                                              *)

launcherVars == <<job, launcher, read>>

Boot ==
    /\ child = "boot"
    /\ child' = "await"
    /\ UNCHANGED <<launcherVars, verdict, exit, waited, clocks, faults>>

\* _await_running_state: the round that decides.
AwaitRunning ==
    /\ child = "await"
    /\ \/ job = "running" /\ child' = "verify"
       \/ job \in Terminal /\ child' = "refuse"
       \/ waited >= Patience /\ child' = "refuse"
    /\ UNCHANGED <<launcherVars, verdict, exit, waited, clocks, faults>>

\* Seeded fault: a child that gives up leaves the record as it is.
Refuse_Silent ==
    /\ child = "refuse"
    /\ child' = "ended" /\ exit' = "error"
    /\ UNCHANGED <<launcherVars, verdict, waited, clocks, faults>>

\* _running_state_failure: a terminal state is left as it is.
Refuse ==
    /\ child = "refuse"
    /\ \/ job \in Terminal /\ child' = "ended" /\ exit' = job /\ UNCHANGED verdict
       \/ job \notin Terminal /\ child' = "update" /\ verdict' = "error"
          /\ UNCHANGED exit
    /\ UNCHANGED <<launcherVars, waited, clocks, faults>>

\* The state cannot be made out: the exception hook takes over.
ReadFails ==
    /\ child \in {"await", "refuse"}
    /\ Fault
    /\ child' = "hook" /\ verdict' = "error"
    /\ UNCHANGED <<launcherVars, exit, waited, clocks>>

\* quiet.main returns an exit code, or an exception reaches the hook.
RunVerifier ==
    /\ child = "verify"
    /\ \/ child' = "update" /\ verdict' \in {"passed", "failed"}
       \/ child' = "hook" /\ verdict' = "error"
    /\ UNCHANGED <<launcherVars, exit, waited, clocks, faults>>

\* Seeded fault: an update that finds a terminal state keeps it.
WriteTerminal_First ==
    /\ child \in {"update", "hook"}
    /\ job' = IF job \in Terminal THEN job ELSE verdict
    /\ child' = "exiting"
    /\ UNCHANGED <<launcher, read, verdict, exit, waited, clocks, faults>>

\* mark_async_terminal replaces the status, whatever it was.
WriteTerminal ==
    /\ child \in {"update", "hook"}
    /\ job' = verdict
    /\ child' = "exiting"
    /\ UNCHANGED <<launcher, read, verdict, exit, waited, clocks, faults>>

\* A failing update raises: the exception hook makes another one, and if that
\* fails the child ends unrecorded.
UpdateFails ==
    /\ child \in {"update", "hook"}
    /\ Fault
    /\ child' = IF child = "update" THEN "hook" ELSE "exiting"
    /\ verdict' = "error"
    /\ UNCHANGED <<launcherVars, exit, waited, clocks>>

\* The process ends with the code that goes with what it wrote.
Exit ==
    /\ child = "exiting"
    /\ child' = "ended" /\ exit' = verdict
    /\ UNCHANGED <<launcherVars, verdict, waited, clocks, faults>>

ChildStep ==
    \/ Boot \/ AwaitRunning \/ Refuse \/ ReadFails \/ RunVerifier
    \/ WriteTerminal \/ UpdateFails \/ Exit

-----------------------------------------------------------------------------
(* Who waits for the job.                                                  *)

\* Seeded fault: every end but a pass is told as a failure of the checks.
Told_AsChecks(status) == IF status = "passed" THEN "passed" ELSE "failed"

\* _terminal_state_result: each status has its own result; a manifest of the
\* run only adds detail to a pass or a failure it agrees with.
Told(status) == status

\* query_verifier_run_once, until it is terminal.
Observe ==
    /\ told = "none"
    /\ job \in Terminal
    /\ told' = Told(job)
    /\ UNCHANGED <<launcherVars, childVars, lag, signals, faults>>

\* A state that cannot be made out is told as an error, for good.
ObserveFails ==
    /\ told = "none"
    /\ Fault
    /\ told' = "error"
    /\ UNCHANGED <<launcherVars, childVars, lag, signals>>

\* wait_for_verifier_run: pending when the wait's own time is over.
GiveUp ==
    /\ told = "none"
    /\ job \notin Terminal
    /\ told' = "timeout"
    /\ UNCHANGED <<launcherVars, childVars, lag, signals, faults>>

ObserverStep == Observe \/ ObserveFails \/ GiveUp

-----------------------------------------------------------------------------
(* The outside world.                                                      *)

Signal ==
    /\ signals < MaxSignals /\ Alive
    /\ Interrupt
    /\ signals' = signals + 1
    /\ UNCHANGED <<launcherVars, waited, lag, told, faults>>

KillChild ==
    /\ "child" \in Killable /\ Alive
    /\ child' = "ended" /\ exit' = "killed"
    /\ UNCHANGED <<launcherVars, verdict, waited, clocks, faults>>

KillLauncher ==
    /\ "launcher" \in Killable
    /\ launcher \notin {"launched", "failed", "dead"}
    /\ launcher' = "dead"
    /\ UNCHANGED <<job, read, childVars, clocks, faults>>

\* Between the spawn and its last write the launcher may be held up.
LauncherBusy == launcher \in {"read", "write", "stop", "reap", "error"}

Waits == IF waited < Patience THEN waited + 1 ELSE waited

Tick ==
    /\ LauncherBusy => lag < LauncherLag
    /\ lag' = IF LauncherBusy THEN lag + 1 ELSE lag
    /\ waited' = IF child = "await" THEN Waits ELSE waited
    /\ UNCHANGED <<launcherVars, child, verdict, exit, told, signals, faults>>

JobNext ==
    \/ LauncherStep \/ ChildStep \/ ObserverStep
    \/ Signal \/ KillChild \/ KillLauncher \/ Tick

JobSpec == JobInit /\ [][JobNext]_jobVars

\* Both processes go on while they live, and time passes.
FairSpec == JobSpec /\ WF_jobVars(LauncherStep) /\ WF_jobVars(ChildStep) /\ WF_jobVars(Tick)

-----------------------------------------------------------------------------
\* No job is at work behind a launch that was reported failed or did not get to
\* its end, and while one is the file says so: none of the launcher's error
\* paths, which do not all stop the child, leaves a child that runs the checks.
VerifiesBehindRecord ==
    child = "verify" => launcher = "launched" /\ job = "running"

\* "atomically persist passed, failed, error, or cancelled with the real process
\* exit code": once launcher and child are done, a terminal record tells how the
\* child ended, in spite of signals that arrive during the child's own update.
RecordIsReal ==
    /\ child = "ended" /\ exit # "killed" /\ faults = 0
    /\ launcher = "launched" /\ job \in Terminal
    => job = exit

\* What the wait for the job was told is how the child ended: a record read
\* early is not overtaken by the launcher or by another end of the child, except
\* that a signal may still cancel a child that has already recorded its result.
ToldIsTheEnd ==
    /\ told \in Terminal /\ launcher = "launched" /\ faults = 0
    /\ child = "ended" /\ exit # "killed"
    => told = exit \/ (exit = "cancelled" /\ signals > 0)

\* Unless the child is killed outright, signalled, fails to reach the file or
\* meets a launcher slower than its patience, it brings its job to a terminal
\* record, also when the launcher dies half way.
JobEnds ==
    child = "boot"
        ~> \/ job \in Terminal
           \/ exit = "killed" \/ signals > 0 \/ faults > 0 \/ lag >= Patience

=============================================================================
