# Formal models of agent-maintainer

TLA+ models of the concurrent and failure-prone parts of agent-maintainer, the
TLC runs that check small instances of them, and TLAPS proofs of what holds for
every instance. Paths are relative to the repository's root, which the project
calls `src/`.

Agent-maintainer runs quality checks for coding agents. Most of it is sequential
Python that turns configuration, a diff and tool output into a report. What is
hard to test is small and sits in four places: several processes share JSON
files below `.agent-maintainer/waits` and `.verify-logs`, with lock files,
leases and deadlines between them; detached processes are started, signalled and
killed at any point; children of a command have to be stopped when it takes too
long; and installations replace several files and have to undo that when one
step fails. All four are modelled, and with them the experimental task broker,
whose agents share JSON files without any lock.

## 1. Inventory

| part (source) | state it keeps | operations | who it interacts with |
|---|---|---|---|
| record lock (`src/agent_waits/record_lock.py`) | a lock file per wait, its modification time | `wait_record_lock`, `_break_stale_lock` | every writer of a wait record |
| wait registry (`src/agent_waits/registry.py`, `notifications.py`, `watcher_state.py`, `heartbeat.py`) | one JSON record per wait: status, terminal result, deadline, `updated_at`, claims | register, observe, complete, mark_resumed, claim/finish/repair of the notification, observation claims, heartbeat claim, cleanup, watcher marks | sweeper, watchers, daemon, command line, hooks |
| wait processes (`src/agent_maintainer/wait/`) | their place in a loop, the record they read, the answer of a query; rewake envelopes; the daemon's idle clock | `sweep_once`, `sweep_record`, `watch_wait`, `run_daemon`, `resume_if_available`, `ensure_wait_daemon` | GitHub, verifier artifacts, launchd, the Codex app server |
| watcher repair (`wait/wait_repair.py`, `wait/broker.py`) | watcher strategy, pid, last poll, repair claim in the record | `repair_waits`, `start_registered_watcher` | registry, launchd, detached watchers |
| verifier lock (`src/agent_maintainer/verify/locking.py`, `quiet.py`) | a lock file, the last result with its fingerprint | `__enter__`, `__exit__`, `try_acquire`, `reusable_result`, `break_stale_lock`, `write_result` | hooks and people that start verifiers, the working tree |
| asynchronous job (`verify/async_state.py`, `async_jobs.py`, `async_child.py`) | one state file per job | launch, mark running, mark terminal, cancel, signal handler, exception hook | launcher, child, the wait that watches the job |
| bounded child processes (`core/command_run.py`, `mcp/process.py`, `attention/git_output.py`, `src/docsync/git/process.py`) | a child process, its group, its streams | timeout, output limit, kill | checks, MCP clients, git |
| initializer, hook and skill installation (`core/scaffold/`, `hooks/mutations.py`, `skill/transactions.py`) | files to replace, backups, what has been written | back up, replace, roll back | the user's repository and home directory |
| run artifacts (`verify/artifacts.py`, `verify/partial_runs.py`, `src/agent_run_artifacts/`) | snapshots, manifests, the failure note, summary, last result | write, prune, aggregate | verifiers, reports, `doctor` |
| task broker (`experiments/agent-task-broker/`) | board, tasks, attempts, results and locks in JSON files | init, add, claim, finish, claim_lock, release_lock | agents |
| everything else (configuration, planning, catalogs, ecosystems, ratchet, contracts, test intelligence, context, attention, repair facts, assess, doctor, report, archguard, docsync) | none that outlives a call, or one file written atomically | pure functions, static analysis, rendering | the parts above |

Which behaviours are hard, and what makes each part correct:

* *Record lock.* A file older than 30 s counts as a dead process's; waiters give
  up after 5 s. `stat` and `unlink` are two steps, and the `finally` clause
  unlinks whatever is at the path. Correct: two processes are never inside the
  transition of one record, and nobody waits for ever.
* *Registry.* Any process may run any transition at any time, with what it read
  long before; registration looks for an existing record without the lock.
  Correct: the result is decided once, a notification is attempted at most once,
  a failed or abandoned attempt is never repeated, nothing is announced before
  it is decided, one target has one active record.
* *Wait processes.* A query or an app-server call takes longer than leases and
  idle timeouts; `launchctl kickstart -k` kills a running daemon on each
  registration. Correct: at most one app-server call per wait; a verdict written
  late is still true; claims and waits do not stay open for ever.
* *Verifier lock.* The lock is judged by its age, the fingerprint is taken before
  the wait, the repository changes meanwhile. Correct: runs do not overlap; a
  reused outcome is about the state that was asked for.
* *Asynchronous job.* Launcher and child update one file without a lock;
  signals, failing writes and kills come at every point. Correct: no checks run
  behind a launch that failed; a job's final record tells how it ended, and so
  does what the wait for it was told, however early it looked.
* *Child processes.* Two threads drain two pipes, a third may kill, descendants
  inherit the pipes and outlive the leader, reads and signals fail. Correct: the
  call returns, leaves nothing running, and reports success only with complete
  output; a deadline is never reported as a failure of the child.
* *Installation.* The user edits between plan and apply, any file operation may
  fail, also in the rollback, the process may die. Correct: nothing of the
  user's is lost, and the report says what stands.
* *Run artifacts.* Runs update shared files and prune each other's snapshots
  while the repository moves; two partial runs are put together as evidence.
  Correct: evidence is complete and about one state, the files a run leaves are
  of that run, retention removes the oldest only.
* *Task broker.* Commands read, decide and write several files, and may be
  killed between two of them. Correct: agents do not hold overlapping scopes,
  and what a command reported stays.

`PROJECT.json` lists every component with its status, and every hazard at its
line with the property that covers it or the reason why none does.

## 2. Modules

| module | models | state and actions in the code |
|---|---|---|
| `RecordLock` | `wait_record_lock` | `pc`: the line of the acquisition loop; `owner`, `age`: the lock file; `left`: the deadline; `Collide`..`Retry`: one round of the loop, `StatStale`/`BreakStale` its two system calls, `Release` the `finally` clause, `Crash` a death that leaves the file |
| `WaitPromise` | nothing in the code: what the registry promises | `outcome` and `attempt` of each wait; decide once, attempt at most once |
| `WaitRegistry` | the transitions of a record | `status`, `result`, `notified`, `observed` are fields of the record; `age` and `left` stand for `updated_at` and `deadline_at`; registration is `LookForRecord` and `Register` (`looked`: registrations between the two, `crossed`: those that met another there); otherwise one action for each function that locks, re-reads and writes a record |
| `WaitDelivery` (extends `WaitRegistry`) | the processes | `at`, `on`, `got`: the place, the wait and the unapplied answer of each watcher and of the daemon; `todo`: what is left of the daemon's phase; `envelope`, `quiet`, `passing`: its clocks; `calls`: calls made, for the properties only |
| `VerifyLock` | `VerificationLock` and `quiet.main` around it | `lock`, `age`, `result`: the two files; `print`, `seen`, `waited`: locals of a verifier; `tree`: the repository; `strayed`: somebody edited it under a verifier, `overstayed`, `raced`: how a lock can fail, all three for the properties only |
| `WatcherRepair` | `wait_repair.py`, `broker.py`, `watcher_state.py` | `meta`: the watcher metadata of one record; `pc`, `new`: the line and the started process of each registering or repairing client; `alive`, `booting`, `since`: detached watchers; `daemon`: the launchd agent; one action for each locked transition of the metadata and each start |
| `AsyncJob` | launcher, child, state file and the wait that polls it (`wait/verifier.py`) | `job`: the status in the file; `launcher`, `child`: their places; `read`, `verdict`: what each is about to write; `told`: what the wait was told |
| `ChildProcess` | four runners of one child | `place`: the line of the calling thread; `reader`, `timer`: the draining threads and the watchdog; `written`, `drained`, `taken`: units of each stream in the pipe, in a pending read and returned; `alive`, `holds`, `code`: the group, those of it that hold the pipes, and its leader; `refused`: a kill the system refused; one action for each wait, read, signal and kill |
| `AllOrNothing` | nothing in the code: what an installation promises | `due`, `net`, `verdict`: what shall change, what stands, what is reported |
| `Installation` | `hooks/mutations.py`, `core/scaffold/transaction.py`, `setup_plans.py`, `skill/transactions.py` | `phase`: the line; `seen`: destinations at planning; `saved`, `manifest`: backups and `rollback.json`; `written`, `errors`: replacements done and rollbacks failed; `theirs`, `late`: the user's versions, for the properties only |
| `RunArtifacts` | a run from fingerprint to release, pruning, aggregation | `pc`: the line of each run; `recent`, `inside`: the snapshot directories by modification time and what they hold; `latest`, `note`, `summary`, `result`: the shared files; `Aggregate`: `aggregate_partial_manifests` |
| `TaskBroker` | `store.py`, `locks.py` of the broker | `listed`: `board.json`; `task`, `attempt`, `result`, `locks`: the other files; `pc`, `job`: the line of each agent's command and what it is about to write; `told`, `held`, `disturbed`, `raced`, `gap`: what was reported and which commands met, for the properties only |
| `MC*` | small instances | model values, symmetry |
| `*_proofs` | theorems | see section 5 |

`WaitRegistry` takes a locked transition as one step. `RecordLock` says when
that is right, and section 4 when it is not. `RunArtifacts` takes an
acquisition of the verifier's lock as one step and lets the lock be broken at any
time; `VerifyLock` has the details. `WaitDelivery` composes the
registry with its clients by extending it: every step of a process is a step of
the registry, a tick of its clock or leaves it alone, which is a theorem
(`DeliveryUsesRegistry`).

Time. All deadlines, leases and ages are counted in ticks, saturating at the
last value the code can tell apart. A tick is longer than the work a process
does between two calls to the outside; queries, app-server calls, checks and
held locks may last several ticks.

What is left out on purpose. JSON layout, wording, logging and telemetry; names
of targets (a target is a model value with one final state); the app server's
protocol (a call returns or fails, and the code treats both alike: it records
`notify_failed`); `launchctl` failures. The results of checks are abstracted to
the state of the repository they have seen.

An operator named `Name_Fault`, with the comment "Seeded fault", is a plausible
bug in `Name`. It is used nowhere in the specification; `PROJECT.json` pairs each
property with one such fault that TLC must find. A property whose fault is not
found would say nothing about the code.

## 3. Runs

Every property of section 3 is checked by TLC; bounds are constants of the
modules, never part of the code's guards.

| run | question | instance |
|---|---|---|
| `record_lock` | is the lock exclusive unless two breakers raced or a holder overstayed, are only dead files broken until then, does every acquisition end? | 3 processes, 2 deaths, holds of up to twice the stale bound |
| `delivery_watchers` | does the record keep the promise, is nothing announced undecided, one call at most, true verdicts, claims abandoned only by deaths? | 1 wait, 2 watchers, the daemon, clients that repair, expire or mark it resumed, 1 registration, 1 death |
| `delivery_daemon` | does the daemon leave an open claim or a swept wait behind when it retires, does every claim end? | 2 waits with targets of their own and a timeout of 2, 2 registrations that may kill the daemon, lease and passes of 1 tick, idle timeout of 3 |
| `delivery_watch` | does a watcher end once its wait is decided? (no) | 1 wait, 1 watcher, manual maintenance |
| `watcher_repair` | does the record name its watcher, do repairs exclude each other, do they spare watchers that poll, do they restore polling? | 1 registration, 2 repairers, 2 watchers of which 1 may die, 1 failing step or dead client |
| `verify_lock` | do runs exclude each other, also behind a dead one's file, are outcomes reused at rest and for the state they are about? | 3 verifiers (one forced), 2 repository states, 2 edits, 1 death |
| `async_job` | do checks only run behind a record, are the final record and what the wait was told real, does an undisturbed child reach a record? | 2 signals, 2 failing file operations, deaths of both, a launcher delayed beyond the child's patience |
| `child_process` | is success complete, what is left running, is a deadline told, does every call end? | 4 runners, 2 descendants, a limit of 3 units, reads of 2, pipes of 2, 5 units on each stream, 2 faults |
| `child_terminated` | does a timeout of a checked command end its children? (no) | the command runner alone, otherwise as `child_process` |
| `installation` | is nothing lost, is the report true, does each installer implement the abstract one? | 4 installers, 3 files, 2 texts, 2 edits, 3 faults, a death anywhere |
| `run_artifacts` | does aggregated evidence answer for every selected check, do a run's files stand alone, are the newest snapshots kept? | 3 runs of 2 groups, 3 states on 2 commits, 0 or 2 snapshots kept, 1 edit, broken lock or death |
| `task_broker` | do two tasks never hold a common file, are reports of the board kept? | 2 agents, 4 scopes, 4 commands with kills anywhere, at most 4 tasks |

`delivery_watch` and `child_terminated` are the runs that expect a violation.
The registry has no run of its own: its transitions are checked under the
processes that make them, and proved about in any order (section 5).

Why the bounds are enough. The races need two contenders and a third party that
is dead, stale or late; the instances have all three. Every timing constant is at
least one tick and the constants are ordered as in the code where the order
matters: waiting time no longer than the stale bound; a watcher's interval shorter than the
repair's stale bound (20 s and 60 s by default). The
exception is `delivery_daemon`, whose idle timeout is longer than a lease and a
pass: by default it need not be, and the properties then allow a claim to stay,
as section 4 says. Output may exceed the limit by
more than one read, and the pipe is smaller than the limit, so writers block. Three
files let two replacements succeed before the third fails; three faults let both
rollbacks fail as well. Three runs let one prune what another has left while a
third is the newest; a commit that two states share separates an edit the
aggregate notices from one it does not. Four commands of two agents let each of
two meet the other twice, or two numbers be given, one released and a third be
given. One death lets a process leave any state behind; two in the record lock let a second dead file follow the
first. Deadlock checking is off in the configurations because the processes do
come to an end: a finished watcher, a retired daemon and an exhausted bound have
no next step.

Fairness. `WF` on the steps of a live process is what an operating system gives
a process that is not blocked. It is never assumed of a death, a signal, an
edit, a registration, a manual command or the target's end, with one
exception: `PollingRestored` asks what repair achieves if it is run again and
again, so there `WF` stands for the operator who does, and registrations and
watchers may stop anywhere. `WF` on the tick
says that time passes. A query's and an app-server call's return is covered
by the fairness of the process, because both have timeouts in the code. `CallEnds`
assumes that the runner's threads run and time passes, and nothing of the child:
it may write, sleep and fork as it likes. None of
the liveness properties depends on strong fairness.

## 4. What the runs show

The registry keeps its promise in every order of its transitions. With two
watchers, a daemon, manual repair and deaths anywhere, the app server is called
at most once for a wait, because the claim is durable before the call and no
transition leads back to `ready`. An answer that comes back late is only written
while the wait is pending, so a verdict is never false and a timeout never early.

An installer's report is true, also when the rollback fails, with one exception:
a skill whose old directory cannot be purged is reported as "failed before
replacement" while the new one stands. A run that meets no other leaves a
consistent set of files whatever dead runs left before it.

In two places the code does not do what the repository says of it.
`delivery_watch`: `watch_wait` knows only `ready` and `notify_failed` as ends, and
a wait another process has moved on is polled for ever. `child_terminated`:
`_terminate_posix_group` takes its second step, `SIGKILL` to the group, only if
the leader is still there after the grace period, so a child that ignores
`SIGTERM` survives a leader that does not, although "Timeout cleanup terminates
children spawned by the checked command" (`tests/core/test_command_run.py`, whose
child has the default handler).

Other limits show as the conditions under which properties hold; each condition
is needed, TLC finds the property violated without it:

* `Serialized` excepts two waiters that judge one dead file stale: the second
  unlinks the fresh file of the first and both are inside; and holders that stay
  longer than the stale bound, whose own release then unlinks another's file.
* `OneRecordEach`, which is proved only, excepts registrations that cross: both
  look before either writes, and the target gets two records, each waited for
  and announced.
* `RecordIsReal` is about successful launches whose state file could always be
  reached.
* `ReusesAtRest` excepts edits under a verifier: an outcome is filed under the
  fingerprint taken before the checks, and can be reused when an edit is taken
  back.
* `RunsExclude` and `ReusesAtRest` except runs longer than `LOCK_STALE_SECONDS`:
  nothing renews the lock file of a long run, and a waiter removes it while its
  creator lives. They also except two waiters that have both found a file stale
  before either removed it: the second removes the fresh file of the first. A
  death by itself is no exception: one waiter removes the dead one's file, and
  the runs behind it exclude each other.
* `ClaimEnds` and `RetiresClean` name their conditions. A claim open while the
  daemon runs ends unless a process dies, or the daemon retires first; and it
  can only do so if its idle timeout is no longer than a lease and a pass. By
  default it is not: an app-server call may last 3600 s and the idle timeout is
  1800 s, and the loop condition is tested between passes only. Then the daemon
  retires before its next repair, and a claim orphaned by `kickstart -k`, or held
  by a watcher, stays `notifying` until somebody runs `wait repair`. A claim left
  in this way is at most a lease and a pass old.
* `OneRepair` excepts repairs after a start was recorded as failed:
  `mark_watcher_failed` replaces the strategy also when it is another client's
  repair claim, and the old poll makes the record eligible at once.
* `RepairsTheDead` excepts a record that an earlier repair left claimed: the
  watcher it started may be alive and polling, but a claim is judged by its own
  age only.
* `PollingRestored` excepts records that name launchd: a loaded agent counts as
  an active watcher although its daemon has retired, and repair skips the wait.
* `JobEnds` excepts a child that was killed outright, because nobody else writes a
  terminal record, and one that was signalled: the launcher's `running` may
  overwrite its `cancelled`, of which `src/tests/verify/test_async_child.py:79`
  tests the other order only.
* `NothingLeft` names what a call may leave behind. The leader: if the call was
  interrupted while it terminated the group (`command`), twice while it killed or
  joined, or once while the leader had let go of its pipes or could not be killed
  (`mcp`, `docsync`), or at any time (`attention`, whose timer goes on). Holders of
  the pipes: if no stream was read to its end. Anybody after a kill: if the kill
  reached the leader alone. It says nothing of descendants that have redirected
  their output, or whose runner has no pipes, and whose leader ended by itself:
  no runner looks for those.
* `CallEnds` excepts descendants that outlive the leader and keep the pipes open,
  because none of the runners with pipes kills once the leader has ended;
  interrupted `mcp` and `docsync` calls, which join their threads without a
  deadline; and leaders the kill was refused for.
* `CompleteOrTold` excepts failed reads in `attention`, which come back as an
  empty success, and in `mcp` when the leader had ended.
* `NothingLost` and `LeavesWhatItSays` except files written after the
  installer's last look. Hooks decide about backups when they plan, so a file
  created between plan and apply is replaced without one. `LeavesWhatItSays` and
  `ReportsTruly` except the purge of a skill's old directory when it fails
  (`PurgeFails`): the caller is told that nothing was replaced.
* `EvidenceIsComplete` does not say that every selected check has run: the
  aggregate accepts a check that was skipped, for any of five reasons. And it is
  about commits: the aggregate compares the commit of each
  manifest with the fingerprint, so an edit that is not committed, made while
  checks run, goes unnoticed, and so does a commit that is left and returned to.
* `StandsAlone` and `KeepsNewest` except runs that overlapped after a broken lock:
  one may remove a snapshot another has touched since it looked, and keep fewer
  than configured. A run killed between note and result leaves files of
  different runs until the next one ends.
* `ScopesExclude` excepts three cases: commands that met between look and write;
  a lock released before a later one, because the next number is the number of
  locks plus one and the claim overwrites the later one's file; and two scopes
  with wildcards, which are not compared with each other.
* `ToldIsKept` excepts tasks whose commands met half way: each writes back what
  it made of what it had read; and every task once two additions met, because
  the list of the board may then roll back. A claimed task may be claimed again,
  and any agent may file its result: that is what the code says, and nothing in
  the property denies it.

## 5. Proofs

Each theorem holds for every value of the constants under the module's named
assumption (`LockAssumption`, `RegistryAssumption`, `DeliveryAssumption`,
`VerifyAssumption`, `JobAssumption`, `RepairAssumption`, `ChildAssumption`,
`InstallationAssumption`, `ArtifactsAssumption`, `BrokerAssumption`): constants
are natural numbers where they count ticks, "nothing" values are no members of
the sets they stand beside, the events and results include those the code names,
no check has the name of a file that a snapshot holds besides the logs, and a
lock's target has at least one segment. TLC evaluates them in every run.

* `RecordLock_proofs`: `TypeCorrect`; `SerializedTransitions` and
  `DeadFilesOnly` from an invariant about the file. Mutual exclusion alone is
  not inductive: one has to know that a live holder's file is its own and no
  older than its hold (`HolderOwnsFile`), that whoever is about to unlink still
  has a stale file before it (`BreakerSeesStaleFile`) and is alone
  (`OneBreaker`). A fresh file and a breaker exclude each other, so nobody enters
  while somebody is inside.
* `WaitDelivery_proofs`, first of the registry alone: `TypeCorrect`,
  `AnnouncementsDecided`, and `RegistryKeepsPromise`, the refinement of
  `WaitPromise`: each transition maps to `Decide`, `Begin`, `End` or a stutter.
  It needs that an absent or pending record has no result (`UndecidedBefore`).
  `OneRecordPerTarget`: a registration that has looked and met no other still
  has no active rival (`LooksAlone`), because only the write of a registration
  makes a record active (`ActiveByWrite`).

  Then of the processes: `DeliveryUsesRegistry`, the composition theorem, from
  the invariant `Places` (a process in a wait's code is on a wait). It carries
  the registry's theorems over to the processes. `CalledAtMostOnce` adds
  `OneNotifier`: a notifier's wait has left the early statuses, and no step
  leads back (`NoWayBack`); so a wait that can still be claimed was never
  called, a claimed one not yet. `DeliveryTypeCorrect`. `VerdictsAreTrue` needs
  that an answer on its way is true as well (`Verdicts`), and that a deadline
  once over stays over (`DeadlineStaysOver`). `OrphansNeedDeath` needs that
  before the first launch there is no daemon a launch could kill (`Lives`).

  `DaemonRetiresClean` holds without hypotheses and has two parts. While the
  daemon runs, an open claim is younger than the lease when the repair has gone
  by, and by no more than the pass older after it (`Young`), whoever made it:
  only time makes a claim older (`Fresh`). And without watchers, a claim the
  daemon does not hold itself was left behind by an earlier daemon, so it is at
  least as old as the present one's idle clock shows (`Aged`). A repair that
  spares it therefore comes early on that clock; the rest of the pass adds
  `PassTime` at most and the sleep one tick, which is less than the idle timeout
  if that is longer than a lease and a pass (`Spared`).
* `VerifyLock_proofs`: `TypeCorrect`, `RunsExcludeEachOther`, `ReuseAtRest`.
  `OwnFile` ties the lock file to the one verifier inside, and a stale file, as
  well as one that a waiter is about to remove, to a dead verifier, until a run
  has overstayed or two waiters have raced; `Matched` and `Printed` tie what a verifier has read to its
  fingerprint, and `Faithful` the recorded outcome to the state it was computed
  from.
* `VerifierRuns_proofs`, of the asynchronous job: `TypeCorrect`,
  `VerificationIsRecorded`. Only a launcher that is through has written
  `running`, and it writes nothing afterwards. `RecordTellsTheEnd` needs `Real`:
  a terminal record is the child's verdict already while it is on its way out.
  `ToldTheEnd` needs that nobody was told anything before the spawn (`Unspawned`)
  and that a child whose record was read only leaves its way out for a
  cancellation (`ToldReal`).

  Of what runs leave behind: `EvidenceComplete` rests on `EvidenceInv`. As long as
  the repository moved once at most, the checks of a run have seen nothing but
  the fingerprinted state and the present one (`Seen`), so what they have seen is
  of the fingerprinted commit or of the one its manifest names (`Vouched`), and
  the aggregate compares these two. Outcomes no longer change once a manifest
  can exist (`PastIsSettled`). `RetentionKeepsNewest` is a pigeonhole argument:
  whoever works beside a run that met no other has begun after it
  (`WorkersAreLater`), and so have the owners of the directories ahead of its own
  (`AheadAreLater`); therefore a directory beyond the limit belongs to a run with
  as many later ones as are kept (`ExcessIsOutdated`), which stays so until it
  is removed (`OnlyOutdated`). A run that waits has left nothing (`NothingYet`).
  `LastRunStandsAlone` follows the last run line by line (`Mine`): what it has
  written so far is its own and complete, its directory is in front until it
  prunes, and each removal takes one directory from what is left to remove
  (`ExcessWithout`). `LockKeepsRunsApart` says when the condition "met no other"
  is true of all runs.
* `WatcherRepair_proofs`: `TypeCorrect`, `OneRepairAtATime`,
  `RepairsOnlyTheDead`. What the record's age is measured from is no older than
  the claim of a repairer at work (`ClaimIsFresh`), so an eligible record means
  a slow repairer; it was polled no earlier than any watcher that has polled
  (`PollIsFresh`), so an eligible record has no punctual watcher.
* `ChildProcess_proofs`: `TypeCorrect`, `SuccessIsComplete`, `NobodyIsLeft`,
  `DeadlinesAreTold`. The counters of a stream are ordered and a pending read asks
  for something (`Flow`), so an end of stream means that nobody was left to
  write (`Complete`); a stopped stream means that its reader has killed, was
  refused or came too late (`Stopped`); a call that is over has joined and
  reaped but in the named cases (`Reaped`); a
  kill that reaches the group leaves nobody (`KilledAll`); a kill at the
  deadline follows its mark (`Marked`).
* `Installation_proofs`: `TypeCorrect`, `NothingIsLost`, `ItLeavesWhatItSays`, and
  `ReportsAreTrue`, the refinement of `AllOrNothing` by all four installers, each
  of whose steps but `PurgeFails` is one of its steps or a stutter.
  `Shape` and `Progress` say which installer can be where and what it has written
  by then, `Aside` follows the directory of a skill, `Kept` says where each of
  the user's versions is, `Stands` that what was written is as planned.

* `TaskBroker_proofs`: `TypeCorrect`; `LocksExclude` and `ReportsAreKept`. For the
  locks, `Apart` says that until a race or a gap the numbers of the locks have no
  gap, every lock that was granted is in the file of its number, and nobody holds
  or is about to write a lock that conflicts with one on file; the rest is about
  scopes: two of them that cover a common file and do not both have wildcards are
  found by the comparison. For the board, `OneAddition`: one addition at most is
  under way; `Fresh`: one command at most is under way on an undisturbed task,
  and what it is about to write was made of the task as it is; `Kept`: what was
  reported of an undisturbed task still holds. A later claim of the task has one attempt
  more, so it leaves an attempt that was reported alone.

Each strengthening was checked as an invariant by TLC before it was proved. Every
invariant and every action property that a passing run checks is a theorem.

Only model-checked: the liveness properties (`WaitEnds`, `ClaimEnds`,
`SweptIsResolved`, `PollingRestored`, `JobEnds`, `CallEnds`), which rest on
fairness and are out of the prover's reach. The finding of `delivery_watch` is a
counterexample of TLC, and so is that of `child_terminated`.

## 6. Plan

Done: 1 `RecordLock`, 2 `WaitPromise` and `WaitRegistry`, 3 `WaitDelivery`,
4 `VerifyLock`, 5 `AsyncJob`, 6 `WatcherRepair`, 7 `ChildProcess`,
8 `AllOrNothing` and `Installation`, 9 `TaskBroker`, 10 `RunArtifacts`, each with
its proofs.

Next, in this order:

11. The app server's client (`wait/codex_app_server.py`): the thread that reads
    the answers, their queue, the deadline and the exit of the server, which may
    be seen before an acceptance that is already in the pipe.
12. Pure operators: ratchet comparison, run selection and plan ordering against
    reference definitions.
13. A document that promises a notification would make the rewake envelope that
    is deleted before the claim (`wait/daemon_state.py:56`) a property; today
    none does.

### Not modelled

Most of the repository's lines are sequential functions from text to text, which
tests reach by value and a model would only repeat. The share of lines the models
stand for is small for that reason.

* Configuration, verifier planning, catalogs, checks, ecosystem providers: tables,
  parsing of TOML and of tool output, construction of commands. The selection of
  checks by group is in `RunArtifacts`.
* Ratchet and contract baselines, test intelligence, archguard, docsync: static
  analysis of a tree that nobody changes meanwhile; a baseline is one file,
  replaced atomically. Their git commands are a runner of `ChildProcess`.
* Assessment, doctor, reports, scoring, context, attention, repair facts: read-only
  reports, rendering and budgets.
* Runtime events: telemetry that is appended at best effort and decides nothing.
* MCP tools, initializer templates, client hooks, skill bundles: requests, merges,
  hashes and rendering around a child process or a transaction that is modelled.
* Of the wait processes: one-shot sweeps of the command line (a subset of the
  daemon's), `launchctl` failures, the app server's protocol.
* Of the installers: merging of contents, and permissions.
* Of the broker: worktree plans, adapters, rendering, and files truncated by a kill
  in the middle of a write (the next reader ends with an error, which
  `Abort` allows at any step).

## 7. Running

In this directory, with the TLA+ tools on the path:

    tlc -workers 2 -config MCWaitDelivery_watchers.cfg MCWaitDelivery
    tlapm WaitDelivery_proofs.tla

`PROJECT.json` names the module, the configuration and the expected outcome of
every run.
