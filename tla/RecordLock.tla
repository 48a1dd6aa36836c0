----------------------------- MODULE RecordLock -----------------------------
(***************************************************************************)
(* The per-record lock file of the durable-wait registry                   *)
(* (agent_waits/record_lock.py).  A process that wants to change a wait     *)
(* record creates the lock file exclusively, runs a brief read-modify-write *)
(* body and unlinks the file.  A file whose modification time is older than *)
(* LOCK_STALE_SECONDS is taken for the leftover of a dead process and is    *)
(* removed by whoever waits; the stat that judges it and the unlink that    *)
(* removes it are two system calls.                                         *)
(*                                                                         *)
(* Time is measured in ticks.  Nothing depends on absolute time, so the     *)
(* model keeps ages and remaining waits, each saturating at the last value  *)
(* the code can tell apart.                                                 *)
(***************************************************************************)
EXTENDS Integers, FiniteSets

CONSTANTS
    Proc,        \* processes that change one wait record
    NoProc,      \* "the lock file does not exist"
    LockWait,    \* LOCK_WAIT_SECONDS in ticks
    LockStale,   \* LOCK_STALE_SECONDS in ticks
    MaxHold,     \* bound: the longest time a live process stays in the lock
    MaxCrashes   \* bound: process crashes in one behaviour

ASSUME LockAssumption ==
    /\ NoProc \notin Proc
    /\ LockWait \in Nat
    /\ LockStale \in Nat
    /\ MaxHold \in Nat
    /\ MaxCrashes \in Nat

VARIABLES
    pc,        \* where each process stands in wait_record_lock
    left,      \* ticks before each waiter's deadline
    owner,     \* the process that created the lock file, or NoProc: no file
    age,       \* age of the lock file
    held,      \* how long each process has been inside the lock
    crashes,   \* crashes so far
    disturbed  \* history: two processes were about to unlink a stale file,
               \* or one stayed inside the lock for longer than LockStale

lockVars == <<pc, left, owner, age, held, crashes, disturbed>>

Locations == {"idle", "create", "stat", "unlink", "deadline", "holding",
              "timeout", "crashed"}

\* The ages that _break_stale_lock can tell apart: up to one past the bound.
OldestAge == LockStale + 1

TypeOK ==
    /\ pc \in [Proc -> Locations]
    /\ left \in [Proc -> 0..LockWait]
    /\ owner \in Proc \union {NoProc}
    /\ age \in 0..OldestAge
    /\ held \in [Proc -> 0..MaxHold]
    /\ crashes \in 0..MaxCrashes
    /\ disturbed \in BOOLEAN

Init ==
    /\ pc = [p \in Proc |-> "idle"]
    /\ left = [p \in Proc |-> 0]
    /\ owner = NoProc
    /\ age = 0
    /\ held = [p \in Proc |-> 0]
    /\ crashes = 0
    /\ disturbed = FALSE

Goto(p, here, there) ==
    /\ pc[p] = here
    /\ pc' = [pc EXCEPT ![p] = there]

\* Seeded fault: the deadline counts the wait twice.
Enter_DoubleWait(p) ==
    /\ Goto(p, "idle", "create")
    /\ left' = [left EXCEPT ![p] = 2 * LockWait]
    /\ UNCHANGED <<owner, age, held, crashes, disturbed>>

\* A process calls wait_record_lock: the deadline is fixed on entry.
Enter(p) ==
    /\ Goto(p, "idle", "create")
    /\ left' = [left EXCEPT ![p] = LockWait]
    /\ UNCHANGED <<owner, age, held, crashes, disturbed>>

\* os.open(O_CREAT | O_EXCL) succeeds: the lock is acquired.
Acquire(p) ==
    /\ owner = NoProc
    /\ Goto(p, "create", "holding")
    /\ owner' = p
    /\ age' = 0
    /\ held' = [held EXCEPT ![p] = 0]
    /\ UNCHANGED <<left, crashes, disturbed>>

\* FileExistsError.
Collide(p) ==
    /\ owner # NoProc
    /\ Goto(p, "create", "stat")
    /\ UNCHANGED <<left, owner, age, held, crashes, disturbed>>

\* Seeded fault: a file exactly as old as the bound counts as stale.
Stale_AtBound == owner # NoProc /\ age >= LockStale

Stale == owner # NoProc /\ age > LockStale

\* Seeded fault: every file a waiter meets is broken.
StatStale_AnyAge(p) ==
    /\ owner # NoProc
    /\ Goto(p, "stat", "unlink")
    /\ disturbed' = (disturbed \/ \E q \in Proc \ {p} : pc[q] = "unlink")
    /\ UNCHANGED <<left, owner, age, held, crashes>>

\* _break_stale_lock, first system call: stat sees an old file.
StatStale(p) ==
    /\ Stale
    /\ Goto(p, "stat", "unlink")
    /\ disturbed' = (disturbed \/ \E q \in Proc \ {p} : pc[q] = "unlink")
    /\ UNCHANGED <<left, owner, age, held, crashes>>

\* stat sees a young file, or none (the OSError is suppressed).
StatFresh(p) ==
    /\ ~Stale
    /\ Goto(p, "stat", "deadline")
    /\ UNCHANGED <<left, owner, age, held, crashes, disturbed>>

\* _break_stale_lock, second system call: whatever file is there now goes.
BreakStale(p) ==
    /\ Goto(p, "unlink", "deadline")
    /\ owner' = NoProc
    /\ age' = 0
    /\ UNCHANGED <<left, held, crashes, disturbed>>

\* The wait is over: TimeoutError.
GiveUp(p) ==
    /\ left[p] = 0
    /\ Goto(p, "deadline", "timeout")
    /\ UNCHANGED <<left, owner, age, held, crashes, disturbed>>

\* Seeded fault: the deadline is computed anew in every pass.
Retry_NewDeadline(p) ==
    /\ Goto(p, "deadline", "create")
    /\ left' = [left EXCEPT ![p] = LockWait]
    /\ UNCHANGED <<owner, age, held, crashes, disturbed>>

\* Sleep for one poll interval and try again.
Retry(p) ==
    /\ left[p] > 0
    /\ Goto(p, "deadline", "create")
    /\ UNCHANGED <<left, owner, age, held, crashes, disturbed>>

\* The finally clause: unlink the path, whoever created the file there.
Release(p) ==
    /\ Goto(p, "holding", "idle")
    /\ owner' = NoProc
    /\ age' = 0
    /\ UNCHANGED <<left, held, crashes, disturbed>>

\* The caller of a timed-out transition goes on with something else.
Recover(p) ==
    /\ Goto(p, "timeout", "idle")
    /\ UNCHANGED <<left, owner, age, held, crashes, disturbed>>

\* The process dies; the lock file it may have created stays.
Crash(p) ==
    /\ crashes < MaxCrashes
    /\ pc[p] \notin {"idle", "crashed"}
    /\ pc' = [pc EXCEPT ![p] = "crashed"]
    /\ crashes' = crashes + 1
    /\ UNCHANGED <<left, owner, age, held, disturbed>>

\* A new process takes the place of a dead one.
Restart(p) ==
    /\ Goto(p, "crashed", "idle")
    /\ UNCHANGED <<left, owner, age, held, crashes, disturbed>>

\* Time passes, but no live process stays inside the lock beyond MaxHold.
Tick ==
    /\ \A p \in Proc : pc[p] = "holding" => held[p] < MaxHold
    /\ age' = IF owner # NoProc /\ age < OldestAge THEN age + 1 ELSE age
    /\ left' = [p \in Proc |-> IF left[p] > 0 THEN left[p] - 1 ELSE 0]
    /\ held' = [p \in Proc |-> IF pc[p] = "holding" THEN held[p] + 1 ELSE 0]
    /\ disturbed' = (disturbed \/ \E p \in Proc : held'[p] > LockStale)
    /\ UNCHANGED <<pc, owner, crashes>>

\* One pass of the acquisition loop, in the order of the code.
LoopStep(p) ==
    \/ Acquire(p) \/ Collide(p)
    \/ StatStale(p) \/ StatFresh(p) \/ BreakStale(p)
    \/ GiveUp(p) \/ Retry(p)

Step(p) ==
    \/ Enter(p) \/ LoopStep(p) \/ Release(p) \/ Recover(p)
    \/ Crash(p) \/ Restart(p)

Next == Tick \/ \E p \in Proc : Step(p)

\* A running process keeps executing and time passes; nothing obliges a
\* process to enter, to crash or to come back.
Fairness ==
    /\ WF_lockVars(Tick)
    /\ \A p \in Proc : WF_lockVars(LoopStep(p)) /\ WF_lockVars(Release(p))

Spec == Init /\ [][Next]_lockVars

FairSpec == Spec /\ Fairness

-----------------------------------------------------------------------------
Holding == {p \in Proc : pc[p] = "holding"}

\* "Serialize one brief read-modify-write transition for a wait record": no
\* two processes are inside the lock of one record at once.
MutualExclusion == \A p, q \in Holding : p = q

\* What the lock does provide: exclusion can fail only after two processes
\* were between the stat and the unlink of a stale file at the same time, or
\* after a live process stayed inside the lock for longer than LockStale.
Serialized == disturbed \/ MutualExclusion

\* Until then, a process that leaves the lock removes its own file and
\* a breaker removes a file no live process relies on.
OnlyDeadFilesBroken ==
    [][\A p \in Proc :
          /\ Release(p) /\ ~disturbed => owner = p
          /\ BreakStale(p) /\ ~disturbed => owner \notin Holding]_lockVars

\* Nobody waits for ever: a process that started to acquire the lock gets it,
\* gives up with a TimeoutError or dies, also behind a dead process's file.
WaitEnds ==
    \A p \in Proc :
        pc[p] = "create" ~> pc[p] \in {"holding", "timeout", "crashed"}

=============================================================================
