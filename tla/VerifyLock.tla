----------------------------- MODULE VerifyLock -----------------------------
(***************************************************************************)
(* The verifier lock (agent_maintainer/verify/locking.py) with the runs     *)
(* that take it (quiet.py): a verifier fingerprints the repository, reuses  *)
(* the recorded outcome of a run with the same fingerprint, or runs the     *)
(* checks under the lock file and records their outcome.  The repository    *)
(* is edited meanwhile.                                                     *)
(*                                                                         *)
(* An outcome stands for the state of the repository the checks have seen:  *)
(* the checks are a function of it.                                         *)
(***************************************************************************)
EXTENDS Integers, FiniteSets

CONSTANTS
    Proc,         \* verifier processes
    Forced,       \* those run with --force: they reuse nothing
    Tree,         \* states of the repository
    None,         \* no state, no recorded outcome, no lock file
    LockWait,     \* LOCK_WAIT_SECONDS in ticks
    Stale,        \* LOCK_STALE_SECONDS in ticks
    MaxEdits,     \* bound: edits of the repository
    MaxCrashes    \* bound: deaths of verifiers

ASSUME VerifyAssumption ==
    /\ Forced \subseteq Proc
    /\ None \notin Tree \union Proc
    /\ LockWait \in Nat
    /\ Stale \in Nat
    /\ MaxEdits \in Nat
    /\ MaxCrashes \in Nat

VARIABLES
    tree,        \* the repository as it is
    lock,        \* who created the lock file that is there
    age,         \* its age in ticks
    result,      \* agent-maintainer-last-result.json
    pc,          \* where each verifier is
    print,       \* the fingerprint each verifier took
    seen,        \* what each verifier read from the result file, or checked
    waited,      \* ticks each verifier has waited for the lock
    overstayed,  \* history: a lock file was stale while its creator worked
    raced,       \* history: a stale lock file was removed while another
                 \* verifier, having found it stale too, was about to
    strayed,     \* history: the repository was edited while a verifier was
                 \* between its fingerprint and the end of its checks
    edits,
    crashes

runVars == <<pc, print, seen, waited>>
vars == <<tree, lock, age, result, runVars, overstayed, raced, strayed, edits, crashes>>

\* A recorded outcome: the fingerprint it is filed under and the state checked.
Record == [print : Tree, of : Tree]
NoRecord == [print |-> None, of |-> None]

Inside(p) == pc[p] \in {"check", "truncate", "fill", "release"}

Waiting(p) == pc[p] \in {"read", "exists", "create", "stat", "unlink", "deadline"}

Lines == {"start", "read", "exists", "create", "stat", "unlink", "deadline",
          "check", "truncate", "fill", "release",
          "reused", "finished", "timeout", "dead"}

TypeOK ==
    /\ tree \in Tree
    /\ lock \in Proc \union {None}
    /\ age \in 0..(Stale + 1)
    /\ result \in Record \union {NoRecord}
    /\ pc \in [Proc -> Lines]
    /\ print \in [Proc -> Tree \union {None}]
    /\ seen \in [Proc -> Record \union {NoRecord}]
    /\ waited \in [Proc -> 0..LockWait]
    /\ overstayed \in BOOLEAN
    /\ raced \in BOOLEAN
    /\ strayed \in BOOLEAN
    /\ edits \in 0..MaxEdits
    /\ crashes \in 0..MaxCrashes

Init ==
    /\ tree \in Tree
    /\ lock = None
    /\ age = 0
    /\ result = NoRecord
    /\ pc = [p \in Proc |-> "start"]
    /\ print = [p \in Proc |-> None]
    /\ seen = [p \in Proc |-> NoRecord]
    /\ waited = [p \in Proc |-> 0]
    /\ overstayed = FALSE
    /\ raced = FALSE
    /\ strayed = FALSE
    /\ edits = 0
    /\ crashes = 0

Goto(p, line) == pc' = [pc EXCEPT ![p] = line]

\* The top of the loop of __enter__.
Top(p) == IF p \in Forced THEN "create" ELSE "read"

\* main: the fingerprint is taken before anything else.
Fingerprint(p) ==
    /\ pc[p] = "start"
    /\ print' = [print EXCEPT ![p] = tree]
    /\ Goto(p, Top(p))
    /\ UNCHANGED <<tree, lock, age, result, seen, waited, overstayed, raced, strayed, edits, crashes>>

\* reusable_result: a recorded outcome is of use under the same fingerprint.
ReadResult(p) ==
    /\ pc[p] = "read"
    /\ seen' = [seen EXCEPT ![p] = result]
    /\ Goto(p, IF result.print = print[p] THEN "exists" ELSE "create")
    /\ UNCHANGED <<tree, lock, age, result, print, waited, overstayed, raced, strayed, edits, crashes>>

\* Seeded fault: the lock file is not looked for.
LookForLock_Skip(p) ==
    /\ pc[p] = "exists"
    /\ Goto(p, "reused")
    /\ UNCHANGED <<tree, lock, age, result, print, seen, waited, overstayed, raced, strayed, edits, crashes>>

\* ... and when no verifier is at work.
LookForLock(p) ==
    /\ pc[p] = "exists"
    /\ Goto(p, IF lock = None THEN "reused" ELSE "create")
    /\ UNCHANGED <<tree, lock, age, result, print, seen, waited, overstayed, raced, strayed, edits, crashes>>

\* try_acquire: O_CREAT | O_EXCL.
TryAcquire(p) ==
    /\ pc[p] = "create"
    /\ IF lock = None
       THEN lock' = p /\ age' = 0 /\ Goto(p, "check")
       ELSE Goto(p, "stat") /\ UNCHANGED <<lock, age>>
    /\ UNCHANGED <<tree, result, print, seen, waited, overstayed, raced, strayed, edits, crashes>>

\* LOCK_STALE_SECONDS, from the time the file was created.
IsStale == age > Stale

\* break_stale_lock: stat, then unlink whatever is there.
StatLock(p) ==
    /\ pc[p] = "stat"
    /\ Goto(p, IF lock # None /\ IsStale THEN "unlink" ELSE "deadline")
    /\ UNCHANGED <<tree, lock, age, result, print, seen, waited, overstayed, raced, strayed, edits, crashes>>

\* Seeded fault: the verifier that removed a dead one's file goes on as if it
\* had the lock, without creating its own.
UnlinkStale_Takes(p) ==
    /\ pc[p] = "unlink"
    /\ lock' = None
    /\ age' = 0
    /\ raced' = (raced \/ \E q \in Proc \ {p} : pc[q] = "unlink")
    /\ Goto(p, "check")
    /\ UNCHANGED <<tree, result, print, seen, waited, overstayed, strayed, edits, crashes>>

UnlinkStale(p) ==
    /\ pc[p] = "unlink"
    /\ lock' = None
    /\ age' = 0
    /\ raced' = (raced \/ \E q \in Proc \ {p} : pc[q] = "unlink")
    /\ Goto(p, "deadline")
    /\ UNCHANGED <<tree, result, print, seen, waited, overstayed, strayed, edits, crashes>>

\* Past the deadline the verifier raises TimeoutError, else it polls again.
CheckDeadline(p) ==
    /\ pc[p] = "deadline"
    /\ Goto(p, IF waited[p] >= LockWait THEN "timeout" ELSE Top(p))
    /\ UNCHANGED <<tree, lock, age, result, print, seen, waited, overstayed, raced, strayed, edits, crashes>>

\* Seeded fault: the outcome is kept without the fingerprint of the run.
RunChecks_Unsigned(p) ==
    /\ pc[p] = "check"
    /\ seen' = [seen EXCEPT ![p] = [print |-> None, of |-> tree]]
    /\ Goto(p, "truncate")
    /\ UNCHANGED <<tree, lock, age, result, print, waited, overstayed, raced, strayed, edits, crashes>>

\* run_fresh_verifier: the checks read the repository as it is now.
RunChecks(p) ==
    /\ pc[p] = "check"
    /\ seen' = [seen EXCEPT ![p] = [print |-> print[p], of |-> tree]]
    /\ Goto(p, "truncate")
    /\ UNCHANGED <<tree, lock, age, result, print, waited, overstayed, raced, strayed, edits, crashes>>

\* An unknown group, an exception or an interrupt: __exit__ without a record.
Abandon(p) ==
    /\ pc[p] = "check"
    /\ Goto(p, "release")
    /\ UNCHANGED <<tree, lock, age, result, print, seen, waited, overstayed, raced, strayed, edits, crashes>>

\* write_result: write_text truncates the file, then fills it; what is read
\* in between does not decode and counts as nothing recorded.
TruncateResult(p) ==
    /\ pc[p] = "truncate"
    /\ result' = NoRecord
    /\ Goto(p, "fill")
    /\ UNCHANGED <<tree, lock, age, print, seen, waited, overstayed, raced, strayed, edits, crashes>>

FillResult(p) ==
    /\ pc[p] = "fill"
    /\ result' = seen[p]
    /\ Goto(p, "release")
    /\ UNCHANGED <<tree, lock, age, print, seen, waited, overstayed, raced, strayed, edits, crashes>>

\* __exit__: the path is unlinked, whoever created the file that is there.
Release(p) ==
    /\ pc[p] = "release"
    /\ lock' = None
    /\ age' = 0
    /\ Goto(p, "finished")
    /\ UNCHANGED <<tree, result, print, seen, waited, overstayed, raced, strayed, edits, crashes>>

Verify(p) ==
    \/ Fingerprint(p) \/ ReadResult(p) \/ LookForLock(p) \/ TryAcquire(p)
    \/ StatLock(p) \/ UnlinkStale(p) \/ CheckDeadline(p)
    \/ RunChecks(p) \/ Abandon(p) \/ TruncateResult(p) \/ FillResult(p)
    \/ Release(p)

\* The verifier is killed; its lock file stays.
Crash(p) ==
    /\ crashes < MaxCrashes
    /\ pc[p] \notin {"start", "reused", "finished", "timeout", "dead"}
    /\ Goto(p, "dead")
    /\ crashes' = crashes + 1
    /\ UNCHANGED <<tree, lock, age, result, print, seen, waited, overstayed, raced, strayed, edits>>

\* The waiting times told apart.
Longer(n) == IF n < LockWait THEN n + 1 ELSE n

\* The repository is edited, or an edit is taken back.
Edit(t) ==
    /\ edits < MaxEdits /\ t # tree
    /\ tree' = t
    /\ edits' = edits + 1
    /\ strayed' = (strayed \/ \E p \in Proc : Waiting(p) \/ pc[p] = "check")
    /\ UNCHANGED <<lock, age, result, runVars, overstayed, raced, crashes>>

Tick ==
    /\ age' = IF lock # None /\ age =< Stale THEN age + 1 ELSE age
    /\ waited' = [p \in Proc |-> IF Waiting(p) THEN Longer(waited[p]) ELSE waited[p]]
    /\ overstayed' = (overstayed \/ (lock # None /\ age' > Stale /\ Inside(lock)))
    /\ UNCHANGED <<tree, lock, result, pc, print, seen, raced, strayed, edits, crashes>>

Next ==
    \/ Tick
    \/ \E t \in Tree : Edit(t)
    \/ \E p \in Proc : Verify(p) \/ Crash(p)

Spec == Init /\ [][Next]_vars

-----------------------------------------------------------------------------
Exclusive == \A p, q \in Proc : Inside(p) /\ Inside(q) => p = q

\* Verifier runs do not overlap, also after verifiers died inside and one that
\* waits removed the file they left.  What it takes to break that is a run that
\* outlives the stale bound, or two waiters that both find the dead one's file
\* stale before either has removed it.
RunsExclude == overstayed \/ raced \/ Exclusive

\* A verifier takes over an outcome, and the artifacts that go with it, only
\* when no run is at work on them, although it read the outcome before it looked
\* for the lock; and "changed worktree or staged content cannot inherit a pass
\* or failure from an older state": the outcome is about the state it took the
\* fingerprint of, unless somebody edited the repository under a verifier.
ReusesAtRest ==
    [][\A p \in Proc :
        pc[p] # "reused" /\ pc'[p] = "reused" =>
            /\ strayed \/ seen[p].of = print[p]
            /\ overstayed \/ raced \/ \A q \in Proc : ~Inside(q)]_vars

=============================================================================
