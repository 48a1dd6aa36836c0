----------------------------- MODULE TaskBroker -----------------------------
(***************************************************************************)
(* The task broker (experiments/agent-task-broker: agent_task_broker/       *)
(* store.py, locks.py): a board of tasks and advisory locks on scopes of    *)
(* the repository, both in JSON files.  Each agent runs one command at a    *)
(* time.  A command reads files, decides and writes files; no lock guards   *)
(* these steps, and a command may be killed between them.                   *)
(*                                                                         *)
(* Tasks and locks are numbered.  A target is a sequence of path segments,  *)
(* "*" among them at most once.  fnmatch lets it match across segments.  A  *)
(* package stands for everything below it; the kinds doc, config and tach   *)
(* are compared like path, the mode exclusive like write.                   *)
(***************************************************************************)
EXTENDS Integers, SequencesExt

CONSTANTS
    Agent,        \* who runs commands
    Scopes,       \* what is claimed: [kind, target]
    Files,        \* the files of the repository, as sequences of segments
    None,         \* no file, no job
    InitialTask,  \* the task each agent has claimed before
    MaxTasks,     \* bound: tasks on the board
    MaxCommands   \* bound: commands that are begun

TaskId == 1..MaxTasks

ASSUME BrokerAssumption ==
    /\ \A s \in Scopes : /\ s.kind \in {"path", "package"}
                         /\ s.target \in Seq(STRING) \ {<<>>}
                         /\ Len(SelectSeq(s.target, LAMBDA x : x = "*")) =< 1
    /\ MaxTasks \in Nat
    /\ InitialTask \in [Agent -> TaskId]
    /\ IsInjective(InitialTask)
    /\ MaxCommands \in Nat

Modes == {"read", "write"}
Results == {"done", "blocked"}    \* also for "abandoned" and "escalate"
ActiveStatuses == {"open", "claimed"}

VARIABLES
    listed,    \* board.json: the tasks 1..listed
    task,      \* the task files: [status, attempts, author]
    attempt,   \* the attempt files: who claimed which task how often
    result,    \* the result files: the status of the last result
    locks,     \* the lock files, by their number
    pc,        \* where each agent's command is
    job,       \* what it is about to write
    works,     \* the task each agent works on
    told,      \* history: what the board's commands reported
    held,      \* history: what agents were told they hold: [number, request]
    disturbed, \* history: tasks whose commands met half way; 0: the board
    raced,     \* history: a claim of a lock met another command half way
    gap,       \* history: a lock was released before one with a higher number
    commands

boardVars == <<listed, task, attempt, result, works, told, disturbed>>
lockVars == <<locks, held, raced, gap>>
vars == <<boardVars, lockVars, pc, job, commands>>

First == {InitialTask[a] : a \in Agent}

\* The files f with one more, or one replaced.
Put(f, name, content) ==
    [n \in DOMAIN f \union {name} |-> IF n = name THEN content ELSE f[n]]

\* The agents have claimed the first tasks of a new board.
Init ==
    /\ listed = Cardinality(First)
    /\ task = [k \in TaskId |-> IF k \in First
                THEN [status |-> "claimed", attempts |-> 1, author |-> 0]
                ELSE None]
    /\ attempt = [c \in First \X {1} |->
                     CHOOSE a \in Agent : InitialTask[a] = c[1]]
    /\ result = [k \in TaskId |-> None]
    /\ locks = <<>>
    /\ pc = [a \in Agent |-> "idle"]
    /\ job = [a \in Agent |-> None]
    /\ works = InitialTask
    /\ told = {}
    /\ held = {}
    /\ disturbed = {}
    /\ raced = FALSE
    /\ gap = FALSE
    /\ commands = 0

Goto(a, line) == pc' = [pc EXCEPT ![a] = line]

Begin(a) ==
    /\ pc[a] = "idle"
    /\ commands < MaxCommands
    /\ commands' = commands + 1

\* The command ends, with or without an error.
End(a) == Goto(a, "idle") /\ job' = [job EXCEPT ![a] = None]

-----------------------------------------------------------------------------
(* The board: add_task, claim_task, finish_task and init.                  *)

BoardLines == {"detail", "task", "board"}

OnBoard == {a \in Agent : pc[a] \in BoardLines}

\* Whom a command on task k that reads its files now has met half way.
Met(k, op) ==
    {k : a \in {b \in OnBoard : job[b].id = k}}
    \union {0 : a \in {b \in OnBoard : job[b].op = "add" /\ op = "add"}}

\* A command on task k has read what it needs and goes on to write.
Proceed(a, op, k, new, line) ==
    /\ job' = [job EXCEPT ![a] = [op |-> op, id |-> k, task |-> new]]
    /\ disturbed' = disturbed \union Met(k, op)
    /\ Goto(a, line)
    /\ UNCHANGED <<lockVars, listed, task, attempt, result, works, told>>

\* next_task_id: the number of tasks on the board plus one.
AddTask(a) ==
    /\ Begin(a)
    /\ listed < MaxTasks
    /\ Proceed(a, "add", listed + 1,
               [status |-> "open", attempts |-> 0, author |-> commands'], "task")

\* One more attempt, by whoever claims it.
Claimed(file) == [status |-> "claimed", attempts |-> file.attempts + 1,
                  author |-> file.author]

\* Seeded fault: a finished task may be claimed.
ClaimTask_Finished(a) ==
    /\ Begin(a)
    /\ \E k \in TaskId :
          /\ task[k] # None
          /\ Proceed(a, "claim", k, Claimed(task[k]), "detail")

\* An open or a claimed task is claimed, whether it is on the board or not.
ClaimTask(a) ==
    /\ Begin(a)
    /\ \E k \in TaskId :
          /\ task[k] # None
          /\ task[k].status \in ActiveStatuses
          /\ Proceed(a, "claim", k, Claimed(task[k]), "detail")

\* A result is filed for any task, whoever has claimed it.
FinishTask(a) ==
    /\ Begin(a)
    /\ \E k \in TaskId, r \in Results :
          /\ task[k] # None
          /\ Proceed(a, "finish", k, [task[k] EXCEPT !.status = r], "detail")

\* The attempt or the result is written first, under a name that an earlier
\* one may have.
WriteDetail(a) ==
    /\ pc[a] = "detail"
    /\ IF job[a].op = "claim"
       THEN /\ attempt' = Put(attempt, <<job[a].id, job[a].task.attempts>>, a)
            /\ UNCHANGED result
       ELSE /\ result' = [result EXCEPT ![job[a].id] = job[a].task.status]
            /\ UNCHANGED attempt
    /\ Goto(a, "task")
    /\ UNCHANGED <<lockVars, listed, task, works, told, disturbed, job, commands>>

\* What a command says of a task on the board.
Report(a) ==
    told' = IF job[a].id =< listed'
            THEN told \union {[op |-> job[a].op, id |-> job[a].id, agent |-> a,
                               task |-> job[a].task]}
            ELSE told

\* The task file becomes what the command has made of what it read.
WriteTask(a) ==
    /\ pc[a] = "task"
    /\ UNCHANGED <<lockVars, listed, attempt, result, disturbed, commands>>
    /\ task' = [task EXCEPT ![job[a].id] = job[a].task]
    /\ IF job[a].op = "add"
       THEN Goto(a, "board") /\ UNCHANGED <<job, told, works>>
       ELSE /\ End(a) /\ Report(a)
            /\ works' = IF job[a].op = "claim"
                        THEN [works EXCEPT ![a] = job[a].id] ELSE works

\* The board is written with the new task at the end of the list it had.
WriteBoard(a) ==
    /\ pc[a] = "board"
    /\ listed' = job[a].id
    /\ End(a) /\ Report(a)
    /\ UNCHANGED <<lockVars, task, attempt, result, works, disturbed, commands>>

\* init --force empties the board and leaves all other files; what was reported
\* before does not count any more.
Reinit(a) ==
    /\ Begin(a)
    /\ listed' = 0
    /\ told' = {}
    /\ disturbed' = disturbed
           \union {job[b].id : b \in OnBoard}
           \union {0 : b \in {c \in OnBoard : job[c].op = "add"}}
    /\ UNCHANGED <<lockVars, task, attempt, result, works, pc, job>>

-----------------------------------------------------------------------------
(* locks.py: the comparison of two scopes.                                  *)

HasGlob(target) == Contains(target, "*")

\* target_pattern: a package stands for what is below it.
Pattern(s) == IF s.kind = "package" /\ ~HasGlob(s.target)
              THEN Append(s.target, "*") ELSE s.target

\* fnmatch: the wildcard stands for one or more segments.
Matches(pattern, text) ==
    \/ pattern = text
    \/ \E i \in DOMAIN pattern :
          /\ pattern[i] = "*"
          /\ Len(text) >= Len(pattern)
          /\ IsPrefix(SubSeq(pattern, 1, i - 1), text)
          /\ IsSuffix(SubSeq(pattern, i + 1, Len(pattern)), text)

\* path_prefix_overlap, for packages.
PrefixOverlap(s, r) ==
    /\ "package" \in {s.kind, r.kind}
    /\ IsPrefix(s.target, r.target) \/ IsPrefix(r.target, s.target)

\* Each side's pattern against the text of the other's target.
TargetsOverlap(s, r) ==
    \/ Matches(Pattern(s), r.target)
    \/ Matches(Pattern(r), s.target)
    \/ PrefixOverlap(s, r)

\* Seeded fault: a reader is let in beside a writer.
Compatible_AnyRead(old, new) == old = "read" \/ new = "read"

Compatible(old, new) == old = "read" /\ new = "read"

Conflicts(old, new) ==
    /\ old.task # new.task
    /\ ~Compatible(old.mode, new.mode)
    /\ TargetsOverlap(old.scope, new.scope)

-----------------------------------------------------------------------------
(* claim_lock and release_lock.                                            *)

LockLines == {"list", "number", "write"}

\* Other commands that have looked at the locks and not yet written.
Between(a) == {b \in Agent \ {a} : pc[b] \in {"number", "write"}}

\* require_task: a lock is claimed for a task whose file exists.
ClaimLock(a) ==
    /\ Begin(a)
    /\ task[works[a]] # None
    /\ \E s \in Scopes, m \in Modes :
          job' = [job EXCEPT ![a] = [task |-> works[a], scope |-> s, mode |-> m]]
    /\ Goto(a, "list")
    /\ UNCHANGED <<boardVars, lockVars>>

\* find_lock_conflicts over the lock files as they are now.
ListLocks(a) ==
    /\ pc[a] = "list"
    /\ IF \E n \in DOMAIN locks : Conflicts(locks[n], job[a])
       THEN End(a)
       ELSE Goto(a, "number") /\ UNCHANGED job
    /\ UNCHANGED <<boardVars, lockVars, commands>>

\* next_lock_id: the locks are listed again and counted.
NextNumber(a) ==
    /\ pc[a] = "number"
    /\ job' = [job EXCEPT ![a] = [request |-> @, number |-> Cardinality(DOMAIN locks) + 1]]
    /\ Goto(a, "write")
    /\ UNCHANGED <<boardVars, lockVars, commands>>

\* write_json replaces whatever file has that number.
WriteLock(a) ==
    /\ pc[a] = "write"
    /\ locks' = Put(locks, job[a].number, job[a].request)
    /\ held' = held \union {job[a]}
    /\ raced' = (raced \/ Between(a) # {})
    /\ End(a)
    /\ UNCHANGED <<boardVars, gap, commands>>

\* An agent releases a lock of its task by the number it was told; the file is
\* removed whoever has written it, a missing one is an error.
Release(a) ==
    /\ pc[a] = "idle"
    /\ \E g \in held :
          /\ g.request.task = works[a]
          /\ held' = held \ {g}
          /\ locks' = [n \in DOMAIN locks \ {g.number} |-> locks[n]]
          /\ gap' = (gap \/ \E n \in DOMAIN locks : n > g.number)
    /\ raced' = (raced \/ Between(a) # {})
    /\ UNCHANGED <<boardVars, pc, job, commands>>

-----------------------------------------------------------------------------
\* A command ends before it is through: it is killed, or a file that another
\* command is writing does not decode.
Abort(a) ==
    /\ pc[a] # "idle"
    /\ End(a)
    /\ UNCHANGED <<boardVars, lockVars, commands>>

Next ==
    \E a \in Agent :
        \/ AddTask(a) \/ ClaimTask(a) \/ FinishTask(a) \/ Reinit(a)
        \/ WriteDetail(a) \/ WriteTask(a) \/ WriteBoard(a)
        \/ ClaimLock(a) \/ ListLocks(a) \/ NextNumber(a) \/ WriteLock(a)
        \/ Release(a) \/ Abort(a)

Spec == Init /\ [][Next]_vars

-----------------------------------------------------------------------------
(* What the broker is for.                                                 *)

\* What a scope means.
Covered(s) == {f \in Files : Matches(Pattern(s), f)}

Wild(s) == HasGlob(Pattern(s))

\* "Prevent parallel agents from editing the same logical scope": two tasks hold
\* locks on a common file only if both read, or else
\*   - two commands have met half way, or
\*   - a lock was released before a later one, whose number the next claim
\*     then gets and whose file it overwrites, or
\*   - both scopes have wildcards: patterns are not compared with patterns.
ScopesExclude ==
    raced \/ gap \/
    \A g, h \in held :
        g.request.task # h.request.task
            => \/ g.request.mode = "read" /\ h.request.mode = "read"
               \/ Wild(g.request.scope) /\ Wild(h.request.scope)
               \/ Covered(g.request.scope) \intersect Covered(h.request.scope) = {}

\* A report of the board is kept, also when other commands are killed half
\* way: an added task is on the board, an attempt stays its agent's, and a task
\* with a result is never claimed again.  Excepted are tasks whose commands met
\* half way, and all of them once two additions did: each writes back what it
\* made of what it had read.
ToldIsKept ==
    0 \in disturbed \/
    \A x \in told :
        \/ x.id \in disturbed
        \/ x.op = "add" /\ x.id =< listed /\ task[x.id].author = x.task.author
        \/ x.op = "claim" /\ attempt[<<x.id, x.task.attempts>>] = x.agent
        \/ x.op = "finish" /\ task[x.id].status \in Results

=============================================================================
