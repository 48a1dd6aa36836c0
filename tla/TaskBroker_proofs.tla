-------------------------- MODULE TaskBroker_proofs --------------------------
(***************************************************************************)
(* Proofs about the task broker, for any agents, scopes and files and any   *)
(* number of tasks and commands.                                           *)
(***************************************************************************)
EXTENDS TaskBroker, FiniteSetTheorems, TLAPS

Request ==
    [task : TaskId, scope : Scopes, mode : Modes]

Grant == [request : Request, number : Nat]

TaskFile ==
    [status : ActiveStatuses \union Results, attempts : Nat, author : Nat]

BoardJob ==
    [op : {"add", "claim", "finish"}, id : TaskId, task : TaskFile]

Reports ==
    [op : {"add", "claim", "finish"}, id : TaskId, agent : Agent, task : TaskFile]

TypeOK ==
    /\ listed \in Nat
    /\ task \in [TaskId -> TaskFile \union {None}]
    /\ \A c \in DOMAIN attempt : attempt[c] \in Agent
    /\ result \in [TaskId -> Results \union {None}]
    /\ IsFiniteSet(DOMAIN locks) /\ DOMAIN locks \subseteq Nat
    /\ pc \in [Agent -> {"idle"} \union BoardLines \union LockLines]
    /\ DOMAIN job = Agent
    /\ works \in [Agent -> TaskId]
    /\ told \subseteq Reports
    /\ held \subseteq Grant
    /\ disturbed \subseteq Nat
    /\ raced \in BOOLEAN /\ gap \in BOOLEAN
    /\ commands \in Nat

\* What a command is about to write is of the kind its line writes.
Jobs ==
    \A a \in Agent :
        /\ pc[a] \in BoardLines => job[a] \in BoardJob
        /\ pc[a] = "detail" => job[a].op \in {"claim", "finish"}
        /\ pc[a] = "board" => job[a].op = "add"
        /\ pc[a] \in BoardLines /\ job[a].op = "finish" =>
              job[a].task.status \in Results
        /\ pc[a] \in {"list", "number"} => job[a] \in Request
        /\ pc[a] = "write" => job[a] \in Grant

-----------------------------------------------------------------------------
(* The types. *)

LEMMA TasksAreNumbers == MaxTasks \in Nat /\ TaskId \subseteq Nat \ {0}
  BY BrokerAssumption DEF TaskId

LEMMA FirstTasks == First \subseteq TaskId /\ Cardinality(First) \in Nat
  <1>1. First \subseteq TaskId
      BY BrokerAssumption DEF First
  <1>2. IsFiniteSet(TaskId)
      BY TasksAreNumbers, FS_Interval DEF TaskId
  <1> QED BY <1>1, <1>2, FS_Subset, FS_CardinalityType

\* What a command that reads its files may add to the disturbed tasks.
LEMMA MetProperties ==
    ASSUME NEW k, NEW op
    PROVE  /\ Met(k, op) \subseteq {0, k}
           /\ \A b \in OnBoard : job[b].id = k => k \in Met(k, op)
           /\ op = "add" => \A b \in OnBoard : job[b].op = "add" => 0 \in Met(k, op)
  BY DEF Met

LEMMA InitTypes == Init => TypeOK /\ Jobs
  <1> SUFFICES ASSUME Init PROVE TypeOK /\ Jobs
      OBVIOUS
  <1>1. \A c \in DOMAIN attempt : attempt[c] \in Agent
    <2> SUFFICES ASSUME NEW c \in First \X {1}
                 PROVE  (CHOOSE a \in Agent : InitialTask[a] = c[1]) \in Agent
        BY DEF Init
    <2>1. \E a \in Agent : InitialTask[a] = c[1]
        BY DEF First
    <2> QED BY <2>1
  <1>2. IsFiniteSet(DOMAIN locks) /\ DOMAIN locks = {}
      BY FS_EmptySet DEF Init
  <1>3. task \in [TaskId -> TaskFile \union {None}]
      BY FirstTasks DEF Init, TaskFile, ActiveStatuses
  <1> QED BY <1>1, <1>2, <1>3, FirstTasks, BrokerAssumption
          DEF Init, TypeOK, Jobs, BoardLines, LockLines

LEMMA BoardStepTypes ==
    ASSUME TypeOK, Jobs, NEW a \in Agent,
           \/ AddTask(a) \/ ClaimTask(a) \/ FinishTask(a)
           \/ WriteDetail(a) \/ WriteTask(a) \/ WriteBoard(a) \/ Reinit(a)
    PROVE  TypeOK' /\ Jobs'
  <1> USE DEF BoardLines, LockLines, boardVars, lockVars
  <1>1. ASSUME NEW op \in {"add", "claim", "finish"}, NEW k \in TaskId,
               NEW new \in TaskFile, NEW line \in {"detail", "task"},
               Begin(a), Proceed(a, op, k, new, line),
               line = "detail" => op \in {"claim", "finish"},
               op = "finish" => new.status \in Results
        PROVE  TypeOK' /\ Jobs'
    <2>1. disturbed' \subseteq Nat
      <3>1. disturbed' = disturbed \union Met(k, op) /\ Met(k, op) \subseteq {0, k}
          BY <1>1, MetProperties DEF Proceed
      <3>2. disturbed \subseteq Nat
          BY DEF TypeOK
      <3>3. k \in Nat
          BY TasksAreNumbers
      <3>4. {0, k} \subseteq Nat
          BY <3>3
      <3>5. Met(k, op) \subseteq Nat
          BY <3>1, <3>4
      <3> QED BY <3>1, <3>2, <3>5
    <2> QED BY <1>1, <2>1 DEF Begin, Proceed, Goto, TypeOK, Jobs, BoardJob
  <1>2. CASE AddTask(a)
    <2>1. listed + 1 \in TaskId
        BY <1>2, TasksAreNumbers DEF AddTask, TypeOK, TaskId
    <2>2. [status |-> "open", attempts |-> 0, author |-> commands'] \in TaskFile
        BY <1>2 DEF AddTask, Begin, TypeOK, TaskFile, ActiveStatuses
    <2> QED BY <1>1, <1>2, <2>1, <2>2 DEF AddTask
  <1>3. CASE ClaimTask(a)
    <2>1. PICK k \in TaskId :
              /\ task[k].status \in ActiveStatuses
              /\ task[k] # None
              /\ Proceed(a, "claim", k, Claimed(task[k]), "detail")
        BY <1>3 DEF ClaimTask
    <2>2. Claimed(task[k]) \in TaskFile
      <3>1. task[k] \in TaskFile
          BY <2>1 DEF TypeOK
      <3> QED BY <3>1 DEF TaskFile, ActiveStatuses, Claimed
    <2> QED BY <1>1, <1>3, <2>1, <2>2 DEF ClaimTask
  <1>4. CASE FinishTask(a)
    <2>1. PICK k \in TaskId, r \in Results :
              /\ task[k] # None
              /\ Proceed(a, "finish", k, [task[k] EXCEPT !.status = r], "detail")
        BY <1>4 DEF FinishTask
    <2>2. /\ [task[k] EXCEPT !.status = r] \in TaskFile
          /\ [task[k] EXCEPT !.status = r].status \in Results
        BY <2>1 DEF TypeOK, TaskFile
    <2> QED BY <1>1, <1>4, <2>1, <2>2 DEF FinishTask
  <1>5. CASE WriteDetail(a)
    <2>1. /\ job[a] \in BoardJob
          /\ job[a].op # "claim" => job[a].task.status \in Results
        BY <1>5 DEF WriteDetail, Jobs
    <2>2. \A c \in DOMAIN attempt' : attempt'[c] \in Agent
        BY <1>5 DEF WriteDetail, TypeOK, Put
    <2>3. result' \in [TaskId -> Results \union {None}]
      <3>1. CASE job[a].op = "claim"
          BY <1>5, <3>1 DEF WriteDetail, TypeOK
      <3>2. CASE job[a].op # "claim"
          BY <1>5, <2>1, <3>2 DEF WriteDetail, TypeOK, BoardJob
      <3> QED BY <3>1, <3>2
    <2>4. Jobs'
        BY <1>5 DEF WriteDetail, Goto, TypeOK, Jobs
    <2> QED BY <1>5, <2>2, <2>3, <2>4 DEF WriteDetail, Goto, TypeOK
  <1>6. CASE WriteTask(a)
    <2>1. job[a] \in BoardJob
        BY <1>6 DEF WriteTask, Jobs
    <2>2. task' \in [TaskId -> TaskFile \union {None}]
        BY <1>6, <2>1 DEF WriteTask, TypeOK, BoardJob
    <2>3. told' \subseteq Reports
        BY <1>6, <2>1 DEF WriteTask, Report, TypeOK, BoardJob, Reports
    <2>4. works' \in [Agent -> TaskId]
        BY <1>6, <2>1 DEF WriteTask, TypeOK, BoardJob
    <2> QED BY <1>6, <2>1, <2>2, <2>3, <2>4 DEF WriteTask, Goto, End, TypeOK, Jobs
  <1>7. CASE WriteBoard(a)
    <2>1. job[a] \in BoardJob
        BY <1>7 DEF WriteBoard, Jobs
    <2>2. told' \subseteq Reports
        BY <1>7, <2>1 DEF WriteBoard, Report, TypeOK, BoardJob, Reports
    <2>3. listed' \in Nat
        BY <1>7, <2>1, TasksAreNumbers DEF WriteBoard, BoardJob
    <2> QED BY <1>7, <2>2, <2>3 DEF WriteBoard, Goto, End, TypeOK, Jobs
  <1>8. CASE Reinit(a)
    <2>1. disturbed' \subseteq Nat
      <3>1. \A b \in OnBoard : job[b].id \in Nat
          BY TasksAreNumbers DEF OnBoard, Jobs, BoardJob
      <3>2. disturbed \subseteq Nat
          BY DEF TypeOK
      <3>3. {job[b].id : b \in OnBoard} \subseteq Nat
          BY <3>1
      <3>4. {0 : b \in {c \in OnBoard : job[c].op = "add"}} \subseteq Nat
          OBVIOUS
      <3> QED BY <1>8, <3>2, <3>3, <3>4 DEF Reinit
    <2> QED BY <1>8, <2>1 DEF Reinit, Begin, TypeOK, Jobs
  <1> QED BY <1>2, <1>3, <1>4, <1>5, <1>6, <1>7, <1>8

LEMMA LockStepTypes ==
    ASSUME TypeOK, Jobs, NEW a \in Agent,
           \/ ClaimLock(a) \/ ListLocks(a) \/ NextNumber(a) \/ WriteLock(a)
           \/ Release(a) \/ Abort(a)
    PROVE  TypeOK' /\ Jobs'
  <1> USE DEF BoardLines, LockLines, boardVars, lockVars, Goto, End
  <1>1. CASE ClaimLock(a)
      BY <1>1 DEF ClaimLock, Begin, TypeOK, Jobs, Request
  <1>2. CASE ListLocks(a)
      BY <1>2 DEF ListLocks, TypeOK, Jobs
  <1>3. CASE NextNumber(a)
    <2>1. Cardinality(DOMAIN locks) + 1 \in Nat
        BY FS_CardinalityType DEF TypeOK
    <2>2. job'[a] \in Grant
        BY <1>3, <2>1 DEF NextNumber, TypeOK, Jobs, Grant
    <2> QED BY <1>3, <2>2 DEF NextNumber, TypeOK, Jobs
  <1>4. CASE WriteLock(a)
    <2>1. job[a] \in Grant
        BY <1>4 DEF WriteLock, Jobs
    <2>2. DOMAIN locks' = DOMAIN locks \union {job[a].number}
        BY <1>4 DEF WriteLock, Put
    <2>3. IsFiniteSet(DOMAIN locks') /\ DOMAIN locks' \subseteq Nat
        BY <2>1, <2>2, FS_AddElement DEF TypeOK, Grant
    <2> QED BY <1>4, <2>1, <2>3 DEF WriteLock, TypeOK, Jobs
  <1>5. CASE Release(a)
    <2>1. PICK g \in held :
              /\ held' = held \ {g}
              /\ locks' = [n \in DOMAIN locks \ {g.number} |-> locks[n]]
              /\ gap' = (gap \/ \E n \in DOMAIN locks : n > g.number)
        BY <1>5 DEF Release
    <2>2. IsFiniteSet(DOMAIN locks') /\ DOMAIN locks' \subseteq Nat
        BY <2>1, FS_RemoveElement DEF TypeOK
    <2> QED BY <1>5, <2>1, <2>2 DEF Release, TypeOK, Jobs
  <1>6. CASE Abort(a)
      BY <1>6 DEF Abort, TypeOK, Jobs
  <1> QED BY <1>1, <1>2, <1>3, <1>4, <1>5, <1>6

LEMMA StepTypes == TypeOK /\ Jobs /\ [Next]_vars => TypeOK' /\ Jobs'
  <1> SUFFICES ASSUME TypeOK, Jobs, [Next]_vars PROVE TypeOK' /\ Jobs'
      OBVIOUS
  <1>1. CASE Next
      BY <1>1, BoardStepTypes, LockStepTypes DEF Next
  <1>2. CASE UNCHANGED vars
      BY <1>2 DEF vars, boardVars, lockVars, TypeOK, Jobs
  <1> QED BY <1>1, <1>2

\* Every file is of the kind its name says, every command at a line of the code,
\* with what that line writes.
THEOREM TypeCorrect == Spec => [](TypeOK /\ Jobs)
  BY InitTypes, StepTypes, PTL DEF Spec

-----------------------------------------------------------------------------
(* The locks. *)

\* As long as no two commands met and no number was given back out of order,
\* the numbers have no gap, every lock that was granted is on file, and nobody
\* holds, or is about to write, a lock that conflicts with one on file.
Apart ==
    \/ raced
    \/ gap
    \/ /\ DOMAIN locks = 1..Cardinality(DOMAIN locks)
       /\ \A g \in held : g.number \in DOMAIN locks /\ locks[g.number] = g.request
       /\ \A m, n \in DOMAIN locks : ~Conflicts(locks[m], locks[n])
       /\ \A a \in Agent :
             pc[a] = "number" => \A n \in DOMAIN locks : ~Conflicts(locks[n], job[a])
       /\ \A a \in Agent :
             pc[a] = "write" =>
                 /\ \A n \in DOMAIN locks : ~Conflicts(locks[n], job[a].request)
                 /\ job[a].number = Cardinality(DOMAIN locks) + 1


LEMMA ConflictsAreMutual ==
    ASSUME NEW x, NEW y
    PROVE  Conflicts(x, y) <=> Conflicts(y, x)
  <1>1. TargetsOverlap(x.scope, y.scope) <=> TargetsOverlap(y.scope, x.scope)
    <2>1. PrefixOverlap(x.scope, y.scope) <=> PrefixOverlap(y.scope, x.scope)
        BY DEF PrefixOverlap
    <2> QED BY <2>1 DEF TargetsOverlap
  <1> QED BY <1>1 DEF Conflicts, Compatible

\* A scope without a wildcard covers one file at most, the one it names.
LEMMA PlainScope ==
    ASSUME NEW s \in Scopes, ~Wild(s), NEW f \in Covered(s)
    PROVE  f = s.target
  <1> DEFINE t == s.target
  <1>1. t \in Seq(STRING)
      BY BrokerAssumption
  <1>2. ~(s.kind = "package" /\ ~HasGlob(t))
    <2> SUFFICES ASSUME s.kind = "package", ~HasGlob(t)  PROVE FALSE
        OBVIOUS
    <2>1. Pattern(s) = Append(t, "*")
        BY DEF Pattern
    <2>2. Len(Append(t, "*")) = Len(t) + 1 /\ Append(t, "*")[Len(t) + 1] = "*"
        BY <1>1
    <2>3. Len(t) + 1 \in 1..Len(Append(t, "*"))
        BY <1>1, <2>2
    <2>4. HasGlob(Append(t, "*"))
        BY <2>2, <2>3 DEF HasGlob, Contains
    <2> QED BY <2>1, <2>4 DEF Wild
  <1>3. Pattern(s) = t /\ ~HasGlob(t)
      BY <1>2 DEF Pattern, Wild
  <1>4. DOMAIN t = 1..Len(t)
      BY <1>1
  <1>5. ~\E i \in DOMAIN t : t[i] = "*"
      BY <1>3, <1>4 DEF HasGlob, Contains
  <1>6. Matches(t, f)
      BY <1>3 DEF Covered
  <1> QED BY <1>5, <1>6 DEF Matches

\* What the comparison of targets is good for: scopes it tells apart have no
\* file in common, unless both have wildcards.
LEMMA ApartScopes ==
    ASSUME NEW s \in Scopes, NEW r \in Scopes,
           ~TargetsOverlap(s, r), ~(Wild(s) /\ Wild(r))
    PROVE  Covered(s) \intersect Covered(r) = {}
  <1> SUFFICES ASSUME NEW f \in Covered(s), f \in Covered(r)  PROVE FALSE
      OBVIOUS
  <1>1. Matches(Pattern(s), f) /\ Matches(Pattern(r), f)
      BY DEF Covered
  <1>2. CASE ~Wild(s)
      BY <1>1, <1>2, PlainScope DEF TargetsOverlap
  <1>3. CASE ~Wild(r)
      BY <1>1, <1>3, PlainScope DEF TargetsOverlap
  <1> QED BY <1>2, <1>3

\* Steps that leave the locks alone, and whoever is about to write one.
LEMMA LocksUntouched ==
    ASSUME Apart, UNCHANGED lockVars,
           \A a \in Agent : pc'[a] \in {"number", "write"} =>
               pc'[a] = pc[a] /\ job'[a] = job[a]
    PROVE  Apart'
  BY DEF Apart, lockVars, Conflicts

LEMMA ListLocksKeepsApart ==
    ASSUME TypeOK, Apart, NEW a \in Agent, ListLocks(a)
    PROVE  Apart'
  <1> SUFFICES ASSUME ~raced, ~gap PROVE Apart'
      BY DEF ListLocks, lockVars, Apart
  <1>1. UNCHANGED <<locks, held, raced, gap>>
      BY DEF ListLocks, lockVars
  <1>2. \A b \in Agent : pc'[b] \in {"number", "write"} =>
           \/ b = a /\ pc'[b] = "number" /\ job' = job
                /\ \A n \in DOMAIN locks : ~Conflicts(locks[n], job[a])
           \/ pc'[b] = pc[b] /\ job'[b] = job[b]
      BY DEF ListLocks, Goto, End, TypeOK
  <1> QED BY <1>1, <1>2 DEF Apart

LEMMA NextNumberKeepsApart ==
    ASSUME TypeOK, Apart, NEW a \in Agent, NextNumber(a)
    PROVE  Apart'
  <1> SUFFICES ASSUME ~raced, ~gap PROVE Apart'
      BY DEF NextNumber, lockVars, Apart
  <1>1. UNCHANGED <<locks, held, raced, gap>>
      BY DEF NextNumber, lockVars
  <1>2. /\ pc[a] = "number"
        /\ pc' = [pc EXCEPT ![a] = "write"]
        /\ job'[a].request = job[a]
        /\ job'[a].number = Cardinality(DOMAIN locks) + 1
        /\ \A b \in Agent \ {a} : pc'[b] = pc[b] /\ job'[b] = job[b]
      BY DEF NextNumber, Goto, TypeOK
  <1>3. pc'[a] = "write"
      BY <1>2 DEF TypeOK
  <1> QED BY <1>1, <1>2, <1>3 DEF Apart

LEMMA WriteLockKeepsApart ==
    ASSUME TypeOK, Jobs, Apart, NEW a \in Agent, WriteLock(a)
    PROVE  Apart'
  <1> SUFFICES ASSUME ~raced', ~gap' PROVE Apart'
      BY DEF Apart
  <1> DEFINE n == Cardinality(DOMAIN locks)
             g == job[a]
  <1>1. ~raced /\ ~gap /\ Between(a) = {}
      BY DEF WriteLock, TypeOK
  <1>2. n \in Nat /\ DOMAIN locks = 1..n
      BY <1>1, FS_CardinalityType DEF Apart, TypeOK
  <1>3. g \in Grant /\ g.number = n + 1
    <2>1. pc[a] = "write"
        BY DEF WriteLock
    <2>2. g \in Grant
        BY <2>1 DEF Jobs
    <2>3. g.number = Cardinality(DOMAIN locks) + 1
        BY <1>1, <1>2, <2>1 DEF Apart, WriteLock
    <2> QED BY <2>2, <2>3
  <1>4. DOMAIN locks' = 1..(n + 1)
      BY <1>2, <1>3 DEF WriteLock, Put
  <1>5. Cardinality(DOMAIN locks') = n + 1
      BY <1>2, <1>4, FS_Interval
  <1>6. /\ locks'[n + 1] = g.request
        /\ \A m \in 1..n : locks'[m] = locks[m]
      BY <1>2, <1>3 DEF WriteLock, Put
  <1>7. held' = held \union {g}
      BY DEF WriteLock
  <1>8. \A h \in held' : h.number \in DOMAIN locks' /\ locks'[h.number] = h.request
      BY <1>1, <1>2, <1>3, <1>4, <1>6, <1>7 DEF Apart
  <1>9. \A b \in Agent : pc'[b] \notin {"number", "write"}
      BY <1>1 DEF WriteLock, End, Goto, Between, TypeOK
  <1>10. \A k, m \in DOMAIN locks' : ~Conflicts(locks'[k], locks'[m])
    <2>1. \A m \in 1..n : ~Conflicts(locks[m], g.request)
        BY <1>1, <1>2 DEF Apart, WriteLock
    <2>2. \A m \in 1..n : ~Conflicts(g.request, locks[m])
        BY <2>1, ConflictsAreMutual
    <2>3. ~Conflicts(g.request, g.request)
        BY DEF Conflicts
    <2>4. \A k, m \in 1..n : ~Conflicts(locks[k], locks[m])
        BY <1>1, <1>2 DEF Apart
    <2> QED BY <1>2, <1>4, <1>6, <2>1, <2>2, <2>3, <2>4
  <1> QED BY <1>4, <1>5, <1>8, <1>9, <1>10 DEF Apart

LEMMA ReleaseKeepsApart ==
    ASSUME TypeOK, Jobs, Apart, NEW a \in Agent, Release(a)
    PROVE  Apart'
  <1> SUFFICES ASSUME ~raced', ~gap' PROVE Apart'
      BY DEF Apart
  <1> DEFINE n == Cardinality(DOMAIN locks)
  <1>1. PICK g \in held :
            /\ held' = held \ {g}
            /\ locks' = [m \in DOMAIN locks \ {g.number} |-> locks[m]]
            /\ gap' = (gap \/ \E m \in DOMAIN locks : m > g.number)
      BY DEF Release
  <1>2. ~raced /\ ~gap /\ Between(a) = {} /\ pc[a] = "idle" /\ pc' = pc
      BY <1>1 DEF Release, TypeOK
  <1>3. n \in Nat /\ DOMAIN locks = 1..n
      BY <1>2, FS_CardinalityType DEF Apart, TypeOK
  <1>4. g.number = n
    <2>1. g.number \in 1..n
        BY <1>2, <1>3 DEF Apart
    <2>2. n \in DOMAIN locks
        BY <1>3, <2>1
    <2>3. ~\E m \in DOMAIN locks : m > g.number
        BY <1>1
    <2> QED BY <1>3, <2>1, <2>2, <2>3
  <1>5. DOMAIN locks' = 1..(n - 1)
      BY <1>1, <1>3, <1>4
  <1>6. Cardinality(DOMAIN locks') = n - 1
    <2>1. n \in 1..n
        BY <1>2, <1>3, <1>4 DEF Apart
    <2> QED BY <1>3, <1>5, <2>1, FS_Interval
  <1>7. \A h \in held' : h.number \in DOMAIN locks' /\ locks'[h.number] = h.request
    <2> SUFFICES ASSUME NEW h \in held, h # g
                 PROVE  h.number \in DOMAIN locks' /\ locks'[h.number] = h.request
        BY <1>1
    <2>1. h \in Grant /\ g \in Grant
        BY DEF TypeOK
    <2>2. /\ h.number \in DOMAIN locks /\ locks[h.number] = h.request
          /\ locks[g.number] = g.request
        BY <1>2 DEF Apart
    <2>3. h.number # g.number
        BY <2>1, <2>2 DEF Grant
    <2> QED BY <1>1, <2>2, <2>3
  <1>8. \A b \in Agent : pc'[b] \notin {"number", "write"}
      BY <1>2 DEF Between
  <1>9. \A k, m \in DOMAIN locks' : ~Conflicts(locks'[k], locks'[m])
    <2>1. \A k, m \in DOMAIN locks : ~Conflicts(locks[k], locks[m])
        BY <1>2 DEF Apart
    <2> QED BY <1>1, <2>1
  <1> QED BY <1>5, <1>6, <1>7, <1>8, <1>9 DEF Apart

LEMMA StepKeepsApart == TypeOK /\ Jobs /\ Apart /\ [Next]_vars => Apart'
  <1> SUFFICES ASSUME TypeOK, Jobs, Apart, [Next]_vars PROVE Apart'
      OBVIOUS
  <1>1. ASSUME NEW a \in Agent,
               \/ AddTask(a) \/ ClaimTask(a) \/ FinishTask(a) \/ Reinit(a)
               \/ WriteDetail(a) \/ WriteTask(a) \/ WriteBoard(a)
        PROVE  Apart'
    <2>1. UNCHANGED lockVars
        BY <1>1 DEF AddTask, ClaimTask, FinishTask, Proceed, Reinit, WriteDetail,
                    WriteTask, WriteBoard
    <2>2. \A b \in Agent \ {a} : pc'[b] = pc[b] /\ job'[b] = job[b]
        BY <1>1 DEF AddTask, ClaimTask, FinishTask, Proceed, Reinit, WriteDetail,
                    WriteTask, WriteBoard, Goto, End, TypeOK
    <2>3. pc'[a] \notin {"number", "write"}
        BY <1>1 DEF AddTask, ClaimTask, FinishTask, Proceed, Reinit, WriteDetail,
                    WriteTask, WriteBoard, Goto, End, TypeOK, Begin
    <2> QED BY <2>1, <2>2, <2>3, LocksUntouched
  <1>2. ASSUME NEW a \in Agent, ClaimLock(a) \/ Abort(a)  PROVE Apart'
    <2>1. UNCHANGED lockVars
        BY <1>2 DEF ClaimLock, Abort
    <2>2. \A b \in Agent : pc'[b] \in {"number", "write"} =>
              pc'[b] = pc[b] /\ job'[b] = job[b]
        BY <1>2 DEF ClaimLock, Abort, Goto, End, TypeOK
    <2> QED BY <2>1, <2>2, LocksUntouched
  <1>3. CASE UNCHANGED vars
      BY <1>3, LocksUntouched DEF vars
  <1> QED BY <1>1, <1>2, <1>3, ListLocksKeepsApart, NextNumberKeepsApart,
             WriteLockKeepsApart, ReleaseKeepsApart DEF Next

\* The locks of two tasks have no file in common, for any scopes and files and
\* any number of agents, as long as no two commands met half way, numbers were
\* given back in order, and not both scopes have wildcards.
THEOREM LocksExclude == Spec => []ScopesExclude
  <1>1. Init => Apart
    <2> SUFFICES ASSUME Init PROVE Apart
        OBVIOUS
    <2>1. DOMAIN locks = {} /\ Cardinality(DOMAIN locks) = 0
        BY FS_EmptySet DEF Init
    <2>2. DOMAIN locks = 1..Cardinality(DOMAIN locks)
        BY <2>1
    <2> QED BY <2>1, <2>2 DEF Init, Apart
  <1>2. TypeOK /\ Apart => ScopesExclude
    <2> SUFFICES ASSUME TypeOK, Apart, ~raced, ~gap,
                        NEW g \in held, NEW h \in held,
                        g.request.task # h.request.task,
                        ~(g.request.mode = "read" /\ h.request.mode = "read"),
                        ~(Wild(g.request.scope) /\ Wild(h.request.scope))
                 PROVE  Covered(g.request.scope) \intersect Covered(h.request.scope) = {}
        BY DEF ScopesExclude
    <2>1. g \in Grant /\ h \in Grant
        BY DEF TypeOK
    <2>2. g.request.scope \in Scopes /\ h.request.scope \in Scopes
        BY <2>1 DEF Grant, Request
    <2>3. ~Conflicts(g.request, h.request)
        BY DEF Apart
    <2>4. ~TargetsOverlap(g.request.scope, h.request.scope)
        BY <2>3 DEF Conflicts, Compatible
    <2> QED BY <2>2, <2>4, ApartScopes
  <1>3. Spec => []Apart
      BY <1>1, StepKeepsApart, TypeCorrect, PTL DEF Spec
  <1> QED BY <1>2, <1>3, TypeCorrect, PTL

-----------------------------------------------------------------------------
(* The board. *)

\* Who is half way through a command on task k.
On(k) == {a \in OnBoard : job[a].id = k}

Adding == {a \in OnBoard : job[a].op = "add"}

\* Unless two additions met, at most one is under way, and it is of the task
\* after the last one of the board.
OneAddition ==
    0 \in disturbed \/
    \A a \in Adding : (\A b \in Adding : b = a) /\ job[a].id = listed + 1

\* What a command is about to write on task k was made of the task as it is.
Current(k, a) ==
    /\ job[a].op # "add" =>
          /\ task[k] \in TaskFile
          /\ job[a].task.author = task[k].author
    /\ job[a].op = "claim" =>
          /\ task[k].status \in ActiveStatuses
          /\ job[a].task.attempts = task[k].attempts + 1
          /\ pc[a] = "task" =>
                /\ <<k, job[a].task.attempts>> \in DOMAIN attempt
                /\ attempt[<<k, job[a].task.attempts>>] = a
    /\ job[a].op = "finish" => job[a].task.attempts = task[k].attempts
    /\ pc[a] = "board" => task[k] = job[a].task

\* At most one command is under way on an undisturbed task, and it is current.
Fresh ==
    \A k \in TaskId \ disturbed : \A a \in On(k) :
        (\A b \in On(k) : b = a) /\ Current(k, a)

\* The report x agrees with the files.
Holds(x) ==
    /\ task[x.id] \in TaskFile
    /\ x.op = "add" => task[x.id].author = x.task.author
    /\ x.op = "claim" =>
          /\ x.task.attempts =< task[x.id].attempts
          /\ <<x.id, x.task.attempts>> \in DOMAIN attempt
          /\ attempt[<<x.id, x.task.attempts>>] = x.agent
    /\ x.op = "finish" => task[x.id].status \in Results

\* What was reported of an undisturbed task on the board still holds.
Kept ==
    0 \in disturbed \/
    \A x \in told : x.id =< listed /\ (x.id \notin disturbed => Holds(x))

BoardInv == OneAddition /\ Fresh /\ Kept

\* Steps that leave the board alone, and whoever is half way through a command.
LEMMA BoardUntouched ==
    ASSUME BoardInv, UNCHANGED boardVars,
           \A a \in Agent : pc'[a] \in BoardLines =>
               pc'[a] = pc[a] /\ job'[a] = job[a]
    PROVE  BoardInv'
  <1>1. OnBoard' \subseteq OnBoard /\ \A a \in OnBoard' : job'[a] = job[a] /\ pc'[a] = pc[a]
      BY DEF OnBoard
  <1>2. OneAddition'
      BY <1>1 DEF BoardInv, OneAddition, Adding, boardVars
  <1>3. Fresh'
      BY <1>1 DEF BoardInv, Fresh, On, Current, boardVars
  <1>4. Kept'
      BY DEF BoardInv, Kept, Holds, boardVars
  <1> QED BY <1>2, <1>3, <1>4 DEF BoardInv

\* A command that has read its files: if it met no other, what it is about to
\* write is current.
LEMMA ProceedKeepsBoard ==
    ASSUME TypeOK, BoardInv, NEW a \in Agent, NEW k \in TaskId,
           NEW op \in {"add", "claim", "finish"}, NEW new, NEW line \in {"detail", "task"},
           pc[a] = "idle", Proceed(a, op, k, new, line),
           op = "add" => k = listed + 1,
           op # "add" => /\ line = "detail"
                         /\ task[k] \in TaskFile
                         /\ new.author = task[k].author,
           op = "claim" => /\ task[k].status \in ActiveStatuses
                           /\ new.attempts = task[k].attempts + 1,
           op = "finish" => new.attempts = task[k].attempts
    PROVE  BoardInv'
  <1>1. /\ OnBoard' = OnBoard \union {a}
        /\ a \notin OnBoard
        /\ \A b \in OnBoard : job'[b] = job[b] /\ pc'[b] = pc[b]
        /\ job'[a].op = op /\ job'[a].id = k /\ job'[a].task = new
        /\ pc'[a] = line
      BY DEF Proceed, OnBoard, Goto, TypeOK, BoardLines
  <1>2. /\ disturbed' = disturbed \union Met(k, op)
        /\ UNCHANGED <<listed, task, attempt, told>>
      BY DEF Proceed
  <1>3. OneAddition'
    <2> SUFFICES ASSUME 0 \notin disturbed' PROVE OneAddition'
        BY DEF OneAddition
    <2>1. \A b, c \in Adding : b = c /\ job[c].id = listed + 1
        BY <1>2 DEF BoardInv, OneAddition
    <2>2. CASE op = "add"
      <3>1. Adding = {}
          BY <1>2, <2>2, MetProperties DEF Adding
      <3>2. Adding' = {a}
          BY <1>1, <2>2, <3>1 DEF Adding
      <3> QED BY <1>1, <1>2, <2>2, <3>2 DEF OneAddition
    <2>3. CASE op # "add"
      <3>1. Adding' = Adding /\ Adding \subseteq OnBoard
          BY <1>1, <2>3 DEF Adding
      <3> QED BY <1>1, <1>2, <2>1, <3>1 DEF OneAddition
    <2> QED BY <2>2, <2>3
  <1>4. Fresh'
    <2> SUFFICES ASSUME NEW j \in TaskId, j \notin disturbed', NEW b \in On(j)'
                 PROVE  (\A c \in On(j)' : c = b) /\ Current(j, b)'
        BY DEF Fresh
    <2>1. CASE j = k
      <3>1. On(j)' = {a}
          BY <1>1, <1>2, <2>1, MetProperties DEF On
      <3> QED BY <1>1, <1>2, <2>1, <3>1 DEF Current
    <2>2. CASE j # k
      <3>1. On(j)' = On(j)
          BY <1>1, <2>2 DEF On
      <3>2. b \in On(j) /\ j \notin disturbed /\ job'[b] = job[b] /\ pc'[b] = pc[b]
          BY <1>1, <1>2, <3>1 DEF On
      <3>3. (\A c \in On(j) : c = b) /\ Current(j, b)
          BY <3>2 DEF BoardInv, Fresh
      <3> QED BY <1>2, <3>1, <3>2, <3>3 DEF Current
    <2> QED BY <2>1, <2>2
  <1>5. Kept'
      BY <1>2 DEF BoardInv, Kept, Holds
  <1> QED BY <1>3, <1>4, <1>5 DEF BoardInv

\* Putting one file into a directory.
LEMMA PutProperties ==
    ASSUME NEW f, NEW name, NEW content
    PROVE  /\ name \in DOMAIN Put(f, name, content)
           /\ Put(f, name, content)[name] = content
           /\ \A n \in DOMAIN f : /\ n \in DOMAIN Put(f, name, content)
                                  /\ n # name => Put(f, name, content)[n] = f[n]
  BY DEF Put

\* An attempt is filed under a number no reported attempt on the task has.
LEMMA WriteDetailKeepsBoard ==
    ASSUME TypeOK, Jobs, BoardInv, NEW a \in Agent, WriteDetail(a)
    PROVE  BoardInv'
  <1> DEFINE k == job[a].id
             n == job[a].task.attempts
  <1>1. /\ pc[a] = "detail" /\ pc' = [pc EXCEPT ![a] = "task"]
        /\ UNCHANGED <<listed, task, told, disturbed, job>>
      BY DEF WriteDetail, Goto
  <1>2. OnBoard' = OnBoard /\ a \in OnBoard
      BY <1>1 DEF OnBoard, TypeOK, BoardLines
  <1>3. /\ pc'[a] = "task"
        /\ \A b \in Agent \ {a} : pc'[b] = pc[b]
      BY <1>1 DEF TypeOK
  <1>4. job[a] \in BoardJob
      BY <1>1 DEF Jobs, BoardLines
  <1>5. OneAddition'
      BY <1>1, <1>2 DEF BoardInv, OneAddition, Adding
  <1>6. k \notin disturbed => (\A b \in On(k) : b = a) /\ Current(k, a)
      BY <1>2, <1>4 DEF BoardInv, Fresh, On, BoardJob, OnBoard
  <1>7. \/ UNCHANGED attempt /\ job[a].op # "claim"
        \/ /\ job[a].op = "claim"
           /\ <<k, n>> \in DOMAIN attempt' /\ attempt'[<<k, n>>] = a
           /\ \A c \in DOMAIN attempt :
                 c \in DOMAIN attempt' /\ (c # <<k, n>> => attempt'[c] = attempt[c])
      BY PutProperties DEF WriteDetail
  <1>8. Fresh'
    <2> SUFFICES ASSUME NEW j \in TaskId, j \notin disturbed, NEW b \in On(j)
                 PROVE  (\A c \in On(j) : c = b) /\ Current(j, b)'
        BY <1>1, <1>2 DEF Fresh, On
    <2>1. (\A c \in On(j) : c = b) /\ Current(j, b) /\ b \in Agent
        BY DEF BoardInv, Fresh, On, OnBoard
    <2>2. CASE b = a
      <3>1. j = k
          BY <2>2 DEF On
      <3> QED BY <1>1, <1>3, <1>7, <2>1, <2>2, <3>1 DEF Current
    <2>3. CASE b # a
      <3>1. j # k
          BY <1>6, <2>3
      <3>2. pc'[b] = pc[b] /\ job'[b] = job[b]
          BY <1>1, <1>3, <2>1, <2>3
      <3> QED BY <1>1, <1>7, <2>1, <3>1, <3>2 DEF Current
    <2> QED BY <2>2, <2>3
  <1>9. Kept'
    <2> SUFFICES ASSUME 0 \notin disturbed, NEW x \in told, x.id \notin disturbed
                 PROVE  x.id =< listed /\ Holds(x)'
        BY <1>1 DEF Kept, BoardInv
    <2>1. x.id =< listed /\ Holds(x) /\ x \in Reports
        BY DEF BoardInv, Kept, TypeOK
    <2>2. job[a].op = "claim" /\ x.op = "claim" => <<x.id, x.task.attempts>> # <<k, n>>
      <3> SUFFICES ASSUME job[a].op = "claim", x.op = "claim", x.id = k, x.task.attempts = n
                   PROVE  FALSE
          OBVIOUS
      <3>1. Current(k, a)
          BY <1>6
      <3>2. n = task[k].attempts + 1 /\ task[k].attempts \in Nat
          BY <3>1 DEF Current, TaskFile
      <3>3. n =< task[k].attempts
          BY <2>1 DEF Holds
      <3> QED BY <3>2, <3>3
    <2> QED BY <1>1, <1>7, <2>1, <2>2 DEF Holds
  <1> QED BY <1>5, <1>8, <1>9 DEF BoardInv

\* A task file is written: nobody else is half way on an undisturbed task, and
\* a claim or a result leaves its author and takes no result back.
LEMMA WriteTaskKeepsBoard ==
    ASSUME TypeOK, Jobs, BoardInv, NEW a \in Agent, WriteTask(a)
    PROVE  BoardInv'
  <1> DEFINE k == job[a].id
             new == job[a].task
  <1>1. /\ pc[a] = "task"
        /\ task' = [task EXCEPT ![k] = new]
        /\ UNCHANGED <<listed, attempt, disturbed>>
      BY DEF WriteTask
  <1>2. job[a] \in BoardJob /\ a \in OnBoard
      BY <1>1 DEF Jobs, BoardLines, OnBoard
  <1>3. /\ k \in TaskId /\ new \in TaskFile
        /\ job[a].op = "finish" => new.status \in Results
      BY <1>1, <1>2 DEF BoardJob, Jobs, BoardLines
  <1>4. /\ task'[k] = new
        /\ \A j \in TaskId : j # k => task'[j] = task[j]
      BY <1>1, <1>3 DEF TypeOK
  <1>5. \A b \in Agent \ {a} : pc'[b] = pc[b] /\ job'[b] = job[b]
      BY DEF WriteTask, Goto, End, TypeOK
  <1>6. IF job[a].op = "add"
        THEN pc'[a] = "board" /\ job' = job /\ OnBoard' = OnBoard
        ELSE pc'[a] = "idle" /\ OnBoard' = OnBoard \ {a}
      BY <1>2 DEF WriteTask, Goto, End, TypeOK, OnBoard, BoardLines
  <1>7. k \notin disturbed => (\A b \in On(k) : b = a) /\ Current(k, a)
      BY <1>2, <1>3 DEF BoardInv, Fresh, On
  <1>8. OneAddition'
    <2>1. Adding' = Adding
        BY <1>5, <1>6 DEF Adding, OnBoard
    <2>2. \A b \in Adding : job'[b] = job[b]
        BY <1>5, <1>6 DEF Adding, OnBoard
    <2> QED BY <1>1, <2>1, <2>2 DEF BoardInv, OneAddition
  <1>9. Fresh'
    <2> SUFFICES ASSUME NEW j \in TaskId, j \notin disturbed, NEW b \in On(j)'
                 PROVE  (\A c \in On(j)' : c = b) /\ Current(j, b)'
        BY <1>1 DEF Fresh
    <2>1. On(j)' \subseteq On(j) /\ b \in OnBoard' /\ job'[b] = job[b]
        BY <1>5, <1>6 DEF On, OnBoard
    <2>2. (\A c \in On(j) : c = b) /\ Current(j, b)
        BY <2>1 DEF BoardInv, Fresh
    <2>3. CASE b = a
      <3>1. j = k /\ job[a].op = "add" /\ pc'[a] = "board"
          BY <1>6, <2>1, <2>3 DEF On
      <3> QED BY <1>4, <2>1, <2>2, <2>3, <3>1 DEF Current
    <2>4. CASE b # a
      <3>1. j # k
          BY <1>7, <2>1, <2>4
      <3>2. pc'[b] = pc[b] /\ task'[j] = task[j]
          BY <1>4, <1>5, <2>1, <2>4, <3>1 DEF OnBoard
      <3> QED BY <1>1, <2>1, <2>2, <3>2 DEF Current
    <2> QED BY <2>3, <2>4
  <1>10. Kept'
    <2> DEFINE y == [op |-> job[a].op, id |-> k, agent |-> a, task |-> new]
    <2> SUFFICES ASSUME 0 \notin disturbed, NEW x \in told'
                 PROVE  x.id =< listed /\ (x.id \notin disturbed => Holds(x)')
        BY <1>1 DEF Kept
    <2>1. \/ x \in told
          \/ x = y /\ job[a].op # "add" /\ k =< listed
        BY <1>1 DEF WriteTask, Report
    <2>2. CASE x \in told
      <3>1. x.id =< listed /\ x \in Reports
          BY <2>2 DEF BoardInv, Kept, TypeOK
      <3> SUFFICES ASSUME x.id \notin disturbed  PROVE Holds(x)'
          BY <3>1
      <3>2. Holds(x)
          BY <2>2 DEF BoardInv, Kept
      <3>3. CASE x.id = k
        <4>1. job[a].op # "add"
          <5> SUFFICES ASSUME job[a].op = "add"  PROVE FALSE
              OBVIOUS
          <5>1. k = listed + 1
              BY <1>2 DEF BoardInv, OneAddition, Adding
          <5> QED BY <3>1, <3>3, <5>1 DEF TypeOK
        <4>2. new.author = task[k].author
            BY <1>7, <3>3, <4>1 DEF Current
        <4>3. job[a].op = "claim" =>
                 /\ task[k].status \in ActiveStatuses
                 /\ new.attempts = task[k].attempts + 1
            BY <1>7, <3>3 DEF Current
        <4>4. job[a].op = "finish" => new.attempts = task[k].attempts
            BY <1>7, <3>3 DEF Current
        <4>5. job[a].op \in {"claim", "finish"}
            BY <1>2, <4>1 DEF BoardJob
        <4>6. /\ new \in TaskFile /\ task'[x.id] = new /\ attempt' = attempt
              /\ task[k] \in TaskFile
            BY <1>1, <1>3, <1>4, <3>2, <3>3 DEF Holds
        <4>7. x.op = "add" => new.author = x.task.author
            BY <3>2, <3>3, <4>2 DEF Holds
        <4>8. x.op = "claim" => x.task.attempts =< new.attempts
          <5>1. task[k].attempts \in Nat /\ x.task.attempts \in Nat
              BY <3>1, <4>6 DEF TaskFile, Reports
          <5> QED BY <3>2, <3>3, <4>3, <4>4, <4>5, <5>1 DEF Holds
        <4>9. x.op = "finish" => new.status \in Results
            BY <1>3, <3>2, <3>3, <4>3, <4>5 DEF Holds, ActiveStatuses, Results
        <4> QED BY <3>2, <3>3, <4>6, <4>7, <4>8, <4>9 DEF Holds
      <3>4. CASE x.id # k
        <4>1. task'[x.id] = task[x.id]
            BY <1>4, <3>1, <3>4 DEF Reports
        <4> QED BY <1>1, <3>2, <4>1 DEF Holds
      <3> QED BY <3>3, <3>4
    <2>3. CASE x = y /\ job[a].op # "add" /\ k =< listed
      <3> SUFFICES ASSUME k \notin disturbed  PROVE Holds(x)'
          BY <2>3
      <3>1. Current(k, a)
          BY <1>7
      <3>2. job[a].op = "claim" =>
               /\ <<k, new.attempts>> \in DOMAIN attempt
               /\ attempt[<<k, new.attempts>>] = a
          BY <1>1, <3>1 DEF Current
      <3>3. new.attempts =< new.attempts
          BY <1>3 DEF TaskFile
      <3> QED BY <1>1, <1>3, <1>4, <2>3, <3>2, <3>3 DEF Holds
    <2> QED BY <2>1, <2>2, <2>3
  <1> QED BY <1>8, <1>9, <1>10 DEF BoardInv

\* The board is written with one task more than it has.
LEMMA WriteBoardKeepsBoard ==
    ASSUME TypeOK, Jobs, BoardInv, NEW a \in Agent, WriteBoard(a)
    PROVE  BoardInv'
  <1> DEFINE k == job[a].id
  <1>1. /\ pc[a] = "board" /\ listed' = k
        /\ UNCHANGED <<task, attempt, disturbed>>
      BY DEF WriteBoard
  <1>2. job[a] \in BoardJob /\ job[a].op = "add" /\ a \in OnBoard
      BY <1>1 DEF Jobs, BoardLines, OnBoard
  <1>3. OnBoard' = OnBoard \ {a}
      BY DEF WriteBoard, End, Goto, OnBoard, TypeOK, BoardLines
  <1>4. \A b \in OnBoard' : pc'[b] = pc[b] /\ job'[b] = job[b]
      BY <1>3 DEF WriteBoard, End, Goto, OnBoard, TypeOK
  <1>5. 0 \notin disturbed => Adding = {a} /\ k = listed + 1
      BY <1>2 DEF BoardInv, OneAddition, Adding
  <1>6. OneAddition'
    <2>1. Adding' = Adding \ {a}
        BY <1>3, <1>4 DEF Adding
    <2> QED BY <1>1, <1>5, <2>1 DEF OneAddition
  <1>7. Fresh'
    <2> SUFFICES ASSUME NEW j \in TaskId, j \notin disturbed, NEW b \in On(j)'
                 PROVE  (\A c \in On(j)' : c = b) /\ Current(j, b)'
        BY <1>1 DEF Fresh
    <2>1. On(j)' \subseteq On(j) /\ b \in OnBoard'
        BY <1>3, <1>4 DEF On
    <2>2. (\A c \in On(j) : c = b) /\ Current(j, b)
        BY <2>1 DEF BoardInv, Fresh
    <2> QED BY <1>1, <1>4, <2>1, <2>2 DEF Current
  <1>8. Kept'
    <2> DEFINE y == [op |-> job[a].op, id |-> k, agent |-> a, task |-> job[a].task]
    <2> SUFFICES ASSUME 0 \notin disturbed, NEW x \in told'
                 PROVE  x.id =< k /\ (x.id \notin disturbed => Holds(x)')
        BY <1>1 DEF Kept
    <2>1. x \in told \/ x = y
        BY DEF WriteBoard, Report
    <2>2. CASE x \in told
      <3>1. x.id =< listed /\ x \in Reports
          BY <2>2 DEF BoardInv, Kept, TypeOK
      <3>2. x.id \in Nat /\ listed \in Nat
          BY <3>1, TasksAreNumbers DEF Reports, TypeOK
      <3>3. x.id =< k
          BY <1>5, <3>1, <3>2
      <3>4. x.id \notin disturbed => Holds(x)
          BY <2>2 DEF BoardInv, Kept
      <3> QED BY <1>1, <3>3, <3>4 DEF Holds
    <2>3. CASE x = y
      <3>1. k \in Nat /\ k \in TaskId /\ job[a].task \in TaskFile
          BY <1>2, TasksAreNumbers DEF BoardJob
      <3>2. k \notin disturbed => task[k] = job[a].task
          BY <1>1, <1>2, <3>1 DEF BoardInv, Fresh, Current, On
      <3> QED BY <1>1, <1>2, <2>3, <3>1, <3>2 DEF Holds
    <2> QED BY <2>1, <2>2, <2>3
  <1> QED BY <1>6, <1>7, <1>8 DEF BoardInv

\* A new board disturbs whoever is half way.
LEMMA ReinitKeepsBoard ==
    ASSUME BoardInv, NEW a \in Agent, Reinit(a)
    PROVE  BoardInv'
  <1>1. /\ UNCHANGED <<task, attempt, pc, job>> /\ told' = {}
        /\ disturbed \subseteq disturbed'
        /\ \A b \in OnBoard : job[b].id \in disturbed'
        /\ \A b \in Adding : 0 \in disturbed'
      BY DEF Reinit, Adding
  <1>2. OnBoard' = OnBoard /\ Adding' = Adding
      BY <1>1 DEF OnBoard, Adding
  <1>3. OneAddition'
      BY <1>1, <1>2 DEF OneAddition
  <1>4. Fresh'
      BY <1>1, <1>2 DEF Fresh, On
  <1>5. Kept'
      BY <1>1 DEF Kept
  <1> QED BY <1>3, <1>4, <1>5 DEF BoardInv

LEMMA StepKeepsBoard == TypeOK /\ Jobs /\ BoardInv /\ [Next]_vars => BoardInv'
  <1> SUFFICES ASSUME TypeOK, Jobs, BoardInv, [Next]_vars PROVE BoardInv'
      OBVIOUS
  <1>1. ASSUME NEW a \in Agent, AddTask(a)  PROVE BoardInv'
    <2>1. listed + 1 \in TaskId
        BY <1>1, TasksAreNumbers DEF AddTask, TypeOK, TaskId
    <2> QED BY <1>1, <2>1, ProceedKeepsBoard DEF AddTask, Begin
  <1>2. ASSUME NEW a \in Agent, ClaimTask(a)  PROVE BoardInv'
    <2>1. PICK k \in TaskId :
              /\ task[k].status \in ActiveStatuses
              /\ task[k] # None
              /\ Proceed(a, "claim", k, Claimed(task[k]), "detail")
        BY <1>2 DEF ClaimTask
    <2>2. task[k] \in TaskFile
        BY <2>1 DEF TypeOK
    <2>3. /\ Claimed(task[k]).author = task[k].author
          /\ Claimed(task[k]).attempts = task[k].attempts + 1
        BY DEF Claimed
    <2> QED BY <1>2, <2>1, <2>2, <2>3, ProceedKeepsBoard DEF ClaimTask, Begin
  <1>3. ASSUME NEW a \in Agent, FinishTask(a)  PROVE BoardInv'
    <2>1. PICK k \in TaskId, r \in Results :
              /\ task[k] # None
              /\ Proceed(a, "finish", k, [task[k] EXCEPT !.status = r], "detail")
        BY <1>3 DEF FinishTask
    <2>2. task[k] \in TaskFile
        BY <2>1 DEF TypeOK
    <2>3. /\ [task[k] EXCEPT !.status = r].author = task[k].author
          /\ [task[k] EXCEPT !.status = r].attempts = task[k].attempts
        BY <2>2 DEF TaskFile
    <2> QED BY <1>3, <2>1, <2>2, <2>3, ProceedKeepsBoard DEF FinishTask, Begin
  <1>4. ASSUME NEW a \in Agent,
               \/ ClaimLock(a) \/ ListLocks(a) \/ NextNumber(a) \/ WriteLock(a)
               \/ Release(a) \/ Abort(a)
        PROVE  BoardInv'
    <2>1. UNCHANGED boardVars
        BY <1>4 DEF ClaimLock, ListLocks, NextNumber, WriteLock, Release, Abort
    <2>2. \A b \in Agent \ {a} : pc'[b] = pc[b] /\ job'[b] = job[b]
        BY <1>4 DEF ClaimLock, ListLocks, NextNumber, WriteLock, Release, Abort,
                    Goto, End, TypeOK
    <2>3. pc'[a] \notin BoardLines
        BY <1>4 DEF ClaimLock, ListLocks, NextNumber, WriteLock, Release, Abort,
                    Goto, End, TypeOK, BoardLines
    <2> QED BY <2>1, <2>2, <2>3, BoardUntouched
  <1>5. CASE UNCHANGED vars
      BY <1>5, BoardUntouched DEF vars
  <1> QED BY <1>1, <1>2, <1>3, <1>4, <1>5, WriteDetailKeepsBoard,
             WriteTaskKeepsBoard, WriteBoardKeepsBoard, ReinitKeepsBoard DEF Next

\* What a command of the board reports is kept, for any number of agents, tasks
\* and commands, whichever of them are killed half way, as long as no two met on
\* the task: an added task stays, an attempt stays its agent's, and a task with a
\* result is never claimed again.
THEOREM ReportsAreKept == Spec => []ToldIsKept
  <1>1. Init => BoardInv
      BY DEF Init, BoardInv, OneAddition, Fresh, Kept, On, Adding, OnBoard, BoardLines
  <1>2. TypeOK /\ BoardInv => ToldIsKept
    <2> SUFFICES ASSUME TypeOK, BoardInv, 0 \notin disturbed,
                        NEW x \in told, x.id \notin disturbed
                 PROVE  \/ x.op = "add" /\ x.id =< listed
                              /\ task[x.id].author = x.task.author
                        \/ x.op = "claim" /\ attempt[<<x.id, x.task.attempts>>] = x.agent
                        \/ x.op = "finish" /\ task[x.id].status \in Results
        BY DEF ToldIsKept
    <2>1. x.id =< listed /\ Holds(x)
        BY DEF BoardInv, Kept
    <2>2. x.op \in {"add", "claim", "finish"}
        BY DEF TypeOK, Reports
    <2> QED BY <2>1, <2>2 DEF Holds
  <1>3. Spec => []BoardInv
      BY <1>1, StepKeepsBoard, TypeCorrect, PTL DEF Spec
  <1> QED BY <1>2, <1>3, TypeCorrect, PTL

=============================================================================
