---------------------------- MODULE ChildProcess ----------------------------
(***************************************************************************)
(* The runners of one bounded child process:                               *)
(*   "mcp"        agent_maintainer/mcp/process.py, run_bounded_process     *)
(*   "docsync"    docsync/git/process.py, run_git                          *)
(*   "attention"  agent_maintainer/attention/git_output.py, command_lines  *)
(*   "command"    agent_maintainer/core/command_run.py                     *)
(* A call waits for the child it has started, drains its pipes in threads   *)
(* of its own, and kills when the deadline or the output limit is reached.  *)
(* The child may have descendants that inherit its pipes and live longer    *)
(* than it does; each process may give the pipes up, by redirecting its     *)
(* output, and go on.                                                      *)
(*                                                                         *)
(* Output is counted in units: a byte, or a line for "attention".           *)
(***************************************************************************)
EXTENDS Integers, FiniteSets

CONSTANTS
    Runners,      \* the runners that are looked at
    Leader,       \* the started process
    Descendants,  \* processes it may have started in its group
    Limit,        \* units of a stream above which the child is stopped
    Chunk,        \* STREAM_CHUNK_BYTES
    PipeSize,     \* units a pipe holds before a writer blocks
    MaxWrites,    \* bound: units written to one stream
    MaxFaults     \* bound: failing reads, refused SIGTERMs, interrupts

ASSUME ChildAssumption ==
    /\ Runners \subseteq {"mcp", "docsync", "attention", "command"}
    /\ Leader \notin Descendants
    /\ Limit \in Nat \ {0}
    /\ Chunk \in Nat \ {0}
    /\ PipeSize \in Nat \ {0}
    /\ MaxWrites \in Nat
    /\ MaxFaults \in Nat

Process == {Leader} \union Descendants
Stream == {"out", "err"}

VARIABLES
    runner,   \* which runner makes the call
    place,    \* where the calling thread is
    cut,      \* why it stopped waiting: "no", "timeout", "interrupt",
              \* "abandon" (interrupted while it stopped or joined the child)
              \* or "error" (its own signal raised)
    reach,    \* whom its kill reaches: the "group" or the "leader"
    timer,    \* the watchdog thread of "attention"
    alive,    \* processes of the group that run
    holds,    \* those of them that hold the pipes
    code,     \* how the leader ended: "none", "zero", "bad", "killed"
    killer,   \* history: whose kill ended the leader
    refused,  \* history: a kill of the running leader was refused
    reader,   \* what each draining loop does or how it ended
    written,  \* units written to each stream
    drained,  \* units taken out of the pipe by the pending read
    taken,    \* units returned by completed reads
    faults

group == <<alive, holds, code, killer, refused>>
streams == <<reader, written, drained, taken>>
vars == <<runner, place, cut, reach, timer, group, streams, faults>>

Pipes == CASE runner \in {"mcp", "docsync"} -> Stream
           [] runner = "attention" -> {"out"}
           [] OTHER -> {}

TypeOK ==
    /\ runner \in Runners
    /\ place \in {"wait", "kill", "join", "term", "grace", "done"}
    /\ cut \in {"no", "timeout", "interrupt", "abandon", "error"}
    /\ reach \in {"group", "leader"}
    /\ timer \in {"off", "armed", "due", "set", "fired"}
    /\ alive \subseteq Process
    /\ holds \subseteq alive
    /\ code \in {"none", "zero", "bad", "killed"}
    /\ killer \in {"none", "deadline", "limit", "fault", "interrupt"}
    /\ refused \in BOOLEAN
    /\ reader \in [Stream -> {"none", "reading", "eof", "limit", "failed"}]
    /\ written \in [Stream -> 0..MaxWrites]
    /\ drained \in [Stream -> 0..MaxWrites]
    /\ taken \in [Stream -> 0..MaxWrites]
    /\ faults \in 0..MaxFaults

Init ==
    /\ runner \in Runners
    /\ place = "wait"
    /\ cut = "no"
    /\ reach = IF runner \in {"mcp", "command"} THEN "group" ELSE "leader"
    /\ timer = IF runner = "attention" THEN "armed" ELSE "off"
    /\ alive \in {S \in SUBSET Process : Leader \in S}
    /\ holds = IF Pipes = {} THEN {} ELSE alive
    /\ code = "none"
    /\ killer = "none"
    /\ refused = FALSE
    /\ reader = [s \in Stream |-> IF s \in Pipes THEN "reading" ELSE "none"]
    /\ written = [s \in Stream |-> 0]
    /\ drained = [s \in Stream |-> 0]
    /\ taken = [s \in Stream |-> 0]
    /\ faults = 0

-----------------------------------------------------------------------------
(* The kill of each runner: nothing once the leader is seen to have ended,  *)
(* and nothing when the signal is refused, which three of them ignore.      *)

Ended(gone) == alive' = alive \ gone /\ holds' = holds \ gone

\* Seeded fault: only the leader is killed.
Killed_Leader(why) ==
    /\ Leader \in alive
    /\ Ended({Leader})
    /\ code' = "killed"
    /\ killer' = why
    /\ UNCHANGED refused

Killed(why) ==
    /\ Leader \in alive
    /\ Ended(IF reach = "group" THEN alive ELSE {Leader})
    /\ code' = "killed"
    /\ killer' = why
    /\ UNCHANGED refused

Refused ==
    /\ Leader \in alive
    /\ refused' = TRUE
    /\ UNCHANGED <<alive, holds, code, killer>>

TooLate == Leader \notin alive /\ UNCHANGED group

Kill(why) == Killed(why) \/ Refused \/ TooLate

-----------------------------------------------------------------------------
(* The processes of the group. *)

Write(s) ==
    /\ place # "done"
    /\ holds # {}
    /\ s \in Pipes
    /\ written[s] < MaxWrites
    /\ written[s] - drained[s] < PipeSize
    /\ written' = [written EXCEPT ![s] = @ + 1]
    /\ UNCHANGED <<runner, place, cut, reach, timer, group, reader, drained, taken, faults>>

\* A process redirects its output or closes it.
LetGo(p) ==
    /\ place # "done"
    /\ p \in holds
    /\ holds' = holds \ {p}
    /\ UNCHANGED <<runner, place, cut, reach, timer, alive, code, killer, refused, streams, faults>>

End(p) ==
    /\ p \in alive
    /\ Ended({p})
    /\ IF p = Leader THEN code' \in {"zero", "bad"} ELSE UNCHANGED code
    /\ UNCHANGED <<runner, place, cut, reach, timer, killer, refused, streams, faults>>

-----------------------------------------------------------------------------
(* The draining loops. *)

\* Seeded fault: docsync never asks for the unit above its limit, and a read
\* of nothing counts as the end of the stream.
ReadSize_NoProbe(s) ==
    CASE runner = "mcp" -> Chunk
      [] runner = "docsync" -> IF Chunk < Limit - taken[s]
                               THEN Chunk ELSE Limit - taken[s]
      [] OTHER -> 1

\* How much one read asks for (_next_read_size in docsync).
ReadSize(s) ==
    CASE runner = "mcp" -> Chunk
      [] runner = "docsync" -> IF Chunk < Limit - taken[s] + 1
                               THEN Chunk ELSE Limit - taken[s] + 1
      [] OTHER -> 1

\* A pending read takes out of the pipe what it needs ...
Drain(s) ==
    /\ place # "done"
    /\ reader[s] = "reading"
    /\ drained[s] < written[s]
    /\ drained[s] - taken[s] < ReadSize(s)
    /\ drained' = [drained EXCEPT ![s] = @ + 1]
    /\ UNCHANGED <<runner, place, cut, reach, timer, group, reader, written, taken, faults>>

\* Seeded fault: what was asked for is counted, not what was read.
ReadReturns_CountsAsked(s) ==
    /\ place # "done"
    /\ reader[s] = "reading"
    /\ \/ drained[s] - taken[s] = ReadSize(s)
       \/ holds = {} /\ drained[s] = written[s]
    /\ taken' = [taken EXCEPT ![s] = @ + ReadSize(s)]
    /\ IF drained[s] = taken[s]
       THEN reader' = [reader EXCEPT ![s] = "eof"] /\ UNCHANGED group
       ELSE IF drained[s] > Limit
       THEN reader' = [reader EXCEPT ![s] = "limit"] /\ Kill("limit")
       ELSE UNCHANGED <<reader, group>>
    /\ UNCHANGED <<runner, place, cut, reach, timer, written, drained, faults>>

\* ... and returns once it is served or nobody holds the other end; a read of
\* nothing is the end, too much kills the child and ends the loop.
ReadReturns(s) ==
    /\ place # "done"
    /\ reader[s] = "reading"
    /\ \/ drained[s] - taken[s] = ReadSize(s)
       \/ holds = {} /\ drained[s] = written[s]
    /\ taken' = [taken EXCEPT ![s] = drained[s]]
    /\ IF drained[s] = taken[s]
       THEN reader' = [reader EXCEPT ![s] = "eof"] /\ UNCHANGED group
       ELSE IF drained[s] > Limit
       THEN reader' = [reader EXCEPT ![s] = "limit"] /\ Kill("limit")
       ELSE UNCHANGED <<reader, group>>
    /\ UNCHANGED <<runner, place, cut, reach, timer, written, drained, faults>>

\* A read fails: attention returns without a kill.
ReadFails(s) ==
    /\ place # "done"
    /\ reader[s] = "reading"
    /\ faults < MaxFaults
    /\ faults' = faults + 1
    /\ reader' = [reader EXCEPT ![s] = "failed"]
    /\ IF runner = "attention" THEN UNCHANGED group ELSE Kill("fault")
    /\ UNCHANGED <<runner, place, cut, reach, timer, written, drained, taken>>

Drained == \A s \in Stream : reader[s] # "reading"

-----------------------------------------------------------------------------
(* The calling thread. *)

\* wait() returns.  attention has read its pipe before it waits.
WaitReturns ==
    /\ place = "wait"
    /\ runner = "attention" => Drained
    /\ Leader \notin alive
    /\ place' = IF runner = "command" THEN "done" ELSE "join"
    /\ UNCHANGED <<runner, cut, reach, timer, group, streams, faults>>

\* wait() raises TimeoutExpired; the kill is a later step.
TimesOut ==
    /\ place = "wait"
    /\ runner # "attention"
    /\ Leader \in alive
    /\ cut' = "timeout"
    /\ place' = IF runner = "command" THEN "term" ELSE "kill"
    /\ UNCHANGED <<runner, reach, timer, group, streams, faults>>

\* _wait_for_process: the kill, and a wait that ends with the leader.
KillOnTimeout ==
    /\ place = "kill"
    /\ Kill("deadline")
    /\ place' = "join"
    /\ UNCHANGED <<runner, cut, reach, timer, streams, faults>>

\* The threads are joined and the process is reaped; attention has cancelled
\* its timer and looks at its event.  An interrupted mcp or docsync call still
\* joins its threads, but Popen.__exit__ does not insist on the leader then.
Return ==
    /\ place = "join"
    /\ Drained
    /\ Leader \in alive => cut = "interrupt" /\ runner \in {"mcp", "docsync"}
    /\ place' = "done"
    /\ timer' = IF timer = "armed" THEN "off" ELSE timer
    /\ cut' = IF timer \in {"set", "fired"} THEN "timeout" ELSE cut
    /\ UNCHANGED <<runner, reach, group, streams, faults>>

\* SIGTERM to the group: each process obeys or not.
Terminate ==
    /\ place = "term"
    /\ \E obey \in SUBSET alive :
           /\ Ended(obey)
           /\ code' = IF Leader \in obey THEN "bad" ELSE code
    /\ place' = "grace"
    /\ UNCHANGED <<runner, cut, reach, timer, killer, refused, streams, faults>>

\* The group may not be signalled: the leader alone is.
TerminateRefused ==
    /\ place = "term"
    /\ faults < MaxFaults
    /\ faults' = faults + 1
    /\ reach' = "leader"
    /\ \E obey \in SUBSET (alive \cap {Leader}) :
           /\ Ended(obey)
           /\ code' = IF Leader \in obey THEN "bad" ELSE code
    /\ place' = "grace"
    /\ UNCHANGED <<runner, cut, timer, killer, refused, streams>>

\* Seeded fault: no second stage.
KillAfterGrace_Never ==
    /\ place = "grace"
    /\ UNCHANGED group
    /\ place' = "join"
    /\ UNCHANGED <<runner, cut, reach, timer, streams, faults>>

\* The wait of the grace period ends with the leader or with the kill.
KillAfterGrace ==
    /\ place = "grace"
    /\ \/ Killed(IF cut = "timeout" THEN "deadline" ELSE "interrupt")
       \/ TooLate
    /\ place' = "join"
    /\ UNCHANGED <<runner, cut, reach, timer, streams, faults>>

\* The signal to the leader, or the kill of the second stage, raises; the
\* error leaves through Popen.__exit__, which waits for the leader.
SignalRaises ==
    /\ place \in {"term", "grace"}
    /\ Refused
    /\ cut' = "error"
    /\ place' = "join"
    /\ UNCHANGED <<runner, reach, timer, streams, faults>>

\* KeyboardInterrupt in the calling thread, at any wait.
\*   attention has no handler and leaves; its timer goes on.
\*   command terminates the tree; interrupted in doing so it leaves, for
\*     Popen.__exit__ does not wait for the leader of an interrupted call.
\*   mcp and docsync go on to join their threads, without a deadline and
\*     without a kill that has not been made; interrupted in that they leave.
\*     (What the closing of a pipe that is being read waits for is left out.)
Interrupt ==
    /\ place # "done"
    /\ faults < MaxFaults
    /\ faults' = faults + 1
    /\ \/ /\ runner = "attention"
          /\ cut' = "interrupt" /\ place' = "done"
       \/ /\ runner = "command" /\ place = "wait"
          /\ cut' = "interrupt"
          /\ place' = IF Leader \in alive THEN "term" ELSE "join"
       \/ /\ runner = "command" /\ place # "wait"
          /\ cut' = "abandon" /\ place' = "done"
       \/ /\ runner \in {"mcp", "docsync"}
          /\ cut' = "interrupt" /\ place' = "join"
       \/ /\ runner \in {"mcp", "docsync"} /\ place = "join"
          /\ cut' = "abandon" /\ place' = "done"
    /\ UNCHANGED <<runner, reach, timer, group, streams>>

-----------------------------------------------------------------------------
(* The watchdog of attention: Timer finds itself not cancelled, sets the    *)
(* event, kills.                                                           *)

TimerDue ==
    /\ timer = "armed"
    /\ timer' = "due"
    /\ UNCHANGED <<runner, place, cut, reach, group, streams, faults>>

\* Seeded fault: the kill comes before the event.
SetEvent_KillFirst ==
    /\ timer = "due"
    /\ timer' = IF Leader \in alive THEN "due" ELSE "set"
    /\ Kill("deadline")
    /\ UNCHANGED <<runner, place, cut, reach, streams, faults>>

SetEvent ==
    /\ timer = "due"
    /\ timer' = "set"
    /\ UNCHANGED <<runner, place, cut, reach, group, streams, faults>>

TimerKills ==
    /\ timer = "set"
    /\ timer' = "fired"
    /\ Kill("deadline")
    /\ UNCHANGED <<runner, place, cut, reach, streams, faults>>

-----------------------------------------------------------------------------

Call == \/ WaitReturns \/ TimesOut \/ KillOnTimeout \/ Return
        \/ Terminate \/ TerminateRefused \/ KillAfterGrace \/ SignalRaises

Watchdog == TimerDue \/ SetEvent \/ TimerKills

Next ==
    \/ \E s \in Stream : Write(s) \/ Drain(s) \/ ReadReturns(s) \/ ReadFails(s)
    \/ \E p \in Process : LetGo(p) \/ End(p)
    \/ Call
    \/ Watchdog
    \/ Interrupt

Spec == Init /\ [][Next]_vars

\* The threads of the runner run and time passes; nothing is assumed of the
\* child.
FairSpec ==
    /\ Spec
    /\ WF_vars(Call)
    /\ WF_vars(Watchdog)
    /\ \A s \in Stream : WF_vars(Drain(s)) /\ WF_vars(ReadReturns(s))

-----------------------------------------------------------------------------

\* What the caller is told: an exception, a flag (attention: an empty result
\* stands for a failed command), or "ok" with output and exit code.
Told ==
    IF cut = "timeout" THEN "timeout"
    ELSE IF cut \in {"interrupt", "abandon"} THEN "interrupt"
    ELSE IF \E s \in Stream : reader[s] = "limit" THEN "limit"
    ELSE IF \/ cut = "error"
            \/ runner = "docsync" /\ \E s \in Stream : reader[s] = "failed"
            \/ runner = "attention" /\ code # "zero"
    THEN "failed"
    ELSE "ok"

\* A call that reports success returns everything the group has written.  Two
\* runners make an exception of a read that failed: attention reports it as an
\* empty success, mcp as whatever a leader that had ended returned.
CompleteOrTold ==
    place = "done" /\ Told = "ok" =>
        \A s \in Pipes : \/ taken[s] = written[s]
                         \/ runner # "docsync" /\ reader[s] = "failed"

\* "Kill a still-running child and its descendants": what a call may leave
\* running when it returns, whoever was interrupted, refused or redirected.
\*   The leader only if the call was interrupted: attention's at any time,
\*     that of command only in the middle of its termination, that of mcp and
\*     docsync only when it was interrupted twice, had let go of its pipes or
\*     could not be killed.
\*   A descendant that holds the pipes only if no stream was read to its end.
\*   Anybody after a kill only if the kill reached the leader alone.
\* Not covered are descendants that have let go of the pipes, or have no part
\* in them (command), and whose leader ended by itself: GroupTerminated.
NothingLeft ==
    place = "done" =>
        /\ Leader \in alive =>
              \/ cut = "abandon"
              \/ cut = "interrupt" /\ runner = "attention"
              \/ /\ cut = "interrupt" /\ runner \in {"mcp", "docsync"}
                 /\ Leader \notin holds \/ refused
        /\ holds # {} => \A s \in Stream : reader[s] # "eof"
        /\ alive # {} /\ code = "killed" => reach = "leader"

\* "Timeout cleanup terminates children spawned by the checked command"
\* (tests/core/test_command_run.py): a command call that reports a timeout,
\* and was not refused the group, leaves nobody of it.
GroupTerminated ==
    place = "done" /\ runner = "command" /\ cut = "timeout" /\ reach = "group"
        => alive = {}

\* A leader that was killed at the deadline is never reported as having failed
\* or succeeded: the event is set before the kill, the flag follows it.
DeadlineIsTold ==
    place = "done" /\ killer = "deadline" => Told \in {"timeout", "interrupt"}

\* Every call ends, whatever the child does, however much it writes and to
\* which stream, but in three cases.  An interrupted mcp or docsync call has
\* lost its deadline; a leader that the kill was refused for is waited for;
\* and descendants that have outlived the leader may keep the pipes, for no
\* runner with pipes kills once the leader has ended.
CallEnds ==
    \/ <>(\/ place = "done"
          \/ cut = "interrupt" /\ runner \in {"mcp", "docsync"})
    \/ <>[](refused /\ Leader \in alive)
    \/ <>[](runner # "command" /\ Leader \notin alive /\ holds # {})

=============================================================================
