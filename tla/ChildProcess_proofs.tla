------------------------ MODULE ChildProcess_proofs ------------------------
(***************************************************************************)
(* Proofs about the runners of one child process, for any descendants,      *)
(* output limit, size of a read and of a pipe.                              *)
(***************************************************************************)
EXTENDS ChildProcess, TLAPS

\* What was returned was taken out of the pipe, and that was written; a loop
\* that still reads has returned no more than the limit, so that every read
\* asks for something.
Flow ==
    \A s \in Stream :
        /\ taken[s] =< drained[s] /\ drained[s] =< written[s]
        /\ reader[s] = "reading" => taken[s] =< Limit
        /\ reader[s] = "none" <=> s \notin Pipes

\* A stream that was read to its end is complete: nobody is left to write.
Complete ==
    \A s \in Stream :
        reader[s] = "eof" => holds = {} /\ taken[s] = written[s]

\* A loop that has stopped before the end of its stream has made its kill.
Stopped ==
    runner # "attention" /\ Leader \in alive /\ ~refused =>
        \A s \in Stream : reader[s] \notin {"limit", "failed"}

\* A call that is over has joined its readers unless it left at once, and
\* reaped its leader unless it was interrupted.
Reaped ==
    /\ /\ place = "done" /\ cut # "abandon"
       /\ ~(runner = "attention" /\ cut = "interrupt")
       => Drained
    /\ place = "done" /\ Leader \in alive =>
          \/ cut = "abandon"
          \/ cut = "interrupt" /\ runner # "command"

\* A kill that reaches the group leaves nobody.
KilledAll == code = "killed" /\ alive # {} => reach = "leader"

\* A kill at the deadline follows its mark: the exception that was raised or
\* the event that was set.
Marked ==
    /\ place = "wait" => cut = "no"
    /\ place = "kill" => cut = "timeout"
    /\ runner # "attention" => timer = "off"
    /\ killer = "deadline" => cut # "no" \/ timer = "fired"
    /\ place = "done" /\ killer = "deadline" => cut # "no"
    /\ place \in {"term", "grace"} => runner = "command"
    /\ runner = "command" /\ place \in {"wait", "term", "grace"} => killer = "none"
    /\ cut = "error" => runner = "command" /\ killer = "none" /\ place \in {"join", "done"}

IInv == TypeOK /\ Flow /\ Complete /\ Stopped /\ Reaped /\ KilledAll /\ Marked

LEMMA Pieces ==
    ASSUME TypeOK
    PROVE  /\ Pipes \subseteq Stream
           /\ runner = "command" => Pipes = {}
  BY ChildAssumption DEF TypeOK, Pipes, Stream

\* A read asks for at least one unit.
LEMMA ReadSizePositive ==
    ASSUME TypeOK, Flow, NEW s \in Stream, reader[s] = "reading"
    PROVE  ReadSize(s) \in Nat \ {0}
  BY ChildAssumption DEF TypeOK, Flow, ReadSize

LEMMA InitIInv == Init => IInv
  <1> SUFFICES ASSUME Init PROVE IInv
      OBVIOUS
  <1> USE ChildAssumption DEF Init
  <1>1. TypeOK
    <2>1. alive \subseteq Process /\ holds \subseteq alive
        OBVIOUS
    <2>2. reader \in [Stream -> {"none", "reading", "eof", "limit", "failed"}]
        OBVIOUS
    <2>3. /\ written \in [Stream -> 0..MaxWrites]
          /\ drained \in [Stream -> 0..MaxWrites]
          /\ taken \in [Stream -> 0..MaxWrites]
          /\ faults \in 0..MaxFaults
        OBVIOUS
    <2>4. /\ runner \in Runners
          /\ reach \in {"group", "leader"}
          /\ timer \in {"off", "armed", "due", "set", "fired"}
          /\ refused \in BOOLEAN
        OBVIOUS
    <2> QED BY <2>1, <2>2, <2>3, <2>4 DEF TypeOK
  <1>2. Flow
      BY <1>1, Pieces DEF Flow
  <1>3. Complete
      BY DEF Complete
  <1>4. Stopped /\ Reaped /\ KilledAll /\ Marked
      BY DEF Stopped, Reaped, KilledAll, Marked
  <1> QED BY <1>1, <1>2, <1>3, <1>4 DEF IInv

\* What a kill does to the group: it shrinks, and whoever is killed is marked.
LEMMA KillFacts ==
    ASSUME TypeOK, NEW why \in {"deadline", "limit", "fault", "interrupt"}, Kill(why)
    PROVE  /\ alive' \subseteq alive
           /\ holds' \subseteq holds
           /\ holds' \subseteq alive'
           /\ code' \in {"none", "zero", "bad", "killed"}
           /\ killer' \in {killer, why}
           /\ Leader \notin alive => killer' = killer
           /\ refused' \in BOOLEAN
           /\ Leader \in alive' => refused'
           /\ refused => refused'
           /\ KilledAll /\ reach' = reach => KilledAll'
  BY DEF TypeOK, Kill, Killed, Refused, TooLate, Ended, group, KilledAll

LEMMA StepTypeOK == TypeOK /\ Flow /\ [Next]_vars => TypeOK'
  <1> SUFFICES ASSUME TypeOK, Flow, [Next]_vars PROVE TypeOK'
      OBVIOUS
  <1> USE ChildAssumption DEF TypeOK, streams
  <1>1. ASSUME NEW s \in Stream, Write(s) PROVE TypeOK'
      BY <1>1 DEF Write, group
  <1>2. ASSUME NEW s \in Stream, Drain(s) PROVE TypeOK'
      BY <1>2 DEF Drain, group
  <1>3. ASSUME NEW s \in Stream, ReadReturns(s) PROVE TypeOK'
      BY <1>3, KillFacts DEF ReadReturns, group
  <1>4. ASSUME NEW s \in Stream, ReadFails(s) PROVE TypeOK'
      BY <1>4, KillFacts DEF ReadFails, group
  <1>5. ASSUME NEW p \in Process, LetGo(p) \/ End(p) PROVE TypeOK'
      BY <1>5 DEF LetGo, End, Ended
  <1>6. CASE WaitReturns
      BY <1>6 DEF WaitReturns, group
  <1>7. CASE TimesOut
      BY <1>7 DEF TimesOut, group
  <1>8. CASE KillOnTimeout
      BY <1>8, KillFacts DEF KillOnTimeout, group
  <1>9. CASE Return
      BY <1>9 DEF Return, group
  <1>10. CASE Terminate
      BY <1>10 DEF Terminate, Ended
  <1>11. CASE TerminateRefused
      BY <1>11 DEF TerminateRefused, Ended
  <1>12. CASE KillAfterGrace \/ SignalRaises
    <2>1. CASE KillAfterGrace
      <3>1. PICK why \in {"deadline", "interrupt"} : Killed(why) \/ TooLate
          BY <2>1 DEF KillAfterGrace
      <3>2. Kill(why)
          BY <3>1 DEF Kill
      <3> QED BY <2>1, <3>2, KillFacts DEF KillAfterGrace
    <2>2. CASE SignalRaises
        BY <2>2 DEF SignalRaises, Refused
    <2> QED BY <1>12, <2>1, <2>2
  <1>13. CASE Watchdog
      BY <1>13, KillFacts DEF Watchdog, TimerDue, SetEvent, TimerKills, group
  <1>14. CASE Interrupt
      BY <1>14 DEF Interrupt, group
  <1>15. CASE UNCHANGED vars
      BY <1>15 DEF vars, group
  <1> QED BY <1>1, <1>2, <1>3, <1>4, <1>5, <1>6, <1>7, <1>8, <1>9, <1>10,
             <1>11, <1>12, <1>13, <1>14, <1>15 DEF Next, Call

LEMMA StepFlow == TypeOK /\ Flow /\ [Next]_vars => Flow'
  <1> SUFFICES ASSUME TypeOK, Flow, [Next]_vars PROVE Flow'
      OBVIOUS
  <1> USE ChildAssumption DEF TypeOK, Flow
  <1>0. Pipes' = Pipes
      BY DEF Next, Write, Drain, ReadReturns, ReadFails, End, Call, WaitReturns,
             TimesOut, KillOnTimeout, Return, Terminate, TerminateRefused,
             KillAfterGrace, SignalRaises, LetGo, Watchdog, TimerDue, SetEvent, TimerKills,
             Interrupt, vars, Pipes
  <1>1. ASSUME NEW s \in Stream, Write(s) PROVE Flow'
      BY <1>0, <1>1 DEF Write
  <1>2. ASSUME NEW s \in Stream, Drain(s) PROVE Flow'
      BY <1>0, <1>2 DEF Drain
  <1>3. ASSUME NEW s \in Stream, ReadReturns(s) PROVE Flow'
      BY <1>0, <1>3 DEF ReadReturns
  <1>4. ASSUME NEW s \in Stream, ReadFails(s) PROVE Flow'
      BY <1>0, <1>4 DEF ReadFails
  <1>5. CASE UNCHANGED streams
      BY <1>0, <1>5 DEF streams
  <1> QED BY <1>1, <1>2, <1>3, <1>4, <1>5 DEF Next, End, Call, WaitReturns,
             TimesOut, KillOnTimeout, Return, Terminate, TerminateRefused,
             KillAfterGrace, SignalRaises, LetGo, Watchdog, TimerDue, SetEvent, TimerKills,
             Interrupt, vars

\* The group only ever shrinks, and nobody takes up the pipes again.
LEMMA GroupShrinks ==
    ASSUME TypeOK, [Next]_vars
    PROVE  alive' \subseteq alive /\ holds' \subseteq holds
  <1> DEFINE Shrinks == alive' \subseteq alive /\ holds' \subseteq holds
  <1>1. ASSUME NEW why \in {"deadline", "limit", "fault", "interrupt"}, Kill(why)
        PROVE  Shrinks
      BY <1>1, KillFacts
  <1>2. ASSUME NEW s \in Stream, Write(s) \/ Drain(s) \/ ReadReturns(s) \/ ReadFails(s)
        PROVE  Shrinks
      BY <1>1, <1>2 DEF Write, Drain, ReadReturns, ReadFails, group
  <1>3. ASSUME NEW p \in Process, LetGo(p) \/ End(p) PROVE Shrinks
      BY <1>3 DEF LetGo, End, Ended
  <1>4. CASE WaitReturns \/ TimesOut \/ KillOnTimeout \/ Return
      BY <1>1, <1>4 DEF WaitReturns, TimesOut, KillOnTimeout, Return, group
  <1>5. CASE Terminate \/ TerminateRefused \/ KillAfterGrace \/ SignalRaises
      BY <1>5 DEF Terminate, TerminateRefused, KillAfterGrace, SignalRaises,
                  Killed, TooLate, Refused, Ended, group
  <1>6. CASE Watchdog \/ Interrupt \/ UNCHANGED vars
      BY <1>1, <1>6 DEF Watchdog, TimerDue, SetEvent, TimerKills, Interrupt, vars, group
  <1> QED BY <1>2, <1>3, <1>4, <1>5, <1>6 DEF Next, Call

LEMMA StepComplete == TypeOK /\ Flow /\ Complete /\ [Next]_vars => Complete'
  <1> SUFFICES ASSUME TypeOK, Flow, Complete, [Next]_vars,
                      NEW t \in Stream, reader'[t] = "eof"
               PROVE  holds' = {} /\ taken'[t] = written'[t]
      BY DEF Complete
  <1> USE DEF TypeOK, Complete
  <1>0. holds' \subseteq holds
      BY GroupShrinks
  <1>1. ASSUME NEW s \in Stream, Write(s)
        PROVE  holds' = {} /\ taken'[t] = written'[t]
      BY <1>0, <1>1 DEF Write, group
  <1>2. ASSUME NEW s \in Stream, Drain(s)
        PROVE  holds' = {} /\ taken'[t] = written'[t]
      BY <1>0, <1>2 DEF Drain
  <1>3. ASSUME NEW s \in Stream, ReadReturns(s)
        PROVE  holds' = {} /\ taken'[t] = written'[t]
    <2>1. reader[s] = "reading" /\ written' = written
        BY <1>3 DEF ReadReturns
    <2>2. CASE reader[t] = "eof"
        BY <1>0, <1>3, <2>1, <2>2 DEF ReadReturns
    <2>3. CASE reader[t] # "eof"
      <3>1. t = s /\ drained[s] = taken[s] /\ holds' = holds
          BY <1>3, <2>3 DEF ReadReturns, group
      <3>2. ReadSize(s) \in Nat \ {0}
          BY <2>1, ReadSizePositive
      <3>3. holds = {} /\ drained[s] = written[s]
          BY <1>3, <3>1, <3>2 DEF ReadReturns
      <3> QED BY <1>3, <2>1, <3>1, <3>3 DEF ReadReturns
    <2> QED BY <2>2, <2>3
  <1>4. ASSUME NEW s \in Stream, ReadFails(s)
        PROVE  holds' = {} /\ taken'[t] = written'[t]
      BY <1>0, <1>4 DEF ReadFails
  <1>5. CASE UNCHANGED streams
      BY <1>0, <1>5 DEF streams
  <1> QED BY <1>1, <1>2, <1>3, <1>4, <1>5 DEF Next, End, Call, WaitReturns,
             TimesOut, KillOnTimeout, Return, Terminate, TerminateRefused,
             KillAfterGrace, SignalRaises, LetGo, Watchdog, TimerDue, SetEvent, TimerKills,
             Interrupt, vars

LEMMA StepStopped == TypeOK /\ Stopped /\ [Next]_vars => Stopped'
  <1> SUFFICES ASSUME TypeOK, Stopped, [Next]_vars, runner' # "attention",
                      Leader \in alive', ~refused', NEW t \in Stream
               PROVE  reader'[t] \notin {"limit", "failed"}
      BY DEF Stopped
  <1> USE DEF TypeOK
  <1>1. ASSUME UNCHANGED <<runner, reader>>, alive' \subseteq alive, refused => refused'
        PROVE  reader'[t] \notin {"limit", "failed"}
      BY <1>1 DEF Stopped
  <1>2. ASSUME NEW s \in Stream, Write(s) \/ Drain(s)
        PROVE  reader'[t] \notin {"limit", "failed"}
      BY <1>1, <1>2 DEF Write, Drain, group
  <1>3. ASSUME NEW s \in Stream, ReadReturns(s)
        PROVE  reader'[t] \notin {"limit", "failed"}
    <2>1. CASE Kill("limit")
        BY <2>1, KillFacts
    <2>2. CASE UNCHANGED group /\ reader' \in {reader, [reader EXCEPT ![s] = "eof"]}
        BY <1>3, <2>2 DEF ReadReturns, group, Stopped
    <2> QED BY <1>3, <2>1, <2>2 DEF ReadReturns
  <1>4. ASSUME NEW s \in Stream, ReadFails(s)
        PROVE  reader'[t] \notin {"limit", "failed"}
      BY <1>4, KillFacts DEF ReadFails
  <1>5. ASSUME NEW p \in Process, LetGo(p) \/ End(p)
        PROVE  reader'[t] \notin {"limit", "failed"}
      BY <1>1, <1>5 DEF LetGo, End, Ended, streams
  <1>6. CASE WaitReturns \/ TimesOut \/ KillOnTimeout \/ Return
      BY <1>1, <1>6, KillFacts DEF WaitReturns, TimesOut, KillOnTimeout, Return, group, streams
  <1>7. CASE Terminate \/ TerminateRefused \/ KillAfterGrace \/ SignalRaises
      BY <1>1, <1>7 DEF Terminate, TerminateRefused, KillAfterGrace, SignalRaises,
                  Killed, TooLate, Refused, Ended, group, streams
  <1>8. CASE Watchdog \/ Interrupt \/ UNCHANGED vars
      BY <1>1, <1>8, KillFacts
         DEF Watchdog, TimerDue, SetEvent, TimerKills, Interrupt, vars, group, streams
  <1> QED BY <1>2, <1>3, <1>4, <1>5, <1>6, <1>7, <1>8 DEF Next, Call

LEMMA StepReaped == TypeOK /\ Flow /\ Reaped /\ Marked /\ [Next]_vars => Reaped'
  <1> SUFFICES ASSUME TypeOK, Flow, Reaped, Marked, [Next]_vars PROVE Reaped'
      OBVIOUS
  <1> USE ChildAssumption DEF TypeOK, Reaped, Drained, streams
  <1>0. alive' \subseteq alive
      BY GroupShrinks
  <1>1. ASSUME NEW s \in Stream, Write(s) \/ Drain(s) \/ ReadReturns(s) \/ ReadFails(s)
        PROVE  Reaped'
      BY <1>0, <1>1 DEF Write, Drain, ReadReturns, ReadFails
  <1>2. ASSUME NEW p \in Process, LetGo(p) \/ End(p) PROVE Reaped'
      BY <1>0, <1>2 DEF LetGo, End
  <1>3. CASE WaitReturns
    <2>1. runner = "command" => \A s \in Stream : reader[s] = "none"
        BY Pieces DEF Flow
    <2> QED BY <1>3, <2>1 DEF WaitReturns, group
  <1>4. CASE Return
      BY <1>4 DEF Return, group, Marked
  <1>5. CASE TimesOut \/ KillOnTimeout \/ Terminate \/ TerminateRefused
             \/ KillAfterGrace \/ SignalRaises
      BY <1>5 DEF TimesOut, KillOnTimeout, Terminate, TerminateRefused,
                  KillAfterGrace, SignalRaises
  <1>6. CASE Watchdog
      BY <1>0, <1>6 DEF Watchdog, TimerDue, SetEvent, TimerKills
  <1>7. CASE Interrupt
    <2>1. \/ runner = "attention" /\ cut' = "interrupt"
          \/ cut' = "abandon"
          \/ place' # "done"
        BY <1>7 DEF Interrupt
    <2>2. runner' = runner
        BY <1>7 DEF Interrupt
    <2> HIDE DEF Drained
    <2> QED BY <2>1, <2>2
  <1>8. CASE UNCHANGED vars
      BY <1>0, <1>8 DEF vars
  <1> QED BY <1>1, <1>2, <1>3, <1>4, <1>5, <1>6, <1>7, <1>8 DEF Next, Call

LEMMA StepKilledAll == TypeOK /\ KilledAll /\ [Next]_vars => KilledAll'
  <1> SUFFICES ASSUME TypeOK, KilledAll, [Next]_vars PROVE KilledAll'
      OBVIOUS
  <1>1. ASSUME NEW s \in Stream, Write(s) \/ Drain(s) \/ ReadReturns(s) \/ ReadFails(s)
        PROVE  KilledAll'
      BY <1>1, KillFacts DEF Write, Drain, ReadReturns, ReadFails, group, KilledAll
  <1>2. ASSUME NEW p \in Process, LetGo(p) \/ End(p) PROVE KilledAll'
      BY <1>2 DEF LetGo, End, Ended, KilledAll
  <1>3. CASE WaitReturns \/ TimesOut \/ KillOnTimeout \/ Return
      BY <1>3, KillFacts DEF WaitReturns, TimesOut, KillOnTimeout, Return, group, KilledAll
  <1>4. CASE Terminate \/ TerminateRefused \/ KillAfterGrace \/ SignalRaises
      BY <1>4 DEF Terminate, TerminateRefused, KillAfterGrace, SignalRaises,
                  Killed, TooLate, Refused, Ended, group, KilledAll, TypeOK
  <1>5. CASE Watchdog \/ Interrupt \/ UNCHANGED vars
      BY <1>5, KillFacts
         DEF Watchdog, TimerDue, SetEvent, TimerKills, Interrupt, vars, group, KilledAll
  <1> QED BY <1>1, <1>2, <1>3, <1>4, <1>5 DEF Next, Call

LEMMA StepMarked ==
    TypeOK /\ Flow /\ Reaped /\ Marked /\ [Next]_vars => Marked'
  <1> SUFFICES ASSUME TypeOK, Flow, Reaped, Marked, [Next]_vars PROVE Marked'
      OBVIOUS
  <1> USE DEF TypeOK, Marked
  <1>1. ASSUME NEW s \in Stream, Write(s) \/ Drain(s) PROVE Marked'
      BY <1>1 DEF Write, Drain, group
  <1>2. ASSUME NEW s \in Stream, ReadReturns(s) \/ ReadFails(s) PROVE Marked'
    <2>1. runner # "command"
        BY <1>2, Pieces DEF Flow, ReadReturns, ReadFails
    <2>2. killer' \in {killer, "limit", "fault"}
        BY <1>2, KillFacts DEF ReadReturns, ReadFails, group
    <2>3. UNCHANGED <<runner, place, cut, timer>> /\ place # "done"
        BY <1>2 DEF ReadReturns, ReadFails
    <2> QED BY <2>1, <2>2, <2>3
  <1>3. ASSUME NEW p \in Process, LetGo(p) \/ End(p) PROVE Marked'
      BY <1>3 DEF LetGo, End
  <1>4. CASE WaitReturns \/ TimesOut \/ Return
      BY <1>4 DEF WaitReturns, TimesOut, Return, group
  <1>5. CASE KillOnTimeout
      BY <1>5, KillFacts DEF KillOnTimeout
  <1>6. CASE Terminate \/ TerminateRefused \/ KillAfterGrace \/ SignalRaises
      BY <1>6 DEF Terminate, TerminateRefused, KillAfterGrace, SignalRaises,
                  Killed, TooLate, Refused, group
  <1>7. CASE Watchdog
      BY <1>7, KillFacts DEF Watchdog, TimerDue, SetEvent, TimerKills, Reaped, group
  <1>8. CASE Interrupt
    <2>1. UNCHANGED <<runner, timer, killer>> /\ cut' \in {"interrupt", "abandon"}
        BY <1>8 DEF Interrupt, group
    <2>2. place' = "term" => runner = "command" /\ place = "wait"
        BY <1>8 DEF Interrupt
    <2>3. place' \in {"term", "join", "done"}
        BY <1>8 DEF Interrupt
    <2> QED BY <2>1, <2>2, <2>3
  <1>9. CASE UNCHANGED vars
      BY <1>9 DEF vars, group
  <1> QED BY <1>1, <1>2, <1>3, <1>4, <1>5, <1>6, <1>7, <1>8, <1>9 DEF Next, Call

LEMMA InductiveInvariant == Spec => []IInv
  <1>1. IInv /\ [Next]_vars => IInv'
      BY StepTypeOK, StepFlow, StepComplete, StepStopped, StepReaped,
          StepKilledAll, StepMarked DEF IInv
  <1> QED BY InitIInv, <1>1, PTL DEF Spec

\* A call is at a place of its protocol and counts no more than was written.
THEOREM TypeCorrect == Spec => []TypeOK
  <1>1. IInv => TypeOK
      BY DEF IInv
  <1> QED BY <1>1, InductiveInvariant, PTL

\* Whatever the limit and the sizes of reads and pipes, a call that reports
\* success has returned all that was written: a loop that ends quietly has read
\* nothing where it asked for something, with no writer left.
THEOREM SuccessIsComplete == Spec => []CompleteOrTold
  <1>1. IInv => CompleteOrTold
    <2> SUFFICES ASSUME IInv, place = "done", Told = "ok", NEW s \in Pipes
                 PROVE  \/ taken[s] = written[s]
                        \/ runner # "docsync" /\ reader[s] = "failed"
        BY DEF CompleteOrTold
    <2>1. s \in Stream
        BY Pieces DEF IInv
    <2>2. cut \in {"no", "error"} /\ cut # "error" /\ reader[s] # "limit"
        BY <2>1 DEF Told, IInv, TypeOK
    <2>3. reader[s] \in {"eof", "failed"}
      <3>1. reader[s] # "reading"
          BY <2>1, <2>2 DEF IInv, Reaped, Drained
      <3>2. reader[s] # "none"
          BY <2>1 DEF IInv, Flow
      <3> QED BY <2>1, <2>2, <3>1, <3>2 DEF IInv, TypeOK
    <2>4. reader[s] = "failed" => runner # "docsync"
        BY <2>1, <2>2 DEF Told
    <2> QED BY <2>1, <2>3, <2>4 DEF IInv, Complete
  <1> QED BY <1>1, InductiveInvariant, PTL

\* Processes are left behind only in the cases that are named, however many
\* there are, whichever of them obey, are refused or give up the pipes, and
\* wherever the call is interrupted.
THEOREM NobodyIsLeft == Spec => []NothingLeft
  <1>1. IInv => NothingLeft
    <2> SUFFICES ASSUME IInv, place = "done" PROVE NothingLeft
        BY DEF NothingLeft
    <2>1. ASSUME Leader \in alive, cut # "abandon", runner \in {"mcp", "docsync"},
                 Leader \in holds, ~refused
          PROVE  FALSE
      <3>1. reader["out"] # "reading"
          BY <2>1 DEF IInv, Reaped, Drained, Stream
      <3>2. reader["out"] # "none"
          BY <2>1 DEF IInv, Flow, Pipes, Stream
      <3>3. reader["out"] # "eof"
          BY <2>1 DEF IInv, Complete, Stream
      <3>4. reader["out"] \notin {"limit", "failed"}
          BY <2>1 DEF IInv, Stopped, Stream
      <3> QED BY <3>1, <3>2, <3>3, <3>4 DEF IInv, TypeOK, Stream
    <2>2. Leader \in alive =>
            \/ cut = "abandon"
            \/ cut = "interrupt" /\ runner # "command"
        BY DEF IInv, Reaped
    <2>3. runner \in {"mcp", "docsync", "attention", "command"}
        BY ChildAssumption DEF IInv, TypeOK
    <2>4. alive # {} /\ code = "killed" => reach = "leader"
        BY DEF IInv, KilledAll
    <2>5. holds # {} => \A s \in Stream : reader[s] # "eof"
        BY DEF IInv, Complete
    <2> QED BY <2>1, <2>2, <2>3, <2>4, <2>5 DEF NothingLeft
  <1> QED BY <1>1, InductiveInvariant, PTL

\* A kill at the deadline is told, whichever thread made it and whenever the
\* caller reaps the child.
THEOREM DeadlinesAreTold == Spec => []DeadlineIsTold
  <1>1. IInv => DeadlineIsTold
    <2> SUFFICES ASSUME IInv, place = "done", killer = "deadline"
                 PROVE  Told \in {"timeout", "interrupt"}
        BY DEF DeadlineIsTold
    <2>1. cut \in {"timeout", "interrupt", "abandon"}
        BY DEF IInv, Marked, TypeOK
    <2> QED BY <2>1 DEF Told
  <1> QED BY <1>1, InductiveInvariant, PTL

=============================================================================
