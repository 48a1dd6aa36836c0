------------------------- MODULE WaitDelivery_proofs -------------------------
(***************************************************************************)
(* The registry and the processes around it, for any set of waits and of     *)
(* watchers and any timing constants.  The registry keeps its promise; the   *)
(* processes change records only by its transitions, so what is proved of    *)
(* it holds among them; the app server is called at most once for a wait;    *)
(* what a process read before it writes is still true; only deaths leave a   *)
(* claim without a notifier, and a daemon fails those before it retires.     *)
(***************************************************************************)
EXTENDS WaitDelivery, FiniteSetTheorems, TLAPS

-----------------------------------------------------------------------------
(* The registry alone: whatever order any number of clients run its          *)
(* transitions in, they implement WaitPromise, for every set of waits and    *)
(* every lease and time-to-live.                                            *)

\* Nothing is decided before a wait leaves "pending".
UndecidedBefore ==
    \A w \in Wait : status[w] \in {"absent", "pending"} => result[w] = NoResult

RegistryInv == TypeOK /\ UndecidedBefore /\ AnnouncedIsDecided

\* Typing is inductive by itself.
LEMMA RegistryTypeStep == TypeOK /\ [Next]_recordVars => TypeOK'
<1> USE RegistryAssumption
<1> SUFFICES ASSUME TypeOK, [Next]_recordVars PROVE TypeOK'
  OBVIOUS
<1> USE DEF TypeOK, Statuses, Touch, registerVars
<1>1. CASE Tick
  BY <1>1 DEF Tick
<1>2. ASSUME NEW w \in Wait, Transition(w) PROVE TypeOK'
  <2>1. CASE LookForRecord(w) \/ Register(w)
    BY <2>1 DEF LookForRecord, Register
  <2>2. CASE Observe(w) \/ UpdateMetadata(w)
    BY <2>2 DEF Observe, UpdateMetadata
  <2>3. ASSUME NEW r \in Result, Complete(w, r) PROVE TypeOK'
    BY <2>3 DEF Complete
  <2>4. CASE ClaimNotification(w)
    BY <2>4 DEF ClaimNotification
  <2>5. ASSUME NEW end \in {"resumed", "notify_failed"},
               FinishNotification(w, end)
        PROVE TypeOK'
    BY <2>5 DEF FinishNotification
  <2>6. CASE RepairNotification(w)
    BY <2>6 DEF RepairNotification
  <2>7. CASE ClaimHeartbeat(w)
    BY <2>7 DEF ClaimHeartbeat
  <2>8. ASSUME NEW e \in Event, ClaimObservation(w, e) PROVE TypeOK'
    BY <2>8 DEF ClaimObservation
  <2>9. CASE ExpireReady(w) \/ MarkResumed(w)
    BY <2>9 DEF ExpireReady, MarkResumed
  <2> QED BY <1>2, <2>1, <2>2, <2>3, <2>4, <2>5, <2>6, <2>7, <2>8, <2>9
          DEF Transition
<1>3. CASE UNCHANGED recordVars
  BY <1>3 DEF recordVars
<1> QED BY <1>1, <1>2, <1>3 DEF Next

\* Type correctness of the records.
THEOREM TypeCorrect == Spec => []TypeOK
<1>1. Init => TypeOK
  BY RegistryAssumption DEF Init, TypeOK, Statuses
<1> QED BY <1>1, RegistryTypeStep, PTL DEF Spec

\* Every transition keeps what is announced decided and what is pending
\* undecided.
LEMMA RegistryInductive == Spec => []RegistryInv
<1> USE RegistryAssumption
<1>1. Init => UndecidedBefore /\ AnnouncedIsDecided
  BY DEF Init, UndecidedBefore, AnnouncedIsDecided
<1>2. RegistryInv /\ TypeOK' /\ [Next]_recordVars
        => (UndecidedBefore /\ AnnouncedIsDecided)'
  <2> SUFFICES ASSUME TypeOK, TypeOK', UndecidedBefore, AnnouncedIsDecided,
                      [Next]_recordVars
               PROVE (UndecidedBefore /\ AnnouncedIsDecided)'
    BY DEF RegistryInv
  <2> USE DEF TypeOK, UndecidedBefore, AnnouncedIsDecided
  <2>1. CASE Tick
    BY <2>1 DEF Tick
  <2>2. ASSUME NEW w \in Wait, Transition(w)
        PROVE (UndecidedBefore /\ AnnouncedIsDecided)'
    <3>1. CASE \/ LookForRecord(w) \/ Register(w)
               \/ Observe(w) \/ UpdateMetadata(w)
      BY <3>1 DEF LookForRecord, Register, Observe, UpdateMetadata
    <3>2. ASSUME NEW r \in Result, Complete(w, r)
          PROVE (UndecidedBefore /\ AnnouncedIsDecided)'
      BY <3>2 DEF Complete
    <3>3. CASE ClaimNotification(w)
      BY <3>3 DEF ClaimNotification
    <3>4. ASSUME NEW end \in {"resumed", "notify_failed"},
                 FinishNotification(w, end)
          PROVE (UndecidedBefore /\ AnnouncedIsDecided)'
      BY <3>4 DEF FinishNotification
    <3>5. CASE RepairNotification(w)
      BY <3>5 DEF RepairNotification
    <3>6. CASE ClaimHeartbeat(w)
      BY <3>6 DEF ClaimHeartbeat, Ready
    <3>7. ASSUME NEW e \in Event, ClaimObservation(w, e)
          PROVE (UndecidedBefore /\ AnnouncedIsDecided)'
      BY <3>7 DEF ClaimObservation, Ready
    <3>8. CASE ExpireReady(w)
      BY <3>8 DEF ExpireReady, Ready
    <3>9. CASE MarkResumed(w)
      BY <3>9 DEF MarkResumed
    <3> QED BY <2>2, <3>1, <3>2, <3>3, <3>4, <3>5, <3>6, <3>7, <3>8, <3>9
            DEF Transition
  <2>3. CASE UNCHANGED recordVars
    BY <2>3 DEF recordVars
  <2> QED BY <2>1, <2>2, <2>3 DEF Next
<1> QED BY <1>1, <1>2, TypeCorrect, PTL DEF Spec, RegistryInv

\* What was announced was decided: a ready, claimed or expired record, a
\* heartbeat and a terminal event all have a result behind them.
THEOREM AnnouncementsDecided == Spec => []AnnouncedIsDecided
<1>1. RegistryInv => AnnouncedIsDecided
  BY DEF RegistryInv
<1> QED BY <1>1, RegistryInductive, PTL

\* One transition of a record is a step of the promise or leaves it alone.
LEMMA StepKeepsPromise ==
    RegistryInv /\ RegistryInv' /\ [Next]_recordVars
        => [Promise!Next]_(Promise!promiseVars)
<1> USE RegistryAssumption
<1> SUFFICES ASSUME RegistryInv, RegistryInv', [Next]_recordVars
             PROVE [Promise!Next]_(Promise!promiseVars)
  OBVIOUS
<1> DEFINE attempt == [w \in Wait |-> AttemptOf(status[w])]
<1> USE DEF RegistryInv, TypeOK, AttemptOf
<1>1. CASE Tick \/ UNCHANGED recordVars
  <2>1. UNCHANGED <<result, status>>
    BY <1>1 DEF Tick, recordVars
  <2> QED BY <2>1 DEF Promise!promiseVars
<1>2. ASSUME NEW w \in Wait, Transition(w)
      PROVE [Promise!Next]_(Promise!promiseVars)
  <2>1. CASE LookForRecord(w) \/ Register(w)
    <3>1. UNCHANGED result /\ attempt' = attempt
      BY <2>1 DEF LookForRecord, Register
    <3> QED BY <3>1 DEF Promise!promiseVars
  <2>2. CASE \/ Observe(w) \/ UpdateMetadata(w) \/ ClaimHeartbeat(w)
             \/ \E e \in Event : ClaimObservation(w, e)
    <3>1. UNCHANGED <<result, status>>
      BY <2>2 DEF Observe, UpdateMetadata, ClaimHeartbeat, ClaimObservation
    <3> QED BY <3>1 DEF Promise!promiseVars
  <2>3. ASSUME NEW r \in Result, Complete(w, r)
        PROVE Promise!Decide(w, r)
    <3>1. result[w] = NoResult /\ result' = [result EXCEPT ![w] = r]
      BY <2>3 DEF Complete, UndecidedBefore
    <3>2. attempt[w] = "none" /\ attempt' = attempt
      BY <2>3 DEF Complete
    <3> QED BY <3>1, <3>2 DEF Promise!Decide
  <2>4. ASSUME ClaimNotification(w) PROVE Promise!Begin(w)
    <3>1. result[w] # NoResult /\ result' = result
      BY <2>4 DEF ClaimNotification, AnnouncedIsDecided
    <3>2. /\ attempt[w] = "none"
          /\ attempt' = [attempt EXCEPT ![w] = "running"]
      BY <2>4 DEF ClaimNotification
    <3> QED BY <3>1, <3>2 DEF Promise!Begin
  <2>5. ASSUME \/ \E end \in {"resumed", "notify_failed"} :
                      FinishNotification(w, end)
               \/ RepairNotification(w) \/ ExpireReady(w) \/ MarkResumed(w)
        PROVE Promise!End(w) \/ UNCHANGED Promise!promiseVars
    <3>1. /\ result' = result
          /\ attempt' = [attempt EXCEPT ![w] = "over"]
      BY <2>5 DEF FinishNotification, RepairNotification, ExpireReady,
                  MarkResumed
    <3>2. attempt[w] \in {"none", "running", "over"}
      OBVIOUS
    <3>3. CASE attempt[w] = "over"
      <4>1. attempt' = attempt
        BY <3>1, <3>3
      <4> QED BY <3>1, <4>1 DEF Promise!promiseVars
    <3>4. CASE attempt[w] \in {"none", "running"}
      BY <3>1, <3>4 DEF Promise!End
    <3> QED BY <3>2, <3>3, <3>4
  <2> QED BY <1>2, <2>1, <2>2, <2>3, <2>4, <2>5 DEF Transition, Promise!Next
<1> QED BY <1>1, <1>2 DEF Next

\* Whatever its clients do, the registry implements its promise: a terminal
\* result is never replaced and a notification is never attempted twice.
THEOREM RegistryKeepsPromise == Spec => KeepsPromise
<1>1. Init => Promise!Init
  BY DEF Init, Promise!Init, AttemptOf
<1> QED BY <1>1, StepKeepsPromise, RegistryInductive, PTL
        DEF Spec, KeepsPromise, Promise!Spec

-----------------------------------------------------------------------------
\* A registration that has looked and not yet written is alone with its
\* identity, unless another one has crossed it.
LooksAlone ==
    \A w \in Wait : \A v \in Rivals(w) :
        w \in looked /\ (v \in looked \/ status[v] \in ActiveStatuses)
            => v \in crossed \/ w \in crossed

\* No transition but a registration's write makes a record active.
LEMMA ActiveByWrite ==
    ASSUME TypeOK, [Next]_recordVars, NEW v \in Wait,
           status'[v] \in ActiveStatuses
    PROVE  status[v] \in ActiveStatuses \/ Register(v)
<1> USE DEF TypeOK, ActiveStatuses
<1>1. CASE Tick \/ UNCHANGED recordVars
  BY <1>1 DEF Tick, recordVars
<1>2. ASSUME NEW w \in Wait, Transition(w)
      PROVE  status[v] \in ActiveStatuses \/ Register(v)
  <2>1. CASE LookForRecord(w) \/ Register(w)
    BY <2>1 DEF LookForRecord, Register
  <2>2. CASE Observe(w) \/ UpdateMetadata(w) \/ ClaimHeartbeat(w)
    BY <2>2 DEF Observe, UpdateMetadata, ClaimHeartbeat
  <2>3. ASSUME NEW r \in Result, Complete(w, r)
        PROVE  status[v] \in ActiveStatuses \/ Register(v)
    BY <2>3 DEF Complete
  <2>4. CASE ClaimNotification(w) \/ RepairNotification(w)
    BY <2>4 DEF ClaimNotification, RepairNotification
  <2>5. ASSUME NEW end \in {"resumed", "notify_failed"},
               FinishNotification(w, end)
        PROVE  status[v] \in ActiveStatuses \/ Register(v)
    BY <2>5 DEF FinishNotification
  <2>6. ASSUME NEW e \in Event, ClaimObservation(w, e)
        PROVE  status[v] \in ActiveStatuses \/ Register(v)
    BY <2>6 DEF ClaimObservation
  <2>7. CASE ExpireReady(w) \/ MarkResumed(w)
    BY <2>7 DEF ExpireReady, MarkResumed
  <2> QED BY <1>2, <2>1, <2>2, <2>3, <2>4, <2>5, <2>6, <2>7 DEF Transition
<1> QED BY <1>1, <1>2 DEF Next

\* Looks and crossings change in the two steps of a registration only.
LEMMA LooksByRegister ==
    ASSUME [Next]_recordVars
    PROVE  \/ UNCHANGED registerVars
           \/ \E w \in Wait : LookForRecord(w) \/ Register(w)
<1> USE DEF registerVars
<1>1. CASE Tick \/ UNCHANGED recordVars
  BY <1>1 DEF Tick, recordVars
<1>2. ASSUME NEW w \in Wait, Transition(w)
      PROVE  UNCHANGED registerVars \/ LookForRecord(w) \/ Register(w)
  BY <1>2 DEF Transition, Observe, UpdateMetadata, Complete, ClaimNotification,
              FinishNotification, RepairNotification, ClaimHeartbeat,
              ClaimObservation, ExpireReady, MarkResumed
<1> QED BY <1>1, <1>2 DEF Next

LEMMA StepKeepsOneRecord ==
    TypeOK /\ LooksAlone /\ OneRecordEach /\ [Next]_recordVars
        => (LooksAlone /\ OneRecordEach)'
<1> SUFFICES ASSUME TypeOK, LooksAlone, OneRecordEach, [Next]_recordVars
             PROVE  (LooksAlone /\ OneRecordEach)'
  OBVIOUS
<1> USE DEF LooksAlone, OneRecordEach, Rivals
<1>1. CASE UNCHANGED registerVars
  <2>1. \A v \in Wait : status'[v] \in ActiveStatuses
                          => status[v] \in ActiveStatuses
    BY <1>1, ActiveByWrite DEF Register, registerVars
  <2> QED BY <1>1, <2>1 DEF registerVars
<1>2. ASSUME NEW u \in Wait, LookForRecord(u)
      PROVE  (LooksAlone /\ OneRecordEach)'
  BY <1>2 DEF LookForRecord
<1>3. ASSUME NEW u \in Wait, Register(u)
      PROVE  (LooksAlone /\ OneRecordEach)'
  <2>1. \A v \in Wait : v # u => status'[v] = status[v]
    BY <1>3 DEF Register, TypeOK
  <2>2. u \in looked /\ looked' = looked \ {u} /\ crossed' = crossed
    BY <1>3 DEF Register
  <2> QED BY <2>1, <2>2
<1> QED BY <1>1, <1>2, <1>3, LooksByRegister

\* For any records and identities: two active records of one target mean that
\* one registration looked while the other had looked and not yet written.
THEOREM OneRecordPerTarget == Spec => []OneRecordEach
<1>1. Init => LooksAlone /\ OneRecordEach
  BY DEF Init, LooksAlone, OneRecordEach, Rivals, ActiveStatuses
<1>2. TypeOK /\ (LooksAlone /\ OneRecordEach) /\ [Next]_recordVars
        => (LooksAlone /\ OneRecordEach)'
  BY StepKeepsOneRecord
<1> QED BY <1>1, <1>2, TypeCorrect, PTL DEF Spec

-----------------------------------------------------------------------------
(* The processes.                                                          *)

Early == {"absent", "pending", "ready"}

Notifying(p) == at[p] \in {"claimed", "calling"}

\* Where the processes are, as far as the argument needs it.
Places ==
    /\ at \in [Actor -> Locations]
    /\ on \in [Actor -> Wait \union {NoWait}]
    /\ calls \in [Wait -> Nat]
    /\ todo \subseteq Wait
    /\ \A p \in Actor :
           at[p] \in {"watch", "query", "answer", "settle", "rewake",
                      "claimed", "calling"} => on[p] \in Wait

\* A wait that may still be claimed was never notified; one notifier at most
\* holds a claim, and only until its call is the claimed wait uncalled.
OneNotifier ==
    /\ \A p, q \in Actor : Notifying(p) /\ Notifying(q) /\ on[p] = on[q] => p = q
    /\ \A p \in Actor : Notifying(p) => status[on[p]] \notin Early
    /\ \A p \in Actor : at[p] = "claimed" => calls[on[p]] = 0
    /\ \A w \in Wait : calls[w] =< 1
    /\ \A w \in Wait : status[w] \in Early => calls[w] = 0

\* A step that starts no notification and makes no call.
Quiet ==
    /\ calls' = calls
    /\ \A p \in Actor :
           at'[p] \in {"claimed", "calling"} => at'[p] = at[p] /\ on'[p] = on[p]

-----------------------------------------------------------------------------
USE DEF outerVars, procVars, daemonVars, Move

ByRegistry == UNCHANGED recordVars \/ \E w \in Wait : Transition(w)

LEMMA MaintainIsTransition ==
    ASSUME NEW w \in Wait, Maintain(w)
    PROVE  ByRegistry
  BY DEF Maintain, ByRegistry, Transition

\* Every process changes the records by one transition of the registry or
\* leaves them alone; only time does more.
LEMMA StepIsTransition == Places /\ [DeliveryNext]_vars => ByRegistry \/ TimePasses
  <1> SUFFICES ASSUME Places, [DeliveryNext]_vars PROVE ByRegistry \/ TimePasses
      OBVIOUS
  <1> USE RegistryAssumption, DeliveryAssumption
  <1>1. ASSUME NEW w \in Wait, CommandStep(w) PROVE ByRegistry
    <2>1. CASE RegisterWait(w)
        BY <2>1 DEF RegisterWait, ByRegistry, Transition
    <2>2. CASE LaunchDaemon(w)
        BY <2>2 DEF LaunchDaemon, ByRegistry
    <2>3. CASE Maintain(w)
        BY <2>3, MaintainIsTransition
    <2>4. ASSUME NEW p \in Watcher, LaunchWatcher(p, w) PROVE ByRegistry
        BY <2>4 DEF LaunchWatcher, ByRegistry
    <2> QED BY <1>1, <2>1, <2>2, <2>3, <2>4 DEF CommandStep
  <1>2. ASSUME NEW w \in Wait, NEW o \in Outcome, TargetEnds(w, o)
        PROVE  ByRegistry
      BY <1>2 DEF TargetEnds, ByRegistry
  <1>3. ASSUME NEW p \in Actor, Work(p) PROVE ByRegistry
    <2>1. CASE Query(p) \/ SkipClaim(p) \/ CallServer(p)
        BY <2>1 DEF Query, SkipClaim, CallServer, ByRegistry
    <2>2. CASE ApplyVerdict(p)
      <3>1. on[p] \in Wait
          BY <2>2 DEF ApplyVerdict, Places
      <3> QED BY <2>2, <3>1 DEF ApplyVerdict, ByRegistry, Transition
    <2>3. CASE ApplyRunning(p)
      <3>1. on[p] \in Wait
          BY <2>3 DEF ApplyRunning, Places
      <3> QED BY <2>3, <3>1 DEF ApplyRunning, ByRegistry, Transition
    <2>4. CASE Settle(p)
      <3>1. on[p] \in Wait
          BY <2>4 DEF Settle, Places
      <3> QED BY <2>4, <3>1 DEF Settle, ByRegistry, Transition
    <2>5. CASE Claim(p)
      <3>1. on[p] \in Wait
          BY <2>5 DEF Claim, Places
      <3> QED BY <2>5, <3>1 DEF Claim, ByRegistry, Transition
    <2>6. CASE FinishCall(p)
      <3>1. on[p] \in Wait
          BY <2>6 DEF FinishCall, Places
      <3> QED BY <2>6, <3>1 DEF FinishCall, ByRegistry, Transition
    <2> QED BY <1>3, <2>1, <2>2, <2>3, <2>4, <2>5, <2>6 DEF Work
  <1>4. ASSUME DaemonStep PROVE ByRegistry
    <2>1. CASE BeginPass \/ NextPhase \/ EndPass \/ IdleExit
        BY <2>1 DEF BeginPass, NextPhase, EndPass, IdleExit, ByRegistry
    <2>2. CASE Work(Daemon)
        BY <2>2, <1>3 DEF Actor
    <2>3. ASSUME NEW w \in Wait, SweepNext(w) \/ ResumeNext(w)
          PROVE  ByRegistry
        BY <2>3 DEF SweepNext, ResumeNext, ByRegistry
    <2>4. ASSUME NEW w \in Wait, RepairNext(w) \/ MarkNext(w)
          PROVE  ByRegistry
        BY <2>4 DEF RepairNext, MarkNext, ByRegistry, Transition
    <2> QED BY <1>4, <2>1, <2>2, <2>3, <2>4 DEF DaemonStep
  <1>5. ASSUME NEW p \in Watcher, WatcherStep(p) PROVE ByRegistry
    <2>1. CASE WatchRound(p)
      <3>1. p \in Actor /\ at[p] = "watch"
          BY <2>1 DEF WatchRound, Actor
      <3>2. on[p] \in Wait
          BY <3>1 DEF Places
      <3> QED BY <2>1, <3>2 DEF WatchRound, ByRegistry, Transition
    <2>2. CASE Work(p)
        BY <2>2, <1>3 DEF Actor
    <2> QED BY <1>5, <2>1, <2>2 DEF WatcherStep
  <1>6. ASSUME NEW p \in Actor, Crash(p) PROVE ByRegistry
      BY <1>6 DEF Crash, ByRegistry
  <1>7. CASE UNCHANGED vars
      BY <1>7 DEF vars, ByRegistry
  <1> QED BY <1>1, <1>2, <1>4, <1>5, <1>6, <1>7 DEF DeliveryNext

LEMMA StepIsRegistryStep == Places /\ [DeliveryNext]_vars => [Next]_recordVars
  BY StepIsTransition DEF ByRegistry, TimePasses, Next

-----------------------------------------------------------------------------
\* The transitions never lead from a wait that was claimed or closed back to
\* one that may be claimed.
LEMMA NoWayBack ==
    ASSUME TypeOK, [Next]_recordVars, NEW w \in Wait, status[w] \notin Early
    PROVE  status'[w] \notin Early
  <1> USE DEF TypeOK, Early
  <1>1. CASE Tick \/ UNCHANGED recordVars
      BY <1>1 DEF Tick, recordVars
  <1>2. ASSUME NEW v \in Wait, Transition(v) PROVE status'[w] \notin Early
    <2>1. CASE \/ LookForRecord(v) \/ Register(v)
               \/ Observe(v) \/ UpdateMetadata(v)
        BY <2>1 DEF LookForRecord, Register, Observe, UpdateMetadata
    <2>2. ASSUME NEW r \in Result, Complete(v, r) PROVE status'[w] \notin Early
        BY <2>2 DEF Complete
    <2>3. CASE ClaimNotification(v) \/ RepairNotification(v)
        BY <2>3 DEF ClaimNotification, RepairNotification
    <2>4. ASSUME NEW end \in {"resumed", "notify_failed"},
                 FinishNotification(v, end)
          PROVE  status'[w] \notin Early
        BY <2>4 DEF FinishNotification
    <2>5. ASSUME NEW e \in Event, ClaimObservation(v, e)
          PROVE  status'[w] \notin Early
        BY <2>5 DEF ClaimObservation
    <2>6. CASE ClaimHeartbeat(v) \/ ExpireReady(v) \/ MarkResumed(v)
        BY <2>6 DEF ClaimHeartbeat, ExpireReady, MarkResumed
    <2> QED BY <1>2, <2>1, <2>2, <2>3, <2>4, <2>5, <2>6 DEF Transition
  <1> QED BY <1>1, <1>2 DEF Next

\* A quiet step keeps what is said of notifiers.
LEMMA QuietKeeps ==
    ASSUME TypeOK, Places, OneNotifier, [Next]_recordVars, Quiet
    PROVE  OneNotifier'
  <1> USE DEF Quiet, Notifying
  <1>1. (\A p, q \in Actor : Notifying(p) /\ Notifying(q) /\ on[p] = on[q] => p = q)'
      BY DEF OneNotifier
  <1>2. (\A p \in Actor : Notifying(p) => status[on[p]] \notin Early)'
    <2> SUFFICES ASSUME NEW p \in Actor, Notifying(p)'
                 PROVE  status'[on'[p]] \notin Early
        OBVIOUS
    <2>1. Notifying(p) /\ on'[p] = on[p]
        OBVIOUS
    <2>2. on[p] \in Wait /\ status[on[p]] \notin Early
        BY <2>1 DEF OneNotifier, Places
    <2> QED BY <2>1, <2>2, NoWayBack
  <1>3. (\A p \in Actor : at[p] = "claimed" => calls[on[p]] = 0)'
      BY DEF OneNotifier
  <1>4. (\A w \in Wait : calls[w] =< 1)'
      BY DEF OneNotifier
  <1>5. (\A w \in Wait : status[w] \in Early => calls[w] = 0)'
      BY NoWayBack DEF OneNotifier
  <1> QED BY <1>1, <1>2, <1>3, <1>4, <1>5 DEF OneNotifier

\* A claim is taken by one process, on a wait nobody was told of.
LEMMA ClaimKeeps ==
    ASSUME TypeOK, Places, OneNotifier, NEW p \in Actor, Claim(p)
    PROVE  Places' /\ OneNotifier'
  <1>1. on[p] \in Wait /\ status[on[p]] = "ready" /\ at \in [Actor -> Locations]
      BY DEF Claim, ClaimNotification, Places
  <1>2. at' = [at EXCEPT ![p] = "claimed"] /\ on' = on /\ calls' = calls /\ todo' = todo
      BY DEF Claim
  <1>3. status' = [status EXCEPT ![on[p]] = "notifying"]
      BY DEF Claim, ClaimNotification
  <1>4. \A q \in Actor : q # p /\ Notifying(q) => on[q] # on[p]
      BY <1>1 DEF OneNotifier, Early
  <1>5. Places'
      BY <1>1, <1>2 DEF Places, Locations
  <1>6. OneNotifier'
      BY <1>1, <1>2, <1>3, <1>4 DEF OneNotifier, Notifying, Early, TypeOK, Places
  <1> QED BY <1>5, <1>6

\* The one call of a claim is made by the process that holds it.
LEMMA CallKeeps ==
    ASSUME TypeOK, Places, OneNotifier, NEW p \in Actor, CallServer(p)
    PROVE  Places' /\ OneNotifier'
  <1>1. at[p] = "claimed" /\ on[p] \in Wait
      BY DEF CallServer, Places
  <1>2. /\ at' = [at EXCEPT ![p] = "calling"] /\ on' = on /\ status' = status
        /\ calls' = [calls EXCEPT ![on[p]] = @ + 1] /\ todo' = todo
      BY DEF CallServer, recordVars
  <1>3. calls[on[p]] = 0 /\ status[on[p]] \notin Early
      BY <1>1 DEF OneNotifier, Notifying
  <1>4. \A q \in Actor : q # p /\ Notifying(q) => on[q] # on[p]
      BY <1>1 DEF OneNotifier, Notifying
  <1>5. Places'
      BY <1>1, <1>2 DEF Places, Locations
  <1>6. OneNotifier'
    <2>1. \A q \in Actor : Notifying(q)' => Notifying(q)
        BY <1>1, <1>2 DEF Places, Notifying
    <2>2. \A q \in Actor : at'[q] = "claimed" => q # p /\ at[q] = "claimed"
        BY <1>1, <1>2 DEF Places
    <2>3. \A w \in Wait : calls'[w] = IF w = on[p] THEN 1 ELSE calls[w]
        BY <1>1, <1>2, <1>3 DEF Places
    <2>4. (\A q \in Actor : at[q] = "claimed" => calls[on[q]] = 0)'
      <3> SUFFICES ASSUME NEW q \in Actor, at'[q] = "claimed"
                   PROVE  calls'[on[q]] = 0
          BY <1>2
      <3>1. on[q] # on[p] /\ on[q] \in Wait /\ calls[on[q]] = 0
          BY <1>4, <2>2 DEF Places, OneNotifier, Notifying
      <3> QED BY <2>3, <3>1
    <2> QED BY <1>2, <1>3, <2>1, <2>3, <2>4 DEF OneNotifier
  <1> QED BY <1>5, <1>6

\* Every other step of a process at work is quiet.
LEMMA WorkIsQuiet ==
    ASSUME Places, NEW p \in Actor, Work(p), ~Claim(p), ~CallServer(p)
    PROVE  Places' /\ Quiet
  <1> USE DeliveryAssumption DEF Places, Quiet, Locations, Actor
  <1>1. CASE Query(p)
      BY <1>1 DEF Query
  <1>2. CASE ApplyVerdict(p)
      BY <1>2 DEF ApplyVerdict, Returned, Home
  <1>3. CASE ApplyRunning(p)
      BY <1>3 DEF ApplyRunning, Returned, Home
  <1>4. CASE Settle(p)
      BY <1>4 DEF Settle, Home
  <1>5. CASE SkipClaim(p)
      BY <1>5 DEF SkipClaim, Return
  <1>6. CASE FinishCall(p)
      BY <1>6 DEF FinishCall, Return
  <1> QED BY <1>1, <1>2, <1>3, <1>4, <1>5, <1>6 DEF Work

LEMMA DaemonIsQuiet ==
    ASSUME Places, DaemonStep, ~Work(Daemon)
    PROVE  Places' /\ Quiet
  <1> USE DeliveryAssumption DEF Places, Quiet, Locations, Actor
  <1>1. CASE BeginPass
      BY <1>1 DEF BeginPass, DaemonGoes, PendingWaits, WaitsIn
  <1>2. CASE NextPhase
      BY <1>2 DEF NextPhase, DaemonGoes, PendingWaits, WaitsIn
  <1>3. CASE EndPass
      BY <1>3 DEF EndPass, DaemonGoes
  <1>4. CASE IdleExit
      BY <1>4 DEF IdleExit, DaemonGoes
  <1>5. ASSUME NEW w \in Wait, SweepNext(w) PROVE Places' /\ Quiet
      BY <1>5 DEF SweepNext, BeginPoll
  <1>6. ASSUME NEW w \in Wait, RepairNext(w) \/ MarkNext(w)
        PROVE  Places' /\ Quiet
      BY <1>6 DEF RepairNext, MarkNext
  <1>7. ASSUME NEW w \in Wait, ResumeNext(w) PROVE Places' /\ Quiet
      BY <1>7 DEF ResumeNext
  <1> QED BY <1>1, <1>2, <1>3, <1>4, <1>5, <1>6, <1>7 DEF DaemonStep

LEMMA OthersAreQuiet ==
    ASSUME Places,
           \/ \E w \in Wait : CommandStep(w) \/ \E o \in Outcome : TargetEnds(w, o)
           \/ \E p \in Watcher : WatchRound(p)
           \/ \E p \in Actor : Crash(p)
           \/ TimePasses
           \/ UNCHANGED vars
    PROVE  Places' /\ Quiet
  <1> USE DeliveryAssumption DEF Places, Quiet, Locations, Actor
  <1>1. ASSUME NEW w \in Wait, CommandStep(w) PROVE Places' /\ Quiet
    <2>1. CASE RegisterWait(w) \/ Maintain(w)
        BY <2>1 DEF RegisterWait, Maintain
    <2>2. CASE LaunchDaemon(w)
        BY <2>2 DEF LaunchDaemon
    <2>3. ASSUME NEW p \in Watcher, LaunchWatcher(p, w) PROVE Places' /\ Quiet
        BY <2>3 DEF LaunchWatcher
    <2> QED BY <1>1, <2>1, <2>2, <2>3 DEF CommandStep
  <1>2. ASSUME NEW w \in Wait, NEW o \in Outcome, TargetEnds(w, o)
        PROVE  Places' /\ Quiet
      BY <1>2 DEF TargetEnds
  <1>3. ASSUME NEW p \in Watcher, WatchRound(p) PROVE Places' /\ Quiet
      BY <1>3 DEF WatchRound, BeginPoll
  <1>4. ASSUME NEW p \in Actor, Crash(p) PROVE Places' /\ Quiet
      BY <1>4 DEF Crash
  <1>5. CASE TimePasses
      BY <1>5 DEF TimePasses
  <1>6. CASE UNCHANGED vars
      BY <1>6 DEF vars
  <1> QED BY <1>1, <1>2, <1>3, <1>4, <1>5, <1>6

-----------------------------------------------------------------------------
\* The state of the argument: the records are well typed, processes at work
\* are at work on some wait, and each wait has one notifier at most.
IInv == TypeOK /\ Places /\ OneNotifier

LEMMA InitIInv == DeliveryInit => IInv
  <1> SUFFICES ASSUME DeliveryInit PROVE IInv
      OBVIOUS
  <1> USE RegistryAssumption, DeliveryAssumption DEF DeliveryInit, Init
  <1>1. TypeOK
      BY DEF TypeOK, Statuses
  <1>2. Places
      BY DEF Places, Locations
  <1>3. OneNotifier
      BY DEF OneNotifier, Notifying
  <1> QED BY <1>1, <1>2, <1>3 DEF IInv

LEMMA StepIInv == IInv /\ [DeliveryNext]_vars => IInv'
  <1> SUFFICES ASSUME IInv, [DeliveryNext]_vars PROVE IInv'
      OBVIOUS
  <1> USE DEF IInv
  <1>1. [Next]_recordVars
      BY StepIsRegistryStep
  <1>2. TypeOK'
      BY <1>1, RegistryTypeStep
  <1>3. ASSUME Places' /\ Quiet PROVE IInv'
      BY <1>1, <1>2, <1>3, QuietKeeps
  <1>4. ASSUME NEW p \in Actor, Work(p) PROVE IInv'
    <2>1. CASE Claim(p)
        BY <1>2, <2>1, ClaimKeeps
    <2>2. CASE CallServer(p)
        BY <1>2, <2>2, CallKeeps
    <2>3. CASE ~Claim(p) /\ ~CallServer(p)
        BY <1>3, <1>4, <2>3, WorkIsQuiet
    <2> QED BY <2>1, <2>2, <2>3
  <1>5. CASE DaemonStep
    <2>1. CASE Work(Daemon)
        BY <1>4, <2>1 DEF Actor
    <2>2. CASE ~Work(Daemon)
      <3>1. Places' /\ Quiet
          BY <1>5, <2>2, DaemonIsQuiet
      <3> QED BY <1>3, <3>1
    <2> QED BY <2>1, <2>2
  <1>6. ASSUME NEW p \in Watcher, WatcherStep(p) PROVE IInv'
    <2>1. CASE Work(p)
        BY <1>4, <2>1 DEF Actor
    <2>2. CASE WatchRound(p)
        BY <1>3, <2>2, OthersAreQuiet
    <2> QED BY <1>6, <2>1, <2>2 DEF WatcherStep
  <1>7. CASE \/ \E w \in Wait : CommandStep(w) \/ \E o \in Outcome : TargetEnds(w, o)
             \/ \E p \in Actor : Crash(p)
             \/ TimePasses
             \/ UNCHANGED vars
      BY <1>3, <1>7, OthersAreQuiet
  <1> QED BY <1>5, <1>6, <1>7 DEF DeliveryNext

LEMMA InductiveInvariant == DeliverySpec => []IInv
  BY InitIInv, StepIInv, PTL DEF DeliverySpec

\* Composition: among the processes the records change only by the registry's
\* own transitions, so every theorem about Spec is one about DeliverySpec.
THEOREM DeliveryUsesRegistry == DeliverySpec => Spec
  <1>1. DeliveryInit => Init
      BY DEF DeliveryInit
  <1>2. IInv /\ [DeliveryNext]_vars => [Next]_recordVars
      BY StepIsRegistryStep DEF IInv
  <1> QED BY <1>1, <1>2, InductiveInvariant, PTL DEF DeliverySpec, Spec

\* What is announced is decided also among the processes, whoever dies.
COROLLARY AnnouncementsDecidedAmongProcesses == DeliverySpec => []AnnouncedIsDecided
  BY DeliveryUsesRegistry, AnnouncementsDecided, PTL

\* However many watchers there are, whoever dies and whatever is repaired, the
\* app server is called at most once for a wait and by one process at a time.
THEOREM CalledAtMostOnce == DeliverySpec => []AtMostOneCall
  <1>1. IInv => AtMostOneCall
    <2> SUFFICES ASSUME IInv, NEW w \in Wait
                 PROVE  calls[w] =< 1 /\ Cardinality(Notifiers(w)) =< 1
        BY DEF AtMostOneCall
    <2>1. calls[w] =< 1
        BY DEF IInv, OneNotifier
    <2>2. \A p, q \in Notifiers(w) : p = q
        BY DEF IInv, OneNotifier, Notifiers, Notifying
    <2>3. CASE Notifiers(w) = {}
      <3>1. Cardinality(Notifiers(w)) = 0
          BY <2>3, FS_EmptySet
      <3> QED BY <2>1, <3>1
    <2>4. ASSUME NEW p \in Notifiers(w)
          PROVE  calls[w] =< 1 /\ Cardinality(Notifiers(w)) =< 1
      <3>1. Notifiers(w) = {p}
          BY <2>2, <2>4
      <3>2. Cardinality({p}) = 1
          BY FS_Singleton
      <3>3. Cardinality(Notifiers(w)) = 1
          BY <3>1, <3>2
      <3> QED BY <2>1, <3>3
    <2> QED BY <2>3, <2>4
  <1> QED BY <1>1, InductiveInvariant, PTL

-----------------------------------------------------------------------------
(* Types of the processes' own state.                                      *)

LEMMA WorkKeepsTypes ==
    ASSUME IInv, DeliveryTypeOK, Places', NEW p \in Actor, Work(p)
    PROVE  DeliveryTypeOK'
  <1> USE RegistryAssumption, DeliveryAssumption DEF DeliveryTypeOK, Places
  <1>1. CASE Query(p)
    <2>1. on[p] \in Wait
        BY <1>1 DEF Query, IInv
    <2>2. PICK a \in {target[on[p]], "error"} : got' = [got EXCEPT ![p] = a]
        BY <1>1 DEF Query
    <2>3. a \in Result \union {"running", "none"}
        BY <2>1
    <2> QED BY <1>1, <2>2, <2>3 DEF Query
  <1>2. CASE ApplyVerdict(p) \/ Claim(p) \/ SkipClaim(p) \/ FinishCall(p)
      BY <1>2 DEF ApplyVerdict, Claim, SkipClaim, FinishCall
  <1>3. CASE ApplyRunning(p)
      BY <1>3 DEF ApplyRunning
  <1>4. CASE Settle(p)
      BY <1>4 DEF Settle
  <1>5. CASE CallServer(p)
      BY <1>5 DEF CallServer
  <1> QED BY <1>1, <1>2, <1>3, <1>4, <1>5 DEF Work

LEMMA LoopKeepsTypes ==
    ASSUME IInv, DeliveryTypeOK, Places',
           (DaemonStep /\ ~Work(Daemon)) \/ \E p \in Watcher : WatchRound(p)
    PROVE  DeliveryTypeOK'
  <1> USE RegistryAssumption, DeliveryAssumption
      DEF DeliveryTypeOK, Places, DaemonGoes, Actor
  <1>1. CASE BeginPass \/ NextPhase \/ IdleExit
      BY <1>1 DEF BeginPass, NextPhase, IdleExit
  <1>2. CASE EndPass
      BY <1>2 DEF EndPass
  <1>3. ASSUME NEW w \in Wait, SweepNext(w) PROVE DeliveryTypeOK'
      BY <1>3 DEF SweepNext, BeginPoll
  <1>4. ASSUME NEW w \in Wait, RepairNext(w) \/ MarkNext(w) PROVE DeliveryTypeOK'
      BY <1>4 DEF RepairNext, MarkNext
  <1>5. ASSUME NEW w \in Wait, ResumeNext(w) PROVE DeliveryTypeOK'
      BY <1>5 DEF ResumeNext
  <1>6. ASSUME NEW p \in Watcher, WatchRound(p) PROVE DeliveryTypeOK'
      BY <1>6 DEF WatchRound, BeginPoll
  <1> QED BY <1>1, <1>2, <1>3, <1>4, <1>5, <1>6 DEF DaemonStep

LEMMA WorldKeepsTypes ==
    ASSUME IInv, DeliveryTypeOK, Places',
           \/ \E w \in Wait : CommandStep(w) \/ \E o \in Outcome : TargetEnds(w, o)
           \/ \E p \in Actor : Crash(p)
           \/ TimePasses
           \/ UNCHANGED vars
    PROVE  DeliveryTypeOK'
  <1> USE RegistryAssumption, DeliveryAssumption DEF DeliveryTypeOK, Places, Actor
  <1>1. ASSUME NEW w \in Wait, CommandStep(w) PROVE DeliveryTypeOK'
    <2>1. CASE RegisterWait(w) \/ Maintain(w)
        BY <2>1 DEF RegisterWait, Maintain
    <2>2. CASE LaunchDaemon(w)
      <3>1. /\ envelope' \in [Wait -> 0..EnvelopeTTL]
            /\ got' \in [Actor -> Result \union {"running", "none"}]
          BY <2>2 DEF LaunchDaemon, FreshEnvelope
      <3>2. /\ quiet' \in 0..IdleTimeout /\ passing' \in 0..PassTime
            /\ launches' \in 0..MaxLaunches /\ crashes' = crashes
            /\ target' = target /\ calls' = calls
          BY <2>2 DEF LaunchDaemon
      <3>3. busy' = FALSE /\ rested' = FALSE
          BY <2>2 DEF LaunchDaemon
      <3> QED BY <3>1, <3>2, <3>3
    <2>3. ASSUME NEW p \in Watcher, LaunchWatcher(p, w) PROVE DeliveryTypeOK'
        BY <2>3 DEF LaunchWatcher
    <2> QED BY <1>1, <2>1, <2>2, <2>3 DEF CommandStep
  <1>2. ASSUME NEW w \in Wait, NEW o \in Outcome, TargetEnds(w, o)
        PROVE  DeliveryTypeOK'
      BY <1>2 DEF TargetEnds
  <1>3. ASSUME NEW p \in Actor, Crash(p) PROVE DeliveryTypeOK'
      BY <1>3 DEF Crash
  <1>4. CASE TimePasses
    <2>1. passing' \in 0..PassTime
        BY <1>4 DEF TimePasses, DaemonPrompt, InCall
    <2>2. envelope' \in [Wait -> 0..EnvelopeTTL]
        BY <1>4 DEF TimePasses
    <2>3. quiet' \in 0..IdleTimeout
        BY <1>4 DEF TimePasses
    <2>4. rested' = FALSE /\ UNCHANGED <<target, got, busy, calls, launches, crashes>>
        BY <1>4 DEF TimePasses
    <2> QED BY <2>1, <2>2, <2>3, <2>4
  <1>5. CASE UNCHANGED vars
      BY <1>5 DEF vars
  <1> QED BY <1>1, <1>2, <1>3, <1>4, <1>5

LEMMA StepKeepsTypes == IInv /\ IInv' /\ DeliveryTypeOK /\ [DeliveryNext]_vars => DeliveryTypeOK'
  <1> SUFFICES ASSUME IInv, Places', DeliveryTypeOK, [DeliveryNext]_vars
               PROVE  DeliveryTypeOK'
      BY DEF IInv
  <1>1. CASE DaemonStep
      BY <1>1, WorkKeepsTypes, LoopKeepsTypes DEF Actor
  <1>2. ASSUME NEW p \in Watcher, WatcherStep(p) PROVE DeliveryTypeOK'
      BY <1>2, WorkKeepsTypes, LoopKeepsTypes DEF WatcherStep, Actor
  <1> QED BY <1>1, <1>2, WorldKeepsTypes DEF DeliveryNext

LEMMA DeliveryTyped == DeliverySpec => []DeliveryTypeOK
  <1>1. DeliveryInit => DeliveryTypeOK
    <2> SUFFICES ASSUME DeliveryInit PROVE DeliveryTypeOK
        OBVIOUS
    <2> USE DeliveryAssumption DEF DeliveryInit
    <2>1. at \in [Actor -> Locations] /\ on \in [Actor -> Wait \union {NoWait}]
        BY DEF Locations
    <2>2. /\ target \in [Wait -> Outcome \union {"running"}]
          /\ got \in [Actor -> Result \union {"running", "none"}]
          /\ envelope \in [Wait -> 0..EnvelopeTTL] /\ calls \in [Wait -> Nat]
        OBVIOUS
    <2>3. /\ quiet \in 0..IdleTimeout /\ passing \in 0..PassTime
          /\ launches \in 0..MaxLaunches /\ crashes \in 0..MaxCrashes
        OBVIOUS
    <2> QED BY <2>1, <2>2, <2>3 DEF DeliveryTypeOK
  <1> QED BY <1>1, StepKeepsTypes, InductiveInvariant, PTL DEF DeliverySpec

\* Every process is at a line of its loop, on a wait or on none, and the clocks
\* and counters of the daemon stay within their limits.
THEOREM DeliveryTypeCorrect == DeliverySpec => []DeliveryTypeOK
  BY DeliveryTyped

-----------------------------------------------------------------------------
(* A claim without a notifier.                                             *)

\* Before the first launch there is no daemon that a launch could kill.
Lives ==
    /\ launches = 0 => at[Daemon] = "none"
    /\ OrphanedByDeath

\* A step that takes no claim and takes no notifier away.
Steady ==
    /\ \A w \in Wait : status'[w] = "notifying" => status[w] = "notifying"
    /\ \A p \in Actor : Notifying(p) => Notifying(p)' /\ on'[p] = on[p]
    /\ launches' = launches /\ crashes' = crashes
    /\ at[Daemon] = "none" => at'[Daemon] = "none"

LEMMA SteadyKeeps == ASSUME Lives, Steady PROVE Lives'
  <1>1. \A w \in Wait : Notifiers(w) \subseteq Notifiers(w)'
      BY DEF Steady, Notifiers, Notifying
  <1> QED BY <1>1 DEF Lives, Steady, OrphanedByDeath

LEMMA WorkKeepsLives ==
    ASSUME IInv, Places', DeliveryTypeOK, Lives, NEW p \in Actor, Work(p)
    PROVE  Lives'
  <1> USE DEF Places, DeliveryTypeOK
  <1>1. CASE Claim(p)
    <2>1. /\ on[p] \in Wait /\ at' = [at EXCEPT ![p] = "claimed"] /\ on' = on
          /\ status' = [status EXCEPT ![on[p]] = "notifying"]
          /\ at[p] = "rewake" /\ launches' = launches /\ crashes' = crashes
        BY <1>1 DEF Claim, ClaimNotification, IInv
    <2>2. \A w \in Wait : w = on[p] => p \in Notifiers(w)'
        BY <2>1 DEF Notifiers
    <2>3. \A w \in Wait : Notifiers(w) \subseteq Notifiers(w)'
        BY <2>1 DEF Notifiers
    <2>4. OrphanedByDeath'
      <3> SUFFICES ASSUME NEW w \in Wait, status'[w] = "notifying"
                   PROVE  Notifiers(w)' # {} \/ crashes' > 0 \/ launches' > 1
          BY DEF OrphanedByDeath
      <3>1. CASE w = on[p]
          BY <2>2, <3>1
      <3>2. CASE w # on[p]
        <4>1. status[w] = "notifying"
            BY <2>1, <3>2 DEF IInv, TypeOK
        <4> QED BY <2>1, <2>3, <4>1 DEF Lives, OrphanedByDeath
      <3> QED BY <3>1, <3>2
    <2> QED BY <2>1, <2>4 DEF Lives
  <1>2. CASE FinishCall(p)
    <2>1. /\ on[p] \in Wait /\ at[p] = "calling" /\ on' = on
          /\ launches' = launches /\ crashes' = crashes
          /\ \A q \in Actor : q # p => at'[q] = at[q]
          /\ at[Daemon] = "none" => at'[Daemon] = "none"
        BY <1>2 DEF FinishCall, Return, IInv
    <2>2. \A w \in Wait : status'[w] = "notifying" => w # on[p] /\ status[w] = "notifying"
        BY <1>2, <2>1 DEF FinishCall, FinishNotification, IInv, TypeOK, recordVars
    <2>3. \A w \in Wait : w # on[p] => Notifiers(w) \subseteq Notifiers(w)'
        BY <2>1 DEF Notifiers
    <2> QED BY <2>1, <2>2, <2>3 DEF Lives, OrphanedByDeath
  <1>3. CASE ~Claim(p) /\ ~FinishCall(p)
    <2>1. \A w \in Wait : status'[w] = "notifying" => status[w] = "notifying"
      <3>1. CASE Query(p) \/ SkipClaim(p) \/ CallServer(p)
          BY <3>1 DEF Query, SkipClaim, CallServer, recordVars
      <3>2. CASE ApplyVerdict(p)
          BY <3>2 DEF ApplyVerdict, Complete, recordVars, IInv, TypeOK
      <3>3. CASE ApplyRunning(p) \/ Settle(p)
          BY <3>3 DEF ApplyRunning, Settle, Observe, ClaimObservation, recordVars
      <3> QED BY <1>3, <3>1, <3>2, <3>3 DEF Work
    <2>2. /\ launches' = launches /\ crashes' = crashes /\ on' = on
          /\ \A q \in Actor : Notifying(q) => Notifying(q)'
          /\ at[Daemon] = "none" => at'[Daemon] = "none"
      <3>1. /\ launches' = launches /\ crashes' = crashes /\ on' = on
            /\ at[p] \notin {"none", "calling"}
            /\ at[p] = "claimed" => at' = [at EXCEPT ![p] = "calling"]
        <4>1. CASE Query(p) \/ SkipClaim(p) \/ CallServer(p)
            BY <4>1 DEF Query, SkipClaim, CallServer
        <4>2. CASE ApplyVerdict(p) \/ ApplyRunning(p) \/ Settle(p)
            BY <4>2 DEF ApplyVerdict, ApplyRunning, Settle
        <4> QED BY <1>3, <4>1, <4>2 DEF Work
      <3>2. \A q \in Actor : q # p => at'[q] = at[q]
        <4>1. CASE Query(p) \/ SkipClaim(p) \/ CallServer(p) \/ Settle(p)
            BY <4>1 DEF Query, SkipClaim, CallServer, Settle, Return
        <4>2. CASE ApplyVerdict(p) \/ ApplyRunning(p)
            BY <4>2 DEF ApplyVerdict, ApplyRunning, Returned
        <4> QED BY <1>3, <4>1, <4>2 DEF Work
      <3> QED BY <3>1, <3>2 DEF Notifying, Actor
    <2> QED BY <2>1, <2>2, SteadyKeeps DEF Steady
  <1> QED BY <1>1, <1>2, <1>3

LEMMA LoopKeepsLives ==
    ASSUME IInv, Places', DeliveryTypeOK, Lives,
           (DaemonStep /\ ~Work(Daemon)) \/ \E p \in Watcher : WatchRound(p)
    PROVE  Lives'
  <1> USE DeliveryAssumption DEF Places, DeliveryTypeOK, Steady, Notifying, Actor, recordVars
  <1>1. CASE BeginPass \/ NextPhase \/ EndPass \/ IdleExit
    <2>1. Steady
        BY <1>1 DEF BeginPass, NextPhase, EndPass, IdleExit, DaemonGoes
    <2> QED BY <2>1, SteadyKeeps
  <1>2. ASSUME NEW w \in Wait, SweepNext(w) \/ ResumeNext(w) PROVE Lives'
    <2>1. Steady
        BY <1>2 DEF SweepNext, BeginPoll, ResumeNext
    <2> QED BY <2>1, SteadyKeeps
  <1>3. ASSUME NEW w \in Wait, RepairNext(w) \/ MarkNext(w) PROVE Lives'
    <2>1. \A v \in Wait : status'[v] = "notifying" => status[v] = "notifying"
        BY <1>3 DEF RepairNext, MarkNext, RepairNotification, UpdateMetadata, IInv, TypeOK
    <2>2. Steady
        BY <1>3, <2>1 DEF RepairNext, MarkNext
    <2> QED BY <2>2, SteadyKeeps
  <1>4. ASSUME NEW p \in Watcher, WatchRound(p) PROVE Lives'
    <2>1. Steady
        BY <1>4 DEF WatchRound, BeginPoll, UpdateMetadata
    <2> QED BY <2>1, SteadyKeeps
  <1> QED BY <1>1, <1>2, <1>3, <1>4 DEF DaemonStep

LEMMA WorldKeepsLives ==
    ASSUME IInv, Places', DeliveryTypeOK, DeliveryTypeOK', Lives,
           \/ \E w \in Wait : CommandStep(w) \/ \E o \in Outcome : TargetEnds(w, o)
           \/ \E p \in Actor : Crash(p)
           \/ TimePasses
           \/ UNCHANGED vars
    PROVE  Lives'
  <1> USE DeliveryAssumption DEF Places, DeliveryTypeOK, Notifying, Actor
  <1>1. ASSUME NEW w \in Wait, CommandStep(w) PROVE Lives'
    <2>1. CASE RegisterWait(w)
      <3>1. Steady
          BY <2>1 DEF RegisterWait, LookForRecord, Register, Steady, IInv, TypeOK
      <3> QED BY <3>1, SteadyKeeps
    <2>2. CASE Maintain(w)
      <3>1. \A v \in Wait : status'[v] = "notifying" => status[v] = "notifying"
          BY <2>2 DEF Maintain, ClaimHeartbeat, ExpireReady, RepairNotification, MarkResumed,
                      IInv, TypeOK
      <3>2. Steady
          BY <2>2, <3>1 DEF Maintain, Steady
      <3> QED BY <3>2, SteadyKeeps
    <2>3. CASE LaunchDaemon(w)
      <3>1. /\ launches' = launches + 1 /\ crashes' = crashes /\ status' = status
            /\ \A q \in Actor : q # Daemon => at'[q] = at[q] /\ on'[q] = on[q]
          BY <2>3 DEF LaunchDaemon, recordVars
      <3>2. CASE launches = 0
        <4>1. \A v \in Wait : Notifiers(v) \subseteq Notifiers(v)'
            BY <3>1, <3>2 DEF Lives, Notifiers
        <4> QED BY <3>1, <3>2, <4>1 DEF Lives, OrphanedByDeath
      <3>3. CASE launches > 0
          BY <3>1, <3>3 DEF Lives, OrphanedByDeath
      <3> QED BY <3>2, <3>3
    <2>4. ASSUME NEW p \in Watcher, LaunchWatcher(p, w) PROVE Lives'
      <3>1. Steady
          BY <2>4 DEF LaunchWatcher, Steady, recordVars
      <3> QED BY <3>1, SteadyKeeps
    <2> QED BY <1>1, <2>1, <2>2, <2>3, <2>4 DEF CommandStep
  <1>2. ASSUME NEW w \in Wait, NEW o \in Outcome, TargetEnds(w, o) PROVE Lives'
    <2>1. Steady
        BY <1>2 DEF TargetEnds, Steady, recordVars
    <2> QED BY <2>1, SteadyKeeps
  <1>3. ASSUME NEW p \in Actor, Crash(p) PROVE Lives'
    <2>1. crashes' > 0 /\ launches' = launches
        BY <1>3 DEF Crash
    <2>2. at[Daemon] = "none" => at'[Daemon] = "none"
        BY <1>3 DEF Crash
    <2> QED BY <2>1, <2>2 DEF Lives, OrphanedByDeath
  <1>4. CASE TimePasses \/ UNCHANGED vars
    <2>1. Steady
        BY <1>4 DEF TimePasses, Tick, Steady, vars, recordVars
    <2> QED BY <2>1, SteadyKeeps
  <1> QED BY <1>1, <1>2, <1>3, <1>4

\* Without a crash and with one daemon only, every record in "notifying" has a
\* process that holds its claim: abandoned claims are the work of deaths.
THEOREM OrphansNeedDeath == DeliverySpec => []OrphanedByDeath
  <1>1. DeliveryInit => Lives
      BY DeliveryAssumption DEF DeliveryInit, Init, Lives, OrphanedByDeath, Actor
  <1>2. IInv /\ IInv' /\ DeliveryTypeOK /\ DeliveryTypeOK' /\ Lives /\ [DeliveryNext]_vars
            => Lives'
    <2> SUFFICES ASSUME IInv, Places', DeliveryTypeOK, DeliveryTypeOK', Lives,
                        [DeliveryNext]_vars
                 PROVE  Lives'
        BY DEF IInv
    <2>1. ASSUME NEW p \in Actor, Work(p) PROVE Lives'
        BY <2>1, WorkKeepsLives
    <2>2. CASE (DaemonStep /\ ~Work(Daemon)) \/ \E p \in Watcher : WatchRound(p)
        BY <2>2, LoopKeepsLives
    <2>3. CASE DaemonStep
        BY <2>1, <2>2, <2>3 DEF Actor
    <2>4. ASSUME NEW p \in Watcher, WatcherStep(p) PROVE Lives'
      <3>1. CASE Work(p)
          BY <2>1, <3>1 DEF Actor
      <3>2. CASE WatchRound(p)
          BY <2>2, <3>2
      <3> QED BY <2>4, <3>1, <3>2 DEF WatcherStep
    <2> QED BY <2>3, <2>4, WorldKeepsLives DEF DeliveryNext
  <1>3. Lives => OrphanedByDeath
      BY DEF Lives
  <1> QED BY <1>1, <1>2, <1>3, InductiveInvariant, DeliveryTyped, PTL DEF DeliverySpec

-----------------------------------------------------------------------------
(* The daemon that is the only notifier.  A claim it does not hold itself is  *)
(* one a kick has left behind, and it was made before the daemon's clock was  *)
(* started: it is at least as old as that clock shows.                        *)

Abandoned(w) == status[w] = "notifying" /\ ~(Notifying(Daemon) /\ on[Daemon] = w)

\* So a repair that still spares a claim comes early on that clock, and what is
\* left of the pass, and the sleep after it, do not last until the idle timeout.
Aged(w) == age[w] >= quiet \/ age[w] >= NotifyLease

Spared(w) ==
    /\ at[Daemon] = "repair" => w \in todo \/ quiet < NotifyLease
    /\ at[Daemon] \in {"resume", "rewake", "claimed", "calling"} =>
           quiet < NotifyLease + passing
    /\ at[Daemon] = "rest" =>
           quiet < NotifyLease + PassTime + (IF rested THEN 0 ELSE 1)

RepairDue == DaemonRuns => \A w \in Wait : Abandoned(w) => Aged(w) /\ Spared(w)

\* A step of the records that begins no notification and renews no claim.
ClaimsAsBefore ==
    \A w \in Wait :
        status'[w] = "notifying" => status[w] = "notifying" /\ age'[w] = age[w]

LEMMA WorkKeepsDue ==
    ASSUME IInv, DeliveryTypeOK, RepairDue, Work(Daemon)
    PROVE  RepairDue'
  <1> USE RegistryAssumption, DeliveryAssumption DEF Places, DeliveryTypeOK, Actor
  <1>1. DaemonRuns /\ UNCHANGED <<on, todo, quiet, rested, passing>>
    <2>1. CASE Query(Daemon) \/ ApplyVerdict(Daemon) \/ ApplyRunning(Daemon)
        BY <2>1 DEF Query, ApplyVerdict, ApplyRunning, DaemonRuns
    <2>2. CASE Settle(Daemon) \/ Claim(Daemon) \/ SkipClaim(Daemon)
        BY <2>2 DEF Settle, Claim, SkipClaim, DaemonRuns
    <2>3. CASE CallServer(Daemon) \/ FinishCall(Daemon)
        BY <2>3 DEF CallServer, FinishCall, DaemonRuns
    <2> QED BY <2>1, <2>2, <2>3 DEF Work
  <1>2. CASE Query(Daemon) \/ ApplyVerdict(Daemon) \/ ApplyRunning(Daemon) \/ Settle(Daemon)
    <2>1. /\ at[Daemon] \in {"query", "answer", "settle"} /\ on[Daemon] \in Wait
          /\ at'[Daemon] \in {"answer", "settle", "sweep"}
      <3>1. CASE Query(Daemon)
          BY <3>1 DEF Query, IInv
      <3>2. CASE ApplyVerdict(Daemon)
          BY <3>2 DEF ApplyVerdict, Returned, Home, IInv
      <3>3. CASE ApplyRunning(Daemon)
          BY <3>3 DEF ApplyRunning, Returned, Home, IInv
      <3>4. CASE Settle(Daemon)
          BY <3>4 DEF Settle, Home, IInv
      <3> QED BY <1>2, <3>1, <3>2, <3>3, <3>4
    <2>2. ClaimsAsBefore
      <3> USE DEF ClaimsAsBefore, IInv, TypeOK, Touch
      <3>1. CASE Query(Daemon)
          BY <3>1 DEF Query, recordVars
      <3>2. CASE ApplyVerdict(Daemon)
          BY <2>1, <3>2 DEF ApplyVerdict, Complete, recordVars
      <3>3. CASE ApplyRunning(Daemon)
          BY <2>1, <3>3 DEF ApplyRunning, Observe, recordVars
      <3>4. CASE Settle(Daemon)
          BY <2>1, <3>4 DEF Settle, ClaimObservation, recordVars
      <3> QED BY <1>2, <3>1, <3>2, <3>3, <3>4
    <2>3. \A w \in Wait : Abandoned(w)' => Abandoned(w) /\ age'[w] = age[w]
        BY <2>1, <2>2 DEF Abandoned, Notifying, ClaimsAsBefore
    <2> QED BY <1>1, <2>1, <2>3 DEF RepairDue, Aged, Spared
  <1>3. CASE Claim(Daemon)
    <2>1. /\ at[Daemon] = "rewake" /\ at'[Daemon] = "claimed" /\ on[Daemon] \in Wait
          /\ status' = [status EXCEPT ![on[Daemon]] = "notifying"]
          /\ age' = [age EXCEPT ![on[Daemon]] = 0]
        BY <1>3 DEF Claim, ClaimNotification, Touch, IInv
    <2>2. \A w \in Wait : Abandoned(w)' => Abandoned(w) /\ age'[w] = age[w]
        BY <1>1, <2>1 DEF Abandoned, Notifying, IInv, TypeOK
    <2> QED BY <1>1, <2>1, <2>2 DEF RepairDue, Aged, Spared
  <1>4. CASE SkipClaim(Daemon) \/ CallServer(Daemon)
    <2>1. /\ \/ at[Daemon] = "rewake" /\ at'[Daemon] = "resume"
             \/ at[Daemon] = "claimed" /\ at'[Daemon] = "calling"
          /\ UNCHANGED <<status, age>>
        BY <1>4 DEF SkipClaim, CallServer, Return, recordVars, IInv
    <2>2. \A w \in Wait : Abandoned(w)' => Abandoned(w) /\ age'[w] = age[w]
        BY <1>1, <2>1 DEF Abandoned, Notifying
    <2> QED BY <1>1, <2>1, <2>2 DEF RepairDue, Aged, Spared
  <1>5. CASE FinishCall(Daemon)
    <2>1. at[Daemon] = "calling" /\ at'[Daemon] = "resume" /\ on[Daemon] \in Wait
        BY <1>5 DEF FinishCall, Return, IInv
    <2>2. \A w \in Wait : status'[w] = "notifying" =>
              w # on[Daemon] /\ status[w] = "notifying" /\ age'[w] = age[w]
        BY <1>5, <2>1 DEF FinishCall, FinishNotification, Touch, IInv, TypeOK, recordVars
    <2>3. \A w \in Wait : Abandoned(w)' => Abandoned(w) /\ age'[w] = age[w]
        BY <2>1, <2>2 DEF Abandoned, Notifying
    <2> QED BY <1>1, <2>1, <2>3 DEF RepairDue, Aged, Spared
  <1> QED BY <1>2, <1>3, <1>4, <1>5 DEF Work

LEMMA LoopKeepsDue ==
    ASSUME IInv, DeliveryTypeOK, RepairDue, DaemonStep, ~Work(Daemon)
    PROVE  RepairDue'
  <1> USE RegistryAssumption, DeliveryAssumption DEF Places, DeliveryTypeOK, Actor
  <1>1. CASE BeginPass \/ IdleExit
    <2>1. /\ UNCHANGED <<status, age, quiet>> /\ at[Daemon] = "rest"
          /\ at'[Daemon] \in {"sweep", "stopped"}
        BY <1>1 DEF BeginPass, IdleExit, DaemonGoes, recordVars, IInv
    <2>2. \A w \in Wait : Abandoned(w)' => Abandoned(w)
        BY <2>1 DEF Abandoned, Notifying
    <2> QED BY <2>1, <2>2 DEF RepairDue, Aged, Spared, DaemonRuns
  <1>2. CASE NextPhase
    <2>1. /\ UNCHANGED <<status, age, quiet, passing>> /\ todo = {}
          /\ \/ at[Daemon] = "sweep" /\ at'[Daemon] = "mark"
             \/ at[Daemon] = "mark" /\ at'[Daemon] = "repair" /\ todo' = WaitsIn("notifying")
             \/ at[Daemon] = "repair" /\ at'[Daemon] = "resume"
        BY <1>2 DEF NextPhase, DaemonGoes, recordVars, IInv
    <2>2. \A w \in Wait : Abandoned(w)' => Abandoned(w)
        BY <2>1 DEF Abandoned, Notifying
    <2>3. \A w \in Wait : Abandoned(w) => w \in WaitsIn("notifying")
        BY DEF Abandoned, WaitsIn
    <2> QED BY <2>1, <2>2, <2>3 DEF RepairDue, Aged, Spared, DaemonRuns
  <1>3. CASE EndPass
    <2>1. /\ UNCHANGED <<status, age>> /\ at[Daemon] = "resume" /\ at'[Daemon] = "rest"
          /\ quiet' \in {0, quiet} /\ rested'
        BY <1>3 DEF EndPass, DaemonGoes, recordVars, IInv
    <2>2. \A w \in Wait : Abandoned(w)' => Abandoned(w)
        BY <2>1 DEF Abandoned, Notifying
    <2>3. \A w \in Wait : age[w] \in Nat
        BY DEF IInv, TypeOK
    <2> QED BY <2>1, <2>2, <2>3 DEF RepairDue, Aged, Spared, DaemonRuns
  <1>4. ASSUME NEW w \in Wait, SweepNext(w)  PROVE RepairDue'
    <2>1. /\ UNCHANGED <<status, age, quiet>> /\ at[Daemon] = "sweep"
          /\ at'[Daemon] \in {"sweep", "query", "answer"}
        BY <1>4 DEF SweepNext, BeginPoll, recordVars, IInv
    <2>2. \A v \in Wait : Abandoned(v)' => Abandoned(v)
        BY <2>1 DEF Abandoned, Notifying
    <2> QED BY <2>1, <2>2 DEF RepairDue, Aged, Spared, DaemonRuns
  <1>5. ASSUME NEW w \in Wait, MarkNext(w)  PROVE RepairDue'
    <2>1. UNCHANGED <<at, on, quiet>> /\ at[Daemon] = "mark" /\ ClaimsAsBefore
        BY <1>5 DEF MarkNext, UpdateMetadata, Touch, ClaimsAsBefore, recordVars,
                    IInv, TypeOK
    <2>2. \A v \in Wait : Abandoned(v)' => Abandoned(v) /\ age'[v] = age[v]
        BY <2>1 DEF Abandoned, Notifying, ClaimsAsBefore
    <2> QED BY <2>1, <2>2 DEF RepairDue, Aged, Spared, DaemonRuns
  <1>6. ASSUME NEW w \in Wait, RepairNext(w)  PROVE RepairDue'
    <2>1. /\ UNCHANGED <<at, on, quiet>> /\ at[Daemon] = "repair" /\ todo' = todo \ {w}
          /\ ClaimsAsBefore
        BY <1>6 DEF RepairNext, RepairNotification, Touch, ClaimsAsBefore, recordVars,
                    IInv, TypeOK
    <2>2. status'[w] = "notifying" => age[w] < NotifyLease
        BY <1>6 DEF RepairNext, RepairNotification, recordVars, IInv, TypeOK
    <2>3. \A v \in Wait : Abandoned(v)' => Abandoned(v) /\ age'[v] = age[v]
        BY <2>1 DEF Abandoned, Notifying, ClaimsAsBefore
    <2>4. ASSUME NEW v \in Wait, Abandoned(v)'  PROVE Aged(v)' /\ Spared(v)'
      <3>1. Aged(v) /\ (v \in todo \/ quiet < NotifyLease)
          BY <2>1, <2>3, <2>4 DEF RepairDue, Spared, DaemonRuns
      <3>2. v = w => quiet < NotifyLease
          BY <2>2, <2>4, <3>1 DEF Aged, Abandoned, IInv, TypeOK
      <3> QED BY <2>1, <2>3, <2>4, <3>1, <3>2 DEF Aged, Spared
    <2> QED BY <2>4 DEF RepairDue
  <1>7. ASSUME NEW w \in Wait, ResumeNext(w)  PROVE RepairDue'
    <2>1. /\ UNCHANGED <<status, age, quiet, passing>> /\ at[Daemon] = "resume"
          /\ at'[Daemon] \in {"resume", "rewake"}
        BY <1>7 DEF ResumeNext, recordVars, IInv
    <2>2. \A v \in Wait : Abandoned(v)' => Abandoned(v)
        BY <2>1 DEF Abandoned, Notifying
    <2> QED BY <2>1, <2>2 DEF RepairDue, Aged, Spared, DaemonRuns
  <1> QED BY <1>1, <1>2, <1>3, <1>4, <1>5, <1>6, <1>7 DEF DaemonStep

LEMMA WorldKeepsDue ==
    ASSUME IInv, DeliveryTypeOK, DeliveryTypeOK', RepairDue, Watcher = {},
           \/ \E w \in Wait : CommandStep(w) \/ \E o \in Outcome : TargetEnds(w, o)
           \/ \E p \in Actor : Crash(p)
           \/ TimePasses
           \/ UNCHANGED vars
    PROVE  RepairDue'
  <1> USE RegistryAssumption, DeliveryAssumption DEF Places, DeliveryTypeOK, Actor
  <1>1. ASSUME ClaimsAsBefore, UNCHANGED <<at, on, todo, quiet, rested, passing>>
        PROVE  RepairDue'
    <2>1. \A v \in Wait : Abandoned(v)' => Abandoned(v) /\ age'[v] = age[v]
        BY <1>1 DEF Abandoned, Notifying, ClaimsAsBefore
    <2> QED BY <1>1, <2>1 DEF RepairDue, Aged, Spared, DaemonRuns
  <1>2. ASSUME NEW w \in Wait, RegisterWait(w) \/ Maintain(w)  PROVE RepairDue'
    <2> USE DEF ClaimsAsBefore, Touch, IInv, TypeOK
    <2>1. CASE RegisterWait(w)
      <3>1. ClaimsAsBefore
          BY <2>1 DEF RegisterWait, LookForRecord, Register
      <3> QED BY <1>1, <2>1, <3>1 DEF RegisterWait
    <2>2. CASE Maintain(w)
      <3>1. ClaimsAsBefore
          BY <2>2 DEF Maintain, ClaimHeartbeat, ExpireReady, RepairNotification, MarkResumed, Ready
      <3> QED BY <1>1, <2>2, <3>1 DEF Maintain
    <2> QED BY <1>2, <2>1, <2>2
  <1>3. ASSUME NEW w \in Wait, LaunchDaemon(w)  PROVE RepairDue'
    <2>1. at'[Daemon] = "rest" /\ quiet' = 0 /\ ~rested' /\ UNCHANGED age
        BY <1>3 DEF LaunchDaemon, recordVars, IInv
    <2>2. \A v \in Wait : age[v] \in Nat
        BY DEF IInv, TypeOK
    <2> QED BY <2>1, <2>2 DEF RepairDue, Aged, Spared
  <1>4. ASSUME NEW w \in Wait, NEW o \in Outcome, TargetEnds(w, o)  PROVE RepairDue'
      BY <1>1, <1>4 DEF TargetEnds, ClaimsAsBefore, recordVars
  <1>5. ASSUME NEW p \in Actor, Crash(p)  PROVE RepairDue'
      BY <1>5 DEF Crash, RepairDue, DaemonRuns, IInv
  <1>6. CASE TimePasses
    <2>1. /\ UNCHANGED <<status, at, on, todo>> /\ ~rested'
          /\ DaemonRuns => quiet' = (IF quiet < IdleTimeout THEN quiet + 1 ELSE quiet)
          /\ passing' = IF InCall THEN passing + 1 ELSE passing
          /\ age' = [w \in Wait |-> IF age[w] < MaxAge THEN age[w] + 1 ELSE age[w]]
        BY <1>6 DEF TimePasses, Tick, DaemonRuns
    <2>2. ASSUME DaemonRuns', NEW w \in Wait, Abandoned(w)'  PROVE Aged(w)' /\ Spared(w)'
      <3>1. DaemonRuns /\ Aged(w) /\ Spared(w)
          BY <2>1, <2>2 DEF RepairDue, DaemonRuns, Abandoned, Notifying
      <3>2. quiet \in Nat /\ quiet' \in {quiet, quiet + 1} /\ age[w] \in 0..MaxAge
          BY <2>1, <3>1 DEF IInv, TypeOK
      <3>3. Aged(w)'
          BY <2>1, <3>1, <3>2 DEF Aged
      <3>4. \/ at[Daemon] \in {"query", "calling"} /\ passing' = passing + 1
            \/ at[Daemon] = "rest" /\ rested
          BY <1>6, <2>1, <3>1 DEF TimePasses, DaemonPrompt, InCall, DaemonRuns
      <3>5. Spared(w)'
          BY <2>1, <3>1, <3>2, <3>4 DEF Spared
      <3> QED BY <3>3, <3>5
    <2> QED BY <2>2 DEF RepairDue
  <1>7. CASE UNCHANGED vars
      BY <1>1, <1>7 DEF vars, ClaimsAsBefore, recordVars
  <1> QED BY <1>2, <1>3, <1>4, <1>5, <1>6, <1>7 DEF CommandStep

\* A repair fails every claim past its lease: what an open claim can have aged
\* since is what is left of the pass, and the sleep after it.  A daemon that was
\* just started has repaired nothing yet.
Within(w) ==
    /\ at[Daemon] = "repair" => w \in todo \/ age[w] < NotifyLease
    /\ at[Daemon] \in {"resume", "rewake", "claimed", "calling"} =>
           age[w] < NotifyLease + passing
    /\ at[Daemon] = "rest" =>
           \/ quiet = 0 /\ ~rested
           \/ age[w] < NotifyLease + PassTime + (IF rested THEN 0 ELSE 1)

Young == DaemonRuns => \A w \in Wait : status[w] = "notifying" => Within(w)

\* Only time makes a claim older.
Fresh ==
    \A w \in Wait :
        status'[w] = "notifying" =>
            \/ age'[w] = 0
            \/ status[w] = "notifying" /\ age'[w] = age[w]

LEMMA TransitionIsFresh == ASSUME TypeOK, ByRegistry PROVE Fresh
  <1> USE DEF TypeOK, Fresh, Touch
  <1>1. CASE UNCHANGED recordVars
      BY <1>1 DEF recordVars
  <1>2. ASSUME NEW w \in Wait, Transition(w) PROVE Fresh
    <2>1. CASE LookForRecord(w)
        BY <2>1 DEF LookForRecord
    <2>2. CASE Register(w) \/ Observe(w) \/ UpdateMetadata(w)
        BY <2>2 DEF Register, Observe, UpdateMetadata
    <2>3. ASSUME NEW r \in Result, Complete(w, r) PROVE Fresh
        BY <2>3 DEF Complete
    <2>4. CASE ClaimNotification(w) \/ RepairNotification(w) \/ ClaimHeartbeat(w)
        BY <2>4 DEF ClaimNotification, RepairNotification, ClaimHeartbeat
    <2>5. ASSUME NEW end \in {"resumed", "notify_failed"}, FinishNotification(w, end)
          PROVE  Fresh
        BY <2>5 DEF FinishNotification
    <2>6. ASSUME NEW e \in Event, ClaimObservation(w, e) PROVE Fresh
        BY <2>6 DEF ClaimObservation
    <2>7. CASE ExpireReady(w) \/ MarkResumed(w)
        BY <2>7 DEF ExpireReady, MarkResumed
    <2> QED BY <1>2, <2>1, <2>2, <2>3, <2>4, <2>5, <2>6, <2>7 DEF Transition
  <1> QED BY <1>1, <1>2 DEF ByRegistry

\* A step that leaves the daemon where it is, and its clocks.
LEMMA FreshKeepsYoung ==
    ASSUME IInv, DeliveryTypeOK, Young, Fresh,
           at'[Daemon] = at[Daemon], UNCHANGED <<todo, quiet, rested, passing>>
    PROVE  Young'
  <1> SUFFICES ASSUME DaemonRuns', NEW w \in Wait, status'[w] = "notifying"
               PROVE  Within(w)'
      BY DEF Young
  <1>1. DaemonRuns
      BY DEF DaemonRuns
  <1>2. NotifyLease \in Nat \ {0} /\ PassTime \in Nat /\ passing \in Nat
      BY RegistryAssumption, DeliveryAssumption DEF DeliveryTypeOK
  <1>3. CASE age'[w] = 0
      BY <1>2, <1>3 DEF Within
  <1>4. CASE status[w] = "notifying" /\ age'[w] = age[w]
      BY <1>1, <1>4 DEF Young, Within
  <1> QED BY <1>3, <1>4 DEF Fresh

LEMMA DaemonKeepsYoung ==
    ASSUME IInv, DeliveryTypeOK, Young, Fresh, DaemonStep
    PROVE  Young'
  <1> USE DEF DaemonRuns
  <1>0. /\ NotifyLease \in Nat \ {0} /\ PassTime \in Nat /\ passing \in 0..PassTime
        /\ at \in [Actor -> Locations] /\ Daemon \in Actor
        /\ \A w \in Wait : age[w] \in Nat
      BY RegistryAssumption, DeliveryAssumption DEF DeliveryTypeOK, IInv, TypeOK, Actor
  <1>1. ASSUME at'[Daemon] \notin {"repair", "resume", "rewake", "claimed", "calling", "rest"}
        PROVE  Young'
      BY <1>1 DEF Young, Within
  <1>2. ASSUME at[Daemon] \in {"resume", "rewake", "claimed", "calling"},
               at'[Daemon] \in {"resume", "rewake", "claimed", "calling"},
               passing' = passing
        PROVE  Young'
    <2> SUFFICES ASSUME NEW w \in Wait, status'[w] = "notifying" PROVE Within(w)'
        BY DEF Young
    <2>1. age'[w] = 0 \/ age'[w] < NotifyLease + passing
        BY <1>2 DEF Fresh, Young, Within
    <2> QED BY <1>0, <1>2, <2>1 DEF Within
  <1>3. CASE Work(Daemon)
    <2>1. CASE Query(Daemon)
        BY <1>0, <1>1, <2>1 DEF Query
    <2>2. CASE ApplyVerdict(Daemon)
        BY <1>0, <1>1, <2>2 DEF ApplyVerdict, Returned, Home
    <2>3. CASE ApplyRunning(Daemon)
        BY <1>0, <1>1, <2>3 DEF ApplyRunning, Returned, Home
    <2>4. CASE Settle(Daemon)
        BY <1>0, <1>1, <2>4 DEF Settle, Home
    <2>5. CASE Claim(Daemon) \/ SkipClaim(Daemon)
        BY <1>0, <1>2, <2>5 DEF Claim, SkipClaim, Return
    <2>6. CASE CallServer(Daemon) \/ FinishCall(Daemon)
        BY <1>0, <1>2, <2>6 DEF CallServer, FinishCall, Return
    <2> QED BY <1>3, <2>1, <2>2, <2>3, <2>4, <2>5, <2>6 DEF Work
  <1>4. CASE BeginPass \/ IdleExit
      BY <1>0, <1>1, <1>4 DEF BeginPass, IdleExit, DaemonGoes
  <1>5. CASE NextPhase
    <2>1. CASE at'[Daemon] = "mark"
        BY <1>1, <2>1
    <2>2. CASE at'[Daemon] = "repair" /\ todo' = WaitsIn("notifying")
      <3> SUFFICES ASSUME NEW w \in Wait, status'[w] = "notifying" PROVE Within(w)'
          BY DEF Young
      <3>1. status' = status
          BY <1>5 DEF NextPhase, recordVars
      <3> QED BY <2>2, <3>1 DEF Within, WaitsIn
    <2>3. CASE at[Daemon] = "repair" /\ at'[Daemon] = "resume" /\ todo = {}
      <3> SUFFICES ASSUME NEW w \in Wait, status'[w] = "notifying" PROVE Within(w)'
          BY DEF Young
      <3>1. status' = status /\ age' = age /\ passing' = passing
          BY <1>5 DEF NextPhase, recordVars
      <3>2. age[w] < NotifyLease
          BY <2>3, <3>1 DEF Young, Within
      <3> QED BY <1>0, <2>3, <3>1, <3>2 DEF Within
    <2> QED BY <1>0, <1>5, <2>1, <2>2, <2>3 DEF NextPhase, DaemonGoes
  <1>6. CASE EndPass
    <2> SUFFICES ASSUME NEW w \in Wait, status'[w] = "notifying" PROVE Within(w)'
        BY DEF Young
    <2>1. /\ at[Daemon] = "resume" /\ at'[Daemon] = "rest" /\ rested'
          /\ status' = status /\ age' = age
        BY <1>0, <1>6 DEF EndPass, DaemonGoes, recordVars
    <2>2. age[w] < NotifyLease + passing
        BY <2>1 DEF Young, Within
    <2> QED BY <1>0, <2>1, <2>2 DEF Within
  <1>7. ASSUME NEW w \in Wait, SweepNext(w) PROVE Young'
      BY <1>0, <1>1, <1>7 DEF SweepNext, BeginPoll
  <1>8. ASSUME NEW w \in Wait, MarkNext(w) PROVE Young'
      BY <1>0, <1>1, <1>8 DEF MarkNext
  <1>9. ASSUME NEW w \in Wait, RepairNext(w) PROVE Young'
    <2> SUFFICES ASSUME NEW v \in Wait, status'[v] = "notifying" PROVE Within(v)'
        BY DEF Young
    <2>1. at[Daemon] = "repair" /\ at' = at /\ todo' = todo \ {w}
        BY <1>9 DEF RepairNext
    <2>2. v = w => age'[v] < NotifyLease
      <3>1. age'[v] = 0 \/ (status[v] = "notifying" /\ age'[v] = age[v])
          BY DEF Fresh
      <3>2. v = w => ~(status[v] = "notifying" /\ age[v] >= NotifyLease)
          BY <1>9 DEF RepairNext, RepairNotification, IInv, TypeOK
      <3> QED BY <1>0, <3>1, <3>2
    <2>3. v # w => v \in todo' \/ age'[v] < NotifyLease
      <3>1. CASE age'[v] = 0
          BY <1>0, <3>1
      <3>2. CASE status[v] = "notifying" /\ age'[v] = age[v]
          BY <2>1, <3>2 DEF Young, Within
      <3> QED BY <3>1, <3>2 DEF Fresh
    <2> QED BY <2>1, <2>2, <2>3 DEF Within
  <1>10. ASSUME NEW w \in Wait, ResumeNext(w) PROVE Young'
      BY <1>0, <1>2, <1>10 DEF ResumeNext
  <1> QED BY <1>3, <1>4, <1>5, <1>6, <1>7, <1>8, <1>9, <1>10 DEF DaemonStep

LEMMA TickKeepsYoung ==
    ASSUME IInv, DeliveryTypeOK, Young, TimePasses
    PROVE  Young'
  <1> SUFFICES ASSUME DaemonRuns', NEW w \in Wait, status'[w] = "notifying"
               PROVE  Within(w)'
      BY DEF Young
  <1>1. /\ at' = at /\ todo' = todo /\ status' = status /\ ~rested'
        /\ age'[w] \in {age[w], age[w] + 1}
        /\ passing' = IF InCall THEN passing + 1 ELSE passing
      BY DEF TimePasses, Tick
  <1>2. DaemonRuns /\ (InCall \/ (at[Daemon] = "rest" /\ rested))
      BY <1>1 DEF DaemonRuns, TimePasses, DaemonPrompt
  <1>3. Within(w)
      BY <1>1, <1>2 DEF Young
  <1>4. /\ NotifyLease \in Nat \ {0} /\ PassTime \in Nat /\ passing \in Nat
        /\ age[w] \in Nat /\ quiet \in Nat
      BY RegistryAssumption, DeliveryAssumption DEF DeliveryTypeOK, IInv, TypeOK
  <1>5. CASE InCall
      BY <1>1, <1>3, <1>4, <1>5 DEF Within, InCall
  <1>6. CASE at[Daemon] = "rest" /\ rested
      BY <1>1, <1>3, <1>4, <1>6 DEF Within, InCall
  <1> QED BY <1>2, <1>5, <1>6

LEMMA StepKeepsYoung ==
    IInv /\ DeliveryTypeOK /\ DeliveryTypeOK' /\ Young /\ [DeliveryNext]_vars => Young'
  <1> SUFFICES ASSUME IInv, DeliveryTypeOK, DeliveryTypeOK', Young, [DeliveryNext]_vars
               PROVE  Young'
      OBVIOUS
  <1> USE DeliveryAssumption DEF Actor, DeliveryTypeOK
  <1>1. CASE TimePasses
      BY <1>1, TickKeepsYoung
  <1>2. CASE ByRegistry
    <2>1. Fresh
        BY <1>2, TransitionIsFresh DEF IInv
    <2>2. CASE DaemonStep
        BY <2>1, <2>2, DaemonKeepsYoung
    <2>3. ASSUME NEW p \in Watcher, WatcherStep(p) PROVE Young'
      <3>1. p # Daemon
          OBVIOUS
      <3>2. /\ at'[Daemon] = at[Daemon] /\ UNCHANGED <<todo, quiet, rested, passing>>
          BY <2>3, <3>1 DEF WatcherStep, WatchRound, BeginPoll, Work, Query, ApplyVerdict,
                 ApplyRunning, Returned, Settle, Claim, SkipClaim, CallServer, FinishCall,
                 Return
      <3> QED BY <2>1, <3>2, FreshKeepsYoung
    <2>4. ASSUME NEW w \in Wait, LaunchDaemon(w) PROVE Young'
      <3>1. at'[Daemon] = "rest" /\ quiet' = 0 /\ ~rested'
          BY <2>4 DEF LaunchDaemon
      <3> QED BY <3>1 DEF Young, Within
    <2>5. ASSUME NEW w \in Wait, RegisterWait(w) \/ Maintain(w) PROVE Young'
        BY <2>1, <2>5, FreshKeepsYoung DEF RegisterWait, Maintain
    <2>6. ASSUME NEW w \in Wait, NEW p \in Watcher, LaunchWatcher(p, w) PROVE Young'
      <3>1. at'[Daemon] = at[Daemon] /\ UNCHANGED <<todo, quiet, rested, passing>>
          BY <2>6 DEF LaunchWatcher
      <3> QED BY <2>1, <3>1, FreshKeepsYoung
    <2>7. ASSUME NEW w \in Wait, NEW o \in Outcome, TargetEnds(w, o) PROVE Young'
        BY <2>1, <2>7, FreshKeepsYoung DEF TargetEnds
    <2>8. ASSUME NEW p \in Actor, Crash(p) PROVE Young'
      <3>1. CASE p = Daemon
        <4>1. ~DaemonRuns'
            BY <2>8, <3>1 DEF Crash, DaemonRuns
        <4> QED BY <4>1 DEF Young
      <3>2. CASE p # Daemon
        <4>1. at'[Daemon] = at[Daemon] /\ UNCHANGED <<todo, quiet, rested, passing>>
            BY <2>8, <3>2 DEF Crash
        <4> QED BY <2>1, <4>1, FreshKeepsYoung
      <3> QED BY <3>1, <3>2
    <2>9. CASE UNCHANGED vars
        BY <2>1, <2>9, FreshKeepsYoung DEF vars
    <2> QED BY <1>1, <2>2, <2>3, <2>4, <2>5, <2>6, <2>7, <2>8, <2>9
            DEF DeliveryNext, CommandStep
  <1> QED BY <1>1, <1>2, StepIsTransition DEF IInv

\* For any waits, watchers, deaths, kicks and timing: a claim that is open when
\* the daemon retires is younger than a lease and a pass; and one that is alone
\* leaves none if those are shorter together than its idle timeout.
THEOREM DaemonRetiresClean == DeliverySpec => RetiresClean
  <1>1. DeliveryInit => Young /\ (Watcher = {} => RepairDue)
      BY DeliveryAssumption DEF DeliveryInit, Young, RepairDue, DaemonRuns, Actor
  <1>2. IInv /\ DeliveryTypeOK /\ DeliveryTypeOK' /\ RepairDue /\ Watcher = {}
            /\ [DeliveryNext]_vars => RepairDue'
    <2> SUFFICES ASSUME IInv, DeliveryTypeOK, DeliveryTypeOK', RepairDue, Watcher = {},
                        [DeliveryNext]_vars
                 PROVE  RepairDue'
        OBVIOUS
    <2>1. CASE DaemonStep
        BY <2>1, WorkKeepsDue, LoopKeepsDue
    <2>2. CASE ~DaemonStep
        BY <2>2, WorldKeepsDue DEF DeliveryNext
    <2> QED BY <2>1, <2>2
  <1> DEFINE Due == Watcher = {} => RepairDue
  <1>3. IInv /\ DeliveryTypeOK /\ DeliveryTypeOK' /\ Due /\ [DeliveryNext]_vars => Due'
      BY <1>2
  <1>4. DeliveryTypeOK /\ IInv /\ Young /\ Due /\ IdleExit =>
            \A w \in Wait : status[w] = "notifying" =>
                /\ age[w] =< NotifyLease + PassTime
                /\ Watcher = {} => IdleTimeout =< NotifyLease + PassTime
    <2> SUFFICES ASSUME DeliveryTypeOK, IInv, Young, Due, IdleExit, NEW w \in Wait,
                        status[w] = "notifying"
                 PROVE  /\ age[w] =< NotifyLease + PassTime
                        /\ Watcher = {} => IdleTimeout =< NotifyLease + PassTime
        OBVIOUS
    <2>1. at[Daemon] = "rest" /\ ~rested /\ quiet >= IdleTimeout
        BY DEF IdleExit
    <2>2. /\ NotifyLease \in Nat /\ PassTime \in Nat /\ IdleTimeout \in Nat \ {0}
          /\ quiet \in Nat /\ age[w] \in Nat
        BY RegistryAssumption, DeliveryAssumption DEF DeliveryTypeOK, IInv, TypeOK
    <2>3. age[w] < NotifyLease + PassTime + 1
        BY <2>1, <2>2 DEF Young, Within, DaemonRuns
    <2>4. Watcher = {} => quiet < NotifyLease + PassTime + 1
        BY <2>1 DEF RepairDue, DaemonRuns, Abandoned, Notifying, Spared
    <2> QED BY <2>1, <2>2, <2>3, <2>4
  <1> HIDE DEF Due
  <1>5. DeliverySpec => [](IInv /\ DeliveryTypeOK /\ Young /\ Due)
    <2>1. DeliveryInit => Due
        BY <1>1 DEF Due
    <2> QED BY <1>1, <1>3, <2>1, StepKeepsYoung, InductiveInvariant, DeliveryTyped,
               PTL DEF DeliverySpec
  <1> QED BY <1>4, <1>5, PTL DEF RetiresClean, DeliverySpec

-----------------------------------------------------------------------------
(* What a process holds while anything may happen is still true.           *)

\* A process asks and answers for a registered wait; the answer it holds is
\* true of the target, and a timeout comes after the deadline.
Verdicts ==
    /\ \A p \in Actor : at[p] \in {"query", "answer"} => status[on[p]] # "absent"
    /\ \A p \in Actor : at[p] = "answer" =>
           /\ got[p] = "timeout" => left[on[p]] = 0
           /\ got[p] \in Outcome => target[on[p]] = got[p]
    /\ VerdictIsTrue

\* A registered wait stays registered, and its deadline stays over.
LEMMA DeadlineStaysOver ==
    ASSUME TypeOK, [Next]_recordVars, NEW w \in Wait, status[w] # "absent"
    PROVE  status'[w] # "absent" /\ (left[w] = 0 => left'[w] = 0)
  <1> DEFINE Goal == status'[w] # "absent" /\ (left[w] = 0 => left'[w] = 0)
  <1> USE DEF TypeOK
  <1>1. CASE Tick \/ UNCHANGED recordVars
      BY <1>1 DEF Tick, recordVars
  <1>2. ASSUME NEW v \in Wait, Transition(v) PROVE Goal
    <2>1. CASE \/ LookForRecord(v) \/ Register(v)
               \/ Observe(v) \/ UpdateMetadata(v)
        BY <2>1 DEF LookForRecord, Register, Observe, UpdateMetadata
    <2>2. ASSUME NEW r \in Result, Complete(v, r) PROVE Goal
        BY <2>2 DEF Complete
    <2>3. CASE ClaimNotification(v) \/ RepairNotification(v)
        BY <2>3 DEF ClaimNotification, RepairNotification
    <2>4. ASSUME NEW end \in {"resumed", "notify_failed"},
                 FinishNotification(v, end)
          PROVE  Goal
        BY <2>4 DEF FinishNotification
    <2>5. ASSUME NEW e \in Event, ClaimObservation(v, e) PROVE Goal
        BY <2>5 DEF ClaimObservation
    <2>6. CASE ClaimHeartbeat(v) \/ ExpireReady(v) \/ MarkResumed(v)
        BY <2>6 DEF ClaimHeartbeat, ExpireReady, MarkResumed
    <2> QED BY <1>2, <2>1, <2>2, <2>3, <2>4, <2>5, <2>6 DEF Transition
  <1> QED BY <1>1, <1>2 DEF Next

\* A step that decides no wait and brings processes none but true answers.
Honest ==
    /\ result' = result
    /\ \A w \in Wait : target'[w] = target[w] \/ target[w] = "running"
    /\ \A p \in Actor : at'[p] \in {"query", "answer"} =>
           \/ at'[p] = at[p] /\ on'[p] = on[p] /\ got'[p] = got[p]
           \/ /\ status'[on'[p]] # "absent"
              /\ at'[p] = "answer" =>
                     /\ got'[p] = "timeout" => left'[on'[p]] = 0
                     /\ got'[p] \in Outcome => target'[on'[p]] = got'[p]

LEMMA HonestKeeps ==
    ASSUME IInv, UndecidedBefore, Verdicts, [Next]_recordVars, Honest
    PROVE  Verdicts'
  <1> USE RegistryAssumption, DeliveryAssumption
  <1>1. \A p \in Actor : at[p] \in {"query", "answer"} => on[p] \in Wait
      BY DEF IInv, Places
  <1>2. (\A p \in Actor : at[p] \in {"query", "answer"} => status[on[p]] # "absent")'
      BY <1>1, DeadlineStaysOver DEF Verdicts, Honest, IInv
  <1>3. ASSUME NEW p \in Actor, at'[p] = "answer"
        PROVE  /\ got'[p] = "timeout" => left'[on'[p]] = 0
               /\ got'[p] \in Outcome => target'[on'[p]] = got'[p]
    <2>1. CASE at'[p] = at[p] /\ on'[p] = on[p] /\ got'[p] = got[p]
      <3>1. on[p] \in Wait /\ status[on[p]] # "absent"
          BY <1>1, <1>3, <2>1 DEF Verdicts
      <3>2. left[on[p]] = 0 => left'[on[p]] = 0
          BY <3>1, DeadlineStaysOver DEF IInv
      <3>3. target'[on[p]] = target[on[p]] \/ target[on[p]] = "running"
          BY <3>1 DEF Honest
      <3> QED BY <1>3, <2>1, <3>2, <3>3 DEF Verdicts
    <2>2. CASE ~(at'[p] = at[p] /\ on'[p] = on[p] /\ got'[p] = got[p])
        BY <1>3, <2>2 DEF Honest
    <2> QED BY <2>1, <2>2
  <1>4. ASSUME NEW w \in Wait
        PROVE  /\ result'[w] = "timeout" => left'[w] = 0
               /\ result'[w] \in Outcome => target'[w] = result'[w]
    <2>1. CASE result[w] \in Result
      <3>1. status[w] # "absent"
          BY <2>1 DEF UndecidedBefore
      <3>2. left[w] = 0 => left'[w] = 0
          BY <3>1, DeadlineStaysOver DEF IInv
      <3> QED BY <3>2 DEF Honest, Verdicts, VerdictIsTrue
    <2>2. CASE result[w] \notin Result
        BY <2>2 DEF Honest
    <2> QED BY <2>1, <2>2
  <1> QED BY <1>2, <1>3, <1>4 DEF Verdicts, VerdictIsTrue

LEMMA WorkKeepsVerdicts ==
    ASSUME IInv, Places', DeliveryTypeOK, UndecidedBefore, Verdicts,
           [Next]_recordVars, NEW p \in Actor, Work(p)
    PROVE  Verdicts'
  <1> USE RegistryAssumption, DeliveryAssumption DEF DeliveryTypeOK
  <1>1. CASE Query(p)
    <2>1. on[p] \in Wait /\ status[on[p]] # "absent" /\ at[p] = "query"
        BY <1>1 DEF Query, IInv, Places, Verdicts
    <2>2. PICK a \in {target[on[p]], "error"} : got' = [got EXCEPT ![p] = a]
        BY <1>1 DEF Query
    <2>3. /\ at' = [at EXCEPT ![p] = "answer"] /\ on' = on /\ target' = target
          /\ status' = status /\ left' = left /\ result' = result
        BY <1>1 DEF Query, recordVars
    <2>4. a # "timeout" /\ (a \in Outcome => target[on[p]] = a)
        BY <2>1, <2>2
    <2>5. Honest
        BY <2>1, <2>2, <2>3, <2>4 DEF Honest
    <2> QED BY <2>5, HonestKeeps
  <1>2. CASE ApplyVerdict(p)
    <2>1. /\ on[p] \in Wait /\ at[p] = "answer" /\ got[p] \in Result
          /\ on' = on /\ got' = got /\ target' = target
          /\ \A q \in Actor : q # p => at'[q] = at[q]
          /\ at'[p] \notin {"query", "answer"}
        BY <1>2 DEF ApplyVerdict, Returned, Home, IInv, Places
    <2>2. CASE result' = result
      <3>1. Honest
          BY <2>1, <2>2 DEF Honest
      <3> QED BY <3>1, HonestKeeps
    <2>3. CASE result' # result
      <3>1. Complete(on[p], got[p])
          BY <1>2, <2>3 DEF ApplyVerdict, recordVars
      <3>2. /\ result' = [result EXCEPT ![on[p]] = got[p]] /\ left' = left
            /\ status' = [status EXCEPT ![on[p]] = "ready"]
          BY <3>1 DEF Complete
      <3>3. /\ got[p] = "timeout" => left[on[p]] = 0
            /\ got[p] \in Outcome => target[on[p]] = got[p]
          BY <2>1 DEF Verdicts
      <3>4. \A q \in Actor : at'[q] \in {"query", "answer"} =>
                on[q] \in Wait /\ at'[q] = at[q] /\ status[on[q]] # "absent"
          BY <2>1 DEF IInv, Places, Verdicts
      <3>5. \A w \in Wait : /\ result'[w] = IF w = on[p] THEN got[p] ELSE result[w]
                            /\ status'[w] = IF w = on[p] THEN "ready" ELSE status[w]
          BY <2>1, <3>2 DEF IInv, TypeOK
      <3>6. VerdictIsTrue'
          BY <2>1, <3>2, <3>3, <3>5 DEF Verdicts, VerdictIsTrue
      <3>7. \A q \in Actor : at'[q] \in {"query", "answer"} => status'[on[q]] # "absent"
          BY <3>4, <3>5
      <3> QED BY <2>1, <3>2, <3>4, <3>6, <3>7 DEF Verdicts
    <2> QED BY <2>2, <2>3
  <1>3. CASE ApplyRunning(p)
    <2>1. /\ on[p] \in Wait /\ at[p] = "answer" /\ on' = on /\ target' = target
          /\ result' = result /\ left' = left /\ status' = status
        BY <1>3 DEF ApplyRunning, Observe, recordVars, IInv, Places
    <2>2. status'[on[p]] # "absent"
        BY <2>1 DEF Verdicts
    <2>3. CASE left[on[p]] = 0
      <3>1. got' = [got EXCEPT ![p] = "timeout"] /\ at' = at
          BY <1>3, <2>3 DEF ApplyRunning, Expired
      <3>2. Honest
          BY <2>1, <2>2, <2>3, <3>1 DEF Honest
      <3> QED BY <3>2, HonestKeeps
    <2>4. CASE left[on[p]] # 0
      <3>1. got' = got /\ \A q \in Actor : q # p => at'[q] = at[q]
          BY <1>3, <2>4 DEF ApplyRunning, Expired, Returned
      <3>2. at'[p] \notin {"query", "answer"}
          BY <1>3, <2>4 DEF ApplyRunning, Expired, Returned, Home
      <3>3. Honest
          BY <2>1, <3>1, <3>2 DEF Honest
      <3> QED BY <3>3, HonestKeeps
    <2> QED BY <2>3, <2>4
  <1>4. CASE Settle(p) \/ Claim(p) \/ SkipClaim(p) \/ CallServer(p) \/ FinishCall(p)
    <2>1. result' = result /\ target' = target
      <3>1. CASE Settle(p) \/ Claim(p)
          BY <3>1 DEF Settle, Claim, ClaimObservation, ClaimNotification, recordVars
      <3>2. CASE SkipClaim(p) \/ CallServer(p) \/ FinishCall(p)
          BY <3>2 DEF SkipClaim, CallServer, FinishCall, FinishNotification, recordVars
      <3> QED BY <1>4, <3>1, <3>2
    <2>2. /\ on' = on
          /\ \A q \in Actor : q # p => at'[q] = at[q] /\ got'[q] = got[q]
        BY <1>4 DEF Settle, Claim, SkipClaim, CallServer, FinishCall, Return
    <2>3. at'[p] \notin {"query", "answer"}
      <3>1. CASE Settle(p) \/ Claim(p)
          BY <3>1 DEF Settle, Claim, Home
      <3>2. CASE SkipClaim(p) \/ CallServer(p) \/ FinishCall(p)
          BY <3>2 DEF SkipClaim, CallServer, FinishCall, Return
      <3> QED BY <1>4, <3>1, <3>2
    <2>4. Honest
        BY <2>1, <2>2, <2>3 DEF Honest
    <2> QED BY <2>4, HonestKeeps
  <1> QED BY <1>1, <1>2, <1>3, <1>4 DEF Work

LEMMA LoopIsHonest ==
    ASSUME IInv, Places', DeliveryTypeOK, UndecidedBefore, Verdicts,
           (DaemonStep /\ ~Work(Daemon)) \/ \E p \in Watcher : WatchRound(p)
    PROVE  Honest
  <1> USE DeliveryAssumption DEF DeliveryTypeOK, recordVars, Actor
  <1>1. CASE BeginPass \/ NextPhase \/ EndPass \/ IdleExit
      BY <1>1 DEF BeginPass, NextPhase, EndPass, IdleExit, DaemonGoes, Honest
  <1>2. ASSUME NEW w \in Wait, SweepNext(w) PROVE Honest
    <2>1. CASE status[w] = "pending" /\ BeginPoll(Daemon, w)
      <3>1. /\ on' = [on EXCEPT ![Daemon] = w] /\ UNCHANGED recordVars
            /\ target' = target
            /\ \A q \in Actor : q # Daemon => at'[q] = at[q] /\ got'[q] = got[q]
          BY <1>2, <2>1 DEF SweepNext, BeginPoll
      <3>2. at'[Daemon] = "answer" => got'[Daemon] = "timeout" /\ left[w] = 0
          BY <2>1 DEF BeginPoll, Expired
      <3> QED BY <2>1, <3>1, <3>2 DEF Honest
    <2>2. CASE UNCHANGED procVars
        BY <1>2, <2>2 DEF SweepNext, Honest
    <2> QED BY <1>2, <2>1, <2>2 DEF SweepNext
  <1>3. ASSUME NEW w \in Wait, RepairNext(w) \/ MarkNext(w) PROVE Honest
      BY <1>3 DEF RepairNext, MarkNext, RepairNotification, UpdateMetadata, Honest
  <1>4. ASSUME NEW w \in Wait, ResumeNext(w) PROVE Honest
      BY <1>4 DEF ResumeNext, Honest
  <1>5. ASSUME NEW p \in Watcher, WatchRound(p) PROVE Honest
    <2>1. CASE UpdateMetadata(on[p]) /\ BeginPoll(p, on[p])
      <3>1. /\ on' = [on EXCEPT ![p] = on[p]] /\ target' = target
            /\ result' = result /\ left' = left /\ status' = status
            /\ status[on[p]] = "pending"
            /\ \A q \in Actor : q # p => at'[q] = at[q] /\ got'[q] = got[q]
          BY <1>5, <2>1 DEF WatchRound, BeginPoll, UpdateMetadata
      <3>2. at'[p] = "answer" => got'[p] = "timeout" /\ left[on[p]] = 0
          BY <2>1 DEF BeginPoll, Expired
      <3> QED BY <3>1, <3>2 DEF Honest
    <2>2. CASE Ready(on[p]) /\ Move(p, "rewake") /\ UNCHANGED <<recordVars, on, got>>
        BY <1>5, <2>2 DEF WatchRound, Honest
    <2> QED BY <1>5, <2>1, <2>2 DEF WatchRound
  <1> QED BY <1>1, <1>2, <1>3, <1>4, <1>5 DEF DaemonStep

LEMMA WorldIsHonest ==
    ASSUME IInv, Places', DeliveryTypeOK, UndecidedBefore, Verdicts,
           \/ \E w \in Wait : CommandStep(w) \/ \E o \in Outcome : TargetEnds(w, o)
           \/ \E p \in Actor : Crash(p)
           \/ TimePasses
           \/ UNCHANGED vars
    PROVE  Honest
  <1> USE DeliveryAssumption DEF DeliveryTypeOK, recordVars, Actor
  <1>1. ASSUME NEW w \in Wait, CommandStep(w) PROVE Honest
    <2>1. CASE RegisterWait(w)
        BY <2>1 DEF RegisterWait, LookForRecord, Register, Honest
    <2>2. CASE Maintain(w)
        BY <2>2 DEF Maintain, ClaimHeartbeat, ExpireReady, RepairNotification, MarkResumed, Honest
    <2>3. CASE LaunchDaemon(w)
        BY <2>3 DEF LaunchDaemon, Honest
    <2>4. ASSUME NEW p \in Watcher, LaunchWatcher(p, w) PROVE Honest
        BY <2>4 DEF LaunchWatcher, Honest
    <2> QED BY <1>1, <2>1, <2>2, <2>3, <2>4 DEF CommandStep
  <1>2. ASSUME NEW w \in Wait, NEW o \in Outcome, TargetEnds(w, o) PROVE Honest
      BY <1>2 DEF TargetEnds, Honest
  <1>3. ASSUME NEW p \in Actor, Crash(p) PROVE Honest
      BY <1>3 DEF Crash, Honest
  <1>4. CASE TimePasses \/ UNCHANGED vars
      BY <1>4 DEF TimePasses, Tick, Honest, vars
  <1> QED BY <1>1, <1>2, <1>3, <1>4

LEMMA StepKeepsVerdicts ==
    IInv /\ IInv' /\ DeliveryTypeOK /\ RegistryInv /\ Verdicts /\ [DeliveryNext]_vars
        => Verdicts'
  <1> SUFFICES ASSUME IInv, Places', DeliveryTypeOK, UndecidedBefore, Verdicts,
                      [DeliveryNext]_vars
               PROVE  Verdicts'
      BY DEF IInv, RegistryInv
  <1>1. [Next]_recordVars
      BY StepIsRegistryStep DEF IInv
  <1>2. ASSUME NEW p \in Actor, Work(p) PROVE Verdicts'
      BY <1>1, <1>2, WorkKeepsVerdicts
  <1>3. CASE (DaemonStep /\ ~Work(Daemon)) \/ \E p \in Watcher : WatchRound(p)
      BY <1>1, <1>3, LoopIsHonest, HonestKeeps
  <1>4. CASE \/ \E w \in Wait : CommandStep(w) \/ \E o \in Outcome : TargetEnds(w, o)
             \/ \E p \in Actor : Crash(p)
             \/ TimePasses
             \/ UNCHANGED vars
      BY <1>1, <1>4, WorldIsHonest, HonestKeeps
  <1>5. CASE DaemonStep
      BY <1>2, <1>3, <1>5 DEF Actor
  <1>6. ASSUME NEW p \in Watcher, WatcherStep(p) PROVE Verdicts'
    <2>1. CASE Work(p)
        BY <1>2, <2>1 DEF Actor
    <2>2. CASE WatchRound(p)
        BY <1>3, <2>2
    <2> QED BY <1>6, <2>1, <2>2 DEF WatcherStep
  <1> QED BY <1>4, <1>5, <1>6 DEF DeliveryNext

\* A verdict in a record is true of its target and a timeout comes after the
\* deadline, although each was read long before it was written.
THEOREM VerdictsAreTrue == DeliverySpec => []VerdictIsTrue
  <1>1. DeliveryInit => Verdicts
      BY RegistryAssumption, DeliveryAssumption
         DEF DeliveryInit, Init, Verdicts, VerdictIsTrue
  <1>2. DeliverySpec => []RegistryInv
      BY DeliveryUsesRegistry, RegistryInductive, PTL
  <1>3. Verdicts => VerdictIsTrue
      BY DEF Verdicts
  <1> QED BY <1>1, <1>2, <1>3, StepKeepsVerdicts, InductiveInvariant, DeliveryTyped,
             PTL DEF DeliverySpec

=============================================================================
