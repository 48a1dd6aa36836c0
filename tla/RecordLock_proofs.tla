-------------------------- MODULE RecordLock_proofs --------------------------
(***************************************************************************)
(* What the record lock promises for every number of processes and every   *)
(* choice of the timing constants.  The invariant follows the lock file:    *)
(* until two breakers race or a holder overstays, a holder's file is its    *)
(* own and too young to break, and a process about to unlink has an old     *)
(* file in front of it, so nobody is inside.                                *)
(***************************************************************************)
EXTENDS RecordLock, TLAPS

\* A live holder's file is its own, and too young to be broken.
HolderOwnsFile ==
    \A p \in Proc :
        pc[p] = "holding" => owner = p /\ age =< held[p] /\ held[p] =< LockStale

\* A breaker that has judged the file still has that stale file before it.
BreakerSeesStaleFile == \A p \in Proc : pc[p] = "unlink" => Stale

\* There is at most one breaker.
OneBreaker ==
    \A p, q \in Proc : pc[p] = "unlink" /\ pc[q] = "unlink" => p = q

Undisturbed == ~disturbed => HolderOwnsFile /\ BreakerSeesStaleFile /\ OneBreaker

IInv == TypeOK /\ Undisturbed

\* Initially every process is idle, nothing is locked and the clocks are zero.
LEMMA InitTypeOK == Init => TypeOK
<1> USE LockAssumption DEF Init, TypeOK, Locations, OldestAge
<1>1. Init => disturbed \in BOOLEAN
  OBVIOUS
<1>2. Init => /\ pc \in [Proc -> Locations]
              /\ left \in [Proc -> 0..LockWait]
              /\ owner \in Proc \union {NoProc}
              /\ age \in 0..OldestAge
              /\ held \in [Proc -> 0..MaxHold]
              /\ crashes \in 0..MaxCrashes
  OBVIOUS
<1> QED BY <1>1, <1>2

\* Type correctness of the lock: every action keeps each process at a line of
\* wait_record_lock and every clock inside its bound.
THEOREM TypeCorrect == Spec => []TypeOK
<1> USE LockAssumption
<1>1. TypeOK /\ [Next]_lockVars => TypeOK'
  <2> SUFFICES ASSUME TypeOK, [Next]_lockVars PROVE TypeOK'
    OBVIOUS
  <2> USE DEF TypeOK, Locations, OldestAge, Goto
  <2>1. CASE Tick
    BY <2>1 DEF Tick
  <2>2. ASSUME NEW p \in Proc, Step(p) PROVE TypeOK'
    <3>1. CASE Enter(p)
      BY <3>1 DEF Enter
    <3>2. CASE Acquire(p) \/ Collide(p) \/ StatFresh(p)
      BY <3>2 DEF Acquire, Collide, StatFresh
    <3>3. CASE StatStale(p)
      <4>1. disturbed' \in BOOLEAN
        BY <3>3 DEF StatStale
      <4>2. /\ pc' \in [Proc -> Locations]
            /\ UNCHANGED <<left, owner, age, held, crashes>>
        BY <3>3 DEF StatStale
      <4> QED BY <4>1, <4>2
    <3>4. CASE BreakStale(p) \/ GiveUp(p) \/ Retry(p)
      BY <3>4 DEF BreakStale, GiveUp, Retry
    <3>5. CASE Release(p) \/ Recover(p) \/ Restart(p)
      BY <3>5 DEF Release, Recover, Restart
    <3>6. CASE Crash(p)
      BY <3>6 DEF Crash
    <3> QED BY <2>2, <3>1, <3>2, <3>3, <3>4, <3>5, <3>6 DEF Step, LoopStep
  <2>3. CASE UNCHANGED lockVars
    BY <2>3 DEF lockVars
  <2> QED BY <2>1, <2>2, <2>3 DEF Next
<1> QED BY InitTypeOK, <1>1, PTL DEF Spec

\* One step keeps the file-following invariant.
LEMMA UndisturbedStep ==
    TypeOK /\ TypeOK' /\ Undisturbed /\ [Next]_lockVars => Undisturbed'
<1> USE LockAssumption
<1> SUFFICES ASSUME TypeOK, TypeOK', Undisturbed, [Next]_lockVars, ~disturbed'
             PROVE (HolderOwnsFile /\ BreakerSeesStaleFile /\ OneBreaker)'
  BY DEF Undisturbed
<1> USE DEF TypeOK, HolderOwnsFile, BreakerSeesStaleFile, OneBreaker, Stale,
            OldestAge, Goto
<1>0. disturbed' = disturbed \/ \E p \in Proc : StatStale(p)
  BY DEF Next, Step, LoopStep, Tick, Enter, Acquire, Collide, StatFresh,
         BreakStale, GiveUp, Retry, Release, Recover, Crash, Restart, lockVars
<1>1. ~disturbed
  BY <1>0 DEF StatStale
<1>2. HolderOwnsFile /\ BreakerSeesStaleFile /\ OneBreaker
  BY <1>1 DEF Undisturbed
<1>3. CASE Tick
  <2>1. \A p \in Proc : ~(held'[p] > LockStale)
    BY <1>3 DEF Tick
  <2> QED BY <1>2, <1>3, <2>1 DEF Tick
<1>4. ASSUME NEW p \in Proc, Step(p)
      PROVE (HolderOwnsFile /\ BreakerSeesStaleFile /\ OneBreaker)'
  <2>1. CASE Enter(p)
    BY <1>2, <2>1 DEF Enter
  <2>2. CASE Acquire(p)
    BY <1>2, <2>2 DEF Acquire
  <2>3. CASE StatStale(p)
    BY <1>2, <2>3 DEF StatStale
  <2>4. CASE BreakStale(p)
    BY <1>2, <2>4 DEF BreakStale
  <2>5. CASE Release(p)
    BY <1>2, <2>5 DEF Release
  <2>6. CASE Collide(p) \/ StatFresh(p) \/ GiveUp(p) \/ Retry(p)
    BY <1>2, <2>6 DEF Collide, StatFresh, GiveUp, Retry
  <2>7. CASE Recover(p) \/ Restart(p) \/ Crash(p)
    BY <1>2, <2>7 DEF Recover, Restart, Crash
  <2> QED BY <1>4, <2>1, <2>2, <2>3, <2>4, <2>5, <2>6, <2>7 DEF Step, LoopStep
<1>5. CASE UNCHANGED lockVars
  BY <1>2, <1>5 DEF lockVars
<1> QED BY <1>3, <1>4, <1>5 DEF Next

\* The inductive invariant holds in every reachable state.
LEMMA InductiveInvariant == Spec => []IInv
<1>1. Init => IInv
  BY InitTypeOK DEF IInv, Init, Undisturbed, HolderOwnsFile,
     BreakerSeesStaleFile, OneBreaker
<1>2. IInv /\ TypeOK' /\ [Next]_lockVars => IInv'
  BY UndisturbedStep DEF IInv
<1> QED BY <1>1, <1>2, TypeCorrect, PTL DEF Spec

\* wait_record_lock serializes the transitions of a record until two breakers
\* are between the stat and the unlink of the same stale file.
THEOREM SerializedTransitions == Spec => []Serialized
<1>1. IInv => Serialized
  BY DEF IInv, Undisturbed, HolderOwnsFile, Serialized,
         MutualExclusion, Holding
<1> QED BY <1>1, InductiveInvariant, PTL

\* Until then nobody removes a file that a live process relies on: the
\* finally clause unlinks its own file, a breaker a dead process's.
THEOREM DeadFilesOnly == Spec => OnlyDeadFilesBroken
<1>1. IInv /\ [Next]_lockVars =>
        [\A p \in Proc :
            /\ Release(p) /\ ~disturbed => owner = p
            /\ BreakStale(p) /\ ~disturbed => owner \notin Holding]_lockVars
  <2> SUFFICES ASSUME IInv, NEW p \in Proc, ~disturbed
               PROVE /\ Release(p) => owner = p
                     /\ BreakStale(p) => owner \notin Holding
    OBVIOUS
  <2> USE LockAssumption DEF IInv, TypeOK, Undisturbed,
          HolderOwnsFile, Goto
  <2>1. Release(p) => owner = p
    BY DEF Release
  <2>2. BreakStale(p) => owner \notin Holding
    BY DEF BreakStale, BreakerSeesStaleFile, Stale, Holding, OldestAge
  <2> QED BY <2>1, <2>2
<1> QED BY <1>1, InductiveInvariant, PTL DEF Spec, OnlyDeadFilesBroken

=============================================================================
