------------------------- MODULE VerifyLock_proofs -------------------------
(***************************************************************************)
(* Proofs about the verifier lock, for any number of verifiers, states of   *)
(* the repository and timing constants.                                     *)
(***************************************************************************)
EXTENDS VerifyLock, TLAPS

\* As long as no run outlives the stale bound and no two waiters break one
\* file, the lock file is the running verifier's own; one that is stale, and
\* any that a waiter is about to unlink, was left by somebody who died.
OwnFile ==
    \/ overstayed
    \/ raced
    \/ /\ \A p \in Proc : Inside(p) => lock = p
       /\ lock # None /\ age > Stale => ~Inside(lock)
       /\ \A p \in Proc : pc[p] = "unlink" => lock # None /\ age > Stale

\* Past its first line a verifier has a fingerprint to file its outcome under.
Printed == \A p \in Proc : pc[p] # "start" => print[p] \in Tree

\* A verifier that looks for the lock has read an outcome of its own state.
Matched == \A p \in Proc : pc[p] = "exists" => seen[p].print = print[p]

\* As long as nobody edits under a verifier, fingerprints are those of the
\* repository and outcomes are about what they are filed under.
Faithful ==
    \/ strayed
    \/ /\ \A p \in Proc : Waiting(p) \/ pc[p] = "check" => print[p] = tree
       /\ \A p \in Proc : pc[p] \in {"exists", "truncate", "fill"}
                             => seen[p].of = seen[p].print
       /\ result.of = result.print

IInv == TypeOK /\ Printed /\ Matched /\ Faithful /\ OwnFile

LEMMA InitIInv == Init => IInv
  <1> SUFFICES ASSUME Init PROVE IInv
      OBVIOUS
  <1> USE VerifyAssumption DEF Init
  <1>1. TypeOK
    <2>1. /\ age \in 0..(Stale + 1)
          /\ waited \in [Proc -> 0..LockWait]
          /\ edits \in 0..MaxEdits
          /\ crashes \in 0..MaxCrashes
        OBVIOUS
    <2>2. /\ lock \in Proc \union {None}
          /\ result \in Record \union {NoRecord}
          /\ pc \in [Proc -> Lines]
          /\ print \in [Proc -> Tree \union {None}]
          /\ seen \in [Proc -> Record \union {NoRecord}]
        BY DEF Lines, NoRecord
    <2>3. tree \in Tree /\ overstayed \in BOOLEAN /\ strayed \in BOOLEAN
        OBVIOUS
    <2> QED BY <2>1, <2>2, <2>3 DEF TypeOK
  <1>2. OwnFile
      BY DEF OwnFile, Inside
  <1>3. Printed
      BY DEF Printed
  <1>4. Matched
      BY DEF Matched
  <1>5. Faithful
      BY DEF Faithful, Waiting, NoRecord
  <1> QED BY <1>1, <1>2, <1>3, <1>4, <1>5 DEF IInv

LEMMA StepTypeOK == TypeOK /\ Printed /\ [Next]_vars => TypeOK'
  <1> SUFFICES ASSUME TypeOK, Printed, [Next]_vars PROVE TypeOK'
      OBVIOUS
  <1> USE VerifyAssumption DEF TypeOK, Lines, Record, NoRecord
  <1>1. ASSUME NEW p \in Proc, Verify(p) PROVE TypeOK'
    <2> USE DEF Goto, Top
    <2>1. CASE Fingerprint(p)
        BY <2>1 DEF Fingerprint
    <2>2. CASE ReadResult(p)
        BY <2>2 DEF ReadResult
    <2>3. CASE LookForLock(p)
        BY <2>3 DEF LookForLock
    <2>4. CASE TryAcquire(p)
        BY <2>4 DEF TryAcquire
    <2>5. CASE StatLock(p)
        BY <2>5 DEF StatLock
    <2>6. CASE UnlinkStale(p)
        BY <2>6 DEF UnlinkStale
    <2>7. CASE CheckDeadline(p)
        BY <2>7 DEF CheckDeadline
    <2>8. CASE RunChecks(p)
        BY <2>8 DEF RunChecks, Printed
    <2>9. CASE Abandon(p)
        BY <2>9 DEF Abandon
    <2>10. CASE TruncateResult(p)
        BY <2>10 DEF TruncateResult
    <2>11. CASE FillResult(p)
        BY <2>11 DEF FillResult
    <2>12. CASE Release(p)
        BY <2>12 DEF Release
    <2> QED BY <1>1, <2>1, <2>2, <2>3, <2>4, <2>5, <2>6, <2>7, <2>8, <2>9,
               <2>10, <2>11, <2>12 DEF Verify
  <1>2. ASSUME NEW p \in Proc, Crash(p) PROVE TypeOK'
      BY <1>2 DEF Crash, Goto
  <1>3. ASSUME NEW t \in Tree, Edit(t) PROVE TypeOK'
      BY <1>3 DEF Edit, runVars
  <1>4. CASE Tick
      BY <1>4 DEF Tick, Longer, Waiting
  <1>5. CASE UNCHANGED vars
      BY <1>5 DEF vars, runVars
  <1> QED BY <1>1, <1>2, <1>3, <1>4, <1>5 DEF Next

LEMMA StepPrinted == TypeOK /\ Printed /\ [Next]_vars => Printed'
  <1> SUFFICES ASSUME TypeOK, Printed, [Next]_vars PROVE Printed'
      OBVIOUS
  <1> USE DEF TypeOK, Printed
  <1>1. ASSUME NEW p \in Proc, Verify(p) PROVE Printed'
      BY <1>1 DEF Verify, Fingerprint, ReadResult, LookForLock, TryAcquire,
                  StatLock, UnlinkStale, CheckDeadline, RunChecks, Abandon,
                  TruncateResult, FillResult, Release, Goto
  <1>2. ASSUME NEW p \in Proc, Crash(p) PROVE Printed'
      BY <1>2 DEF Crash, Goto
  <1>3. ASSUME NEW t \in Tree, Edit(t) PROVE Printed'
      BY <1>3 DEF Edit, runVars
  <1>4. CASE Tick
      BY <1>4 DEF Tick
  <1>5. CASE UNCHANGED vars
      BY <1>5 DEF vars, runVars
  <1> QED BY <1>1, <1>2, <1>3, <1>4, <1>5 DEF Next

LEMMA StepMatched == TypeOK /\ Matched /\ [Next]_vars => Matched'
  <1> SUFFICES ASSUME TypeOK, Matched, [Next]_vars PROVE Matched'
      OBVIOUS
  <1> USE DEF TypeOK, Matched
  <1>1. ASSUME NEW p \in Proc, Verify(p) PROVE Matched'
      BY <1>1 DEF Verify, Fingerprint, ReadResult, LookForLock, TryAcquire,
                  StatLock, UnlinkStale, CheckDeadline, RunChecks, Abandon,
                  TruncateResult, FillResult, Release, Goto, Top
  <1>2. ASSUME NEW p \in Proc, Crash(p) PROVE Matched'
      BY <1>2 DEF Crash, Goto
  <1>3. ASSUME NEW t \in Tree, Edit(t) PROVE Matched'
      BY <1>3 DEF Edit, runVars
  <1>4. CASE Tick
      BY <1>4 DEF Tick
  <1>5. CASE UNCHANGED vars
      BY <1>5 DEF vars, runVars
  <1> QED BY <1>1, <1>2, <1>3, <1>4, <1>5 DEF Next

LEMMA StepFaithful == TypeOK /\ Faithful /\ [Next]_vars => Faithful'
  <1> SUFFICES ASSUME TypeOK, Faithful, [Next]_vars PROVE Faithful'
      OBVIOUS
  <1> USE DEF TypeOK, Faithful, Waiting, Record, NoRecord
  <1>1. ASSUME NEW p \in Proc, Verify(p) PROVE Faithful'
    <2> USE DEF Goto, Top
    <2>1. CASE Fingerprint(p)
        BY <2>1 DEF Fingerprint
    <2>2. CASE ReadResult(p)
        BY <2>2 DEF ReadResult
    <2>3. CASE LookForLock(p)
        BY <2>3 DEF LookForLock
    <2>4. CASE TryAcquire(p)
        BY <2>4 DEF TryAcquire
    <2>5. CASE StatLock(p)
        BY <2>5 DEF StatLock
    <2>6. CASE UnlinkStale(p)
        BY <2>6 DEF UnlinkStale
    <2>7. CASE CheckDeadline(p)
        BY <2>7 DEF CheckDeadline
    <2>8. CASE RunChecks(p)
        BY <2>8 DEF RunChecks
    <2>9. CASE Abandon(p)
        BY <2>9 DEF Abandon
    <2>10. CASE TruncateResult(p)
        BY <2>10 DEF TruncateResult
    <2>11. CASE FillResult(p)
        BY <2>11 DEF FillResult
    <2>12. CASE Release(p)
        BY <2>12 DEF Release
    <2> QED BY <1>1, <2>1, <2>2, <2>3, <2>4, <2>5, <2>6, <2>7, <2>8, <2>9,
               <2>10, <2>11, <2>12 DEF Verify
  <1>2. ASSUME NEW p \in Proc, Crash(p) PROVE Faithful'
      BY <1>2 DEF Crash, Goto
  <1>3. ASSUME NEW t \in Tree, Edit(t) PROVE Faithful'
      BY <1>3 DEF Edit, runVars
  <1>4. CASE Tick
      BY <1>4 DEF Tick
  <1>5. CASE UNCHANGED vars
      BY <1>5 DEF vars, runVars
  <1> QED BY <1>1, <1>2, <1>3, <1>4, <1>5 DEF Next

LEMMA StepOwnFile == IInv /\ [Next]_vars => OwnFile'
  <1> SUFFICES ASSUME IInv, [Next]_vars PROVE OwnFile'
      OBVIOUS
  <1> USE VerifyAssumption DEF IInv, OwnFile, Inside, TypeOK
  <1>1. ASSUME NEW p \in Proc, Verify(p) PROVE OwnFile'
    <2> USE DEF Goto, Top
    <2>1. CASE Fingerprint(p)
        BY <2>1 DEF Fingerprint
    <2>2. CASE ReadResult(p)
        BY <2>2 DEF ReadResult
    <2>3. CASE LookForLock(p)
        BY <2>3 DEF LookForLock
    <2>4. CASE TryAcquire(p)
        BY <2>4 DEF TryAcquire
    <2>5. CASE StatLock(p)
        BY <2>5 DEF StatLock, IsStale
    <2>6. CASE UnlinkStale(p)
        BY <2>6 DEF UnlinkStale
    <2>7. CASE CheckDeadline(p)
        BY <2>7 DEF CheckDeadline
    <2>8. CASE RunChecks(p)
        BY <2>8 DEF RunChecks
    <2>9. CASE Abandon(p)
        BY <2>9 DEF Abandon
    <2>10. CASE TruncateResult(p)
        BY <2>10 DEF TruncateResult
    <2>11. CASE FillResult(p)
        BY <2>11 DEF FillResult
    <2>12. CASE Release(p)
        BY <2>12 DEF Release
    <2> QED BY <1>1, <2>1, <2>2, <2>3, <2>4, <2>5, <2>6, <2>7, <2>8, <2>9,
               <2>10, <2>11, <2>12 DEF Verify
  <1>2. ASSUME NEW p \in Proc, Crash(p) PROVE OwnFile'
      BY <1>2 DEF Crash, Goto
  <1>3. ASSUME NEW t \in Tree, Edit(t) PROVE OwnFile'
      BY <1>3 DEF Edit, runVars
  <1>4. CASE Tick
    <2>1. pc' = pc /\ lock' = lock /\ raced' = raced
        BY <1>4 DEF Tick
    <2>2. overstayed => overstayed'
        BY <1>4 DEF Tick
    <2>3. ~overstayed' => (lock # None /\ age' > Stale => ~Inside(lock))
        BY <1>4 DEF Tick
    <2>4. lock # None /\ age > Stale => age' > Stale
        BY <1>4 DEF Tick
    <2> QED BY <2>1, <2>2, <2>3, <2>4
  <1>5. CASE UNCHANGED vars
      BY <1>5 DEF vars, runVars
  <1> QED BY <1>1, <1>2, <1>3, <1>4, <1>5 DEF Next

LEMMA InductiveInvariant == Spec => []IInv
  <1>1. IInv /\ [Next]_vars => IInv'
      BY StepTypeOK, StepPrinted, StepMatched, StepFaithful, StepOwnFile DEF IInv
  <1> QED BY InitIInv, <1>1, PTL DEF Spec

\* Every verifier is at a line of the protocol, every clock in its bounds and
\* every outcome on file whole.
THEOREM TypeCorrect == Spec => []TypeOK
  <1>1. IInv => TypeOK
      BY DEF IInv
  <1> QED BY <1>1, InductiveInvariant, PTL

\* Runs overlap only after one outlived the stale bound or two waiters broke
\* one file: short of that the lock file alone keeps them apart, however many
\* verifiers wait, time out, reuse, are forced or die at any line.
THEOREM RunsExcludeEachOther == Spec => []RunsExclude
  <1>1. IInv => RunsExclude
      BY VerifyAssumption DEF IInv, OwnFile, TypeOK, RunsExclude, Exclusive
  <1> QED BY <1>1, InductiveInvariant, PTL

\* What is taken over is about the state of the verifier's own fingerprint,
\* unless somebody edited under a verifier, and nobody is at work on it: the
\* lock file, looked for after the outcome was read, tells.
THEOREM ReuseAtRest == Spec => ReusesAtRest
  <1> DEFINE AtRest ==
        \A p \in Proc :
            pc[p] # "reused" /\ pc'[p] = "reused" =>
                /\ strayed \/ seen[p].of = print[p]
                /\ overstayed \/ raced \/ \A q \in Proc : ~Inside(q)
  <1>1. IInv /\ [Next]_vars => AtRest
    <2> SUFFICES ASSUME IInv, [Next]_vars, NEW p \in Proc,
                        pc[p] # "reused", pc'[p] = "reused"
                 PROVE  /\ strayed \/ seen[p].of = print[p]
                        /\ overstayed \/ raced \/ \A q \in Proc : ~Inside(q)
        OBVIOUS
    <2>1. LookForLock(p)
      <3>1. PICK q \in Proc : Verify(q) \/ Crash(q)
          BY DEF Next, Tick, Edit, vars, runVars
      <3>2. ~Crash(q)
          BY DEF Crash, Goto, IInv, TypeOK
      <3> QED BY <3>1, <3>2 DEF IInv, TypeOK, Verify, Fingerprint, ReadResult,
                  LookForLock, TryAcquire, StatLock, UnlinkStale,
                  CheckDeadline, RunChecks, Abandon, TruncateResult,
                  FillResult, Release, Goto, Top
    <2>2. strayed \/ seen[p].of = print[p]
        BY <2>1 DEF LookForLock, IInv, Matched, Faithful
    <2>3. lock = None
        BY <2>1 DEF LookForLock, Goto, IInv, TypeOK
    <2>4. overstayed \/ raced \/ \A q \in Proc : ~Inside(q)
        BY <2>3, VerifyAssumption DEF IInv, OwnFile
    <2> QED BY <2>2, <2>4
  <1> QED BY <1>1, InductiveInvariant, PTL DEF Spec, ReusesAtRest

=============================================================================
