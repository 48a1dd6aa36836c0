------------------------- MODULE VerifierRuns_proofs -------------------------
(***************************************************************************)
(* Proofs about verifier runs: the detached job, for any patience of the    *)
(* child, any delay of the launcher and any number of signals and faults;   *)
(* and what runs leave behind, for any runs, checks, states of the           *)
(* repository, limits and numbers of edits, broken locks and deaths.        *)
(***************************************************************************)
EXTENDS AsyncJob, RunArtifacts, FiniteSetTheorems, SequenceTheorems, TLAPS

-----------------------------------------------------------------------------
(* What runs leave behind.  The list of snapshot directories first. *)

\* In the list s, x comes before y.
Before(s, x, y) == \E i, j \in DOMAIN s : i < j /\ s[i] = x /\ s[j] = y

LEMMA SuffixLength ==
    ASSUME NEW n \in Nat, NEW p \in 1..n
    PROVE  n - (p + 1) + 1 = n - p /\ (p + 1 =< n \/ n - p = 0)
  OBVIOUS

LEMMA WithoutAt ==
    ASSUME NEW S, NEW s \in Seq(S), IsInjective(s), NEW p \in 1..Len(s)
    PROVE  /\ Without(s, s[p]) \in Seq(S)
           /\ Len(Without(s, s[p])) = Len(s) - 1
           /\ \A i \in 1..(Len(s) - 1) :
                 Without(s, s[p])[i] = IF i < p THEN s[i] ELSE s[i + 1]
  <1> DEFINE q == s[p]
             c == CHOOSE i \in DOMAIN s : s[i] = q
  <1>1. DOMAIN s = 1..Len(s) /\ Len(s) \in Nat
      OBVIOUS
  <1>2. c = p
    <2>1. c \in DOMAIN s /\ s[c] = q
        BY <1>1
    <2> QED BY <1>1, <2>1 DEF IsInjective
  <1>3. Without(s, q) = SubSeq(s, 1, p - 1) \o SubSeq(s, p + 1, Len(s))
      BY <1>2 DEF Without, Contains, RemoveAt
  <1> DEFINE u == SubSeq(s, 1, p - 1)
             v == SubSeq(s, p + 1, Len(s))
  <1>4. /\ u \in Seq(S) /\ Len(u) = p - 1
        /\ \A i \in 1..(p - 1) : u[i] = s[i]
    <2>1. \A i \in 1..(p - 1) : s[i] \in S
        BY <1>1
    <2> QED BY <1>1, <2>1, SubSeqProperties
  <1>5. /\ v \in Seq(S) /\ Len(v) = Len(s) - p
        /\ \A i \in 1..(Len(s) - p) : v[i] = s[p + i]
    <2> DEFINE m == p + 1
               n == Len(s)
    <2>1. m \in Int /\ n \in Int /\ \A i \in m..n : s[i] \in S
        BY <1>1
    <2>2. n - m + 1 = n - p /\ (m =< n \/ n - p = 0)
        BY <1>1, SuffixLength
    <2>3. \A i \in 1..(n - p) : i \in 1..(n - m + 1) /\ m + i - 1 = p + i
        BY <1>1
    <2>4. v = SubSeq(s, m, n)
        OBVIOUS
    <2> HIDE DEF m, n, v
    <2>5. \A i \in 1..(n - m + 1) : SubSeq(s, m, n)[i] = s[m + i - 1]
        BY <2>1, SubSeqProperties
    <2>6. SubSeq(s, m, n) \in Seq(S)
        BY <2>1, SubSeqProperties
    <2>7. Len(SubSeq(s, m, n)) = IF m =< n THEN n - m + 1 ELSE 0
        BY <2>1, SubSeqProperties
    <2>8. /\ v \in Seq(S) /\ Len(v) = n - p
          /\ \A i \in 1..(n - p) : v[i] = s[p + i]
        BY <2>2, <2>3, <2>4, <2>5, <2>6, <2>7
    <2> QED BY <2>8 DEF n
  <1> HIDE DEF u, v
  <1>6. /\ u \o v \in Seq(S) /\ Len(u \o v) = Len(s) - 1
        /\ \A i \in 1..(Len(s) - 1) :
              (u \o v)[i] = IF i < p THEN u[i] ELSE v[i - (p - 1)]
    <2>1. /\ u \o v \in Seq(S) /\ Len(u \o v) = Len(u) + Len(v)
          /\ \A i \in 1..(Len(u) + Len(v)) :
                (u \o v)[i] = IF i =< Len(u) THEN u[i] ELSE v[i - Len(u)]
        BY <1>4, <1>5, ConcatProperties
    <2> QED BY <1>1, <1>4, <1>5, <2>1
  <1>7. \A i \in 1..(Len(s) - 1) : (u \o v)[i] = IF i < p THEN s[i] ELSE s[i + 1]
    <2> SUFFICES ASSUME NEW i \in 1..(Len(s) - 1)
                 PROVE  (u \o v)[i] = IF i < p THEN s[i] ELSE s[i + 1]
        OBVIOUS
    <2>1. CASE i < p
        BY <1>1, <1>4, <1>6, <2>1
    <2>2. CASE ~(i < p)
      <3>1. i - (p - 1) \in 1..(Len(s) - p) /\ p + (i - (p - 1)) = i + 1
          BY <1>1, <2>2
      <3> QED BY <1>5, <1>6, <2>2, <3>1
    <2> QED BY <2>1, <2>2
  <1>8. Without(s, q) = u \o v
      BY <1>3 DEF u, v
  <1> QED BY <1>6, <1>7, <1>8

LEMMA WithoutProperties ==
    ASSUME NEW S, NEW s \in Seq(S), IsInjective(s), NEW q
    PROVE  /\ Without(s, q) \in Seq(S) /\ IsInjective(Without(s, q))
           /\ \A x : Contains(Without(s, q), x) <=> Contains(s, x) /\ x # q
           /\ \A x, y : Before(Without(s, q), x, y) => Before(s, x, y)
  <1>1. CASE ~Contains(s, q)
      BY <1>1 DEF Without, Contains
  <1>2. CASE Contains(s, q)
    <2>1. PICK p \in 1..Len(s) : s[p] = q
        BY <1>2 DEF Contains
    <2> DEFINE t == Without(s, q)
               old(i) == IF i < p THEN i ELSE i + 1
    <2>2. /\ t \in Seq(S) /\ Len(t) = Len(s) - 1 /\ Len(s) \in Nat
          /\ DOMAIN t = 1..(Len(s) - 1) /\ DOMAIN s = 1..Len(s)
          /\ \A i \in 1..(Len(s) - 1) : t[i] = IF i < p THEN s[i] ELSE s[i + 1]
      <3>1. /\ t \in Seq(S) /\ Len(t) = Len(s) - 1
            /\ \A i \in 1..(Len(s) - 1) : t[i] = IF i < p THEN s[i] ELSE s[i + 1]
          BY <2>1, WithoutAt
      <3> QED BY <3>1
    <2> HIDE DEF t
    <2>3. \A i \in 1..(Len(s) - 1) : /\ old(i) \in 1..Len(s) /\ old(i) # p
                                     /\ t[i] = s[old(i)]
        BY <2>2
    <2>4. \A i, j \in 1..(Len(s) - 1) : /\ i < j => old(i) < old(j)
                                        /\ old(i) = old(j) => i = j
        BY <2>2
    <2>5. \A k \in 1..Len(s) : k # p => \E i \in 1..(Len(s) - 1) : old(i) = k
      <3> SUFFICES ASSUME NEW k \in 1..Len(s), k # p
                   PROVE  \E i \in 1..(Len(s) - 1) : old(i) = k
          OBVIOUS
      <3>1. CASE k < p
          BY <2>2, <3>1
      <3>2. CASE k > p
        <4>1. k - 1 \in 1..(Len(s) - 1) /\ old(k - 1) = k
            BY <2>2, <3>2
        <4> QED BY <4>1
      <3> QED BY <2>2, <3>1, <3>2
    <2> HIDE DEF old
    <2>6. IsInjective(t)
        BY <2>2, <2>3, <2>4 DEF IsInjective
    <2>7. \A x : Contains(t, x) <=> Contains(s, x) /\ x # q
      <3>1. \A x : Contains(t, x) => Contains(s, x) /\ x # q
        <4> SUFFICES ASSUME NEW i \in 1..(Len(s) - 1)
                     PROVE  Contains(s, t[i]) /\ t[i] # q
            BY <2>2 DEF Contains
        <4>1. old(i) \in 1..Len(s) /\ old(i) # p /\ t[i] = s[old(i)]
            BY <2>3
        <4> QED BY <2>1, <2>2, <4>1 DEF Contains, IsInjective
      <3>2. \A x : Contains(s, x) /\ x # q => Contains(t, x)
          BY <2>1, <2>2, <2>3, <2>5 DEF Contains
      <3> QED BY <3>1, <3>2
    <2>8. \A x, y : Before(t, x, y) => Before(s, x, y)
      <3> SUFFICES ASSUME NEW i \in DOMAIN t, NEW j \in DOMAIN t, i < j
                   PROVE  Before(s, t[i], t[j])
          BY DEF Before
      <3>1. /\ old(i) \in DOMAIN s /\ old(j) \in DOMAIN s /\ old(i) < old(j)
            /\ t[i] = s[old(i)] /\ t[j] = s[old(j)]
          BY <2>2, <2>3, <2>4
      <3> QED BY <3>1 DEF Before
    <2> QED BY <2>2, <2>6, <2>7, <2>8 DEF t
  <1> QED BY <1>1, <1>2

\* A directory put in front of the others.
LEMMA InFront ==
    ASSUME NEW S, NEW t \in Seq(S), IsInjective(t), NEW r \in S, ~Contains(t, r)
    PROVE  /\ <<r>> \o t \in Seq(S) /\ IsInjective(<<r>> \o t)
           /\ Len(<<r>> \o t) = Len(t) + 1 /\ (<<r>> \o t)[1] = r
           /\ \A x : Contains(<<r>> \o t, x) <=> Contains(t, x) \/ x = r
           /\ \A x, y : Before(<<r>> \o t, x, y) => Before(t, x, y) \/ (x = r /\ y # r)
  <1> DEFINE s == <<r>> \o t
  <1>1. /\ s \in Seq(S) /\ Len(s) = Len(t) + 1 /\ s[1] = r /\ Len(t) \in Nat
        /\ \A i \in 1..Len(t) : s[i + 1] = t[i]
        /\ DOMAIN s = 1..(Len(t) + 1) /\ DOMAIN t = 1..Len(t)
    <2>1. <<r>> \in Seq(S) /\ Len(<<r>>) = 1 /\ <<r>>[1] = r
        OBVIOUS
    <2>2. /\ s \in Seq(S) /\ Len(s) = 1 + Len(t)
          /\ \A i \in 1..(1 + Len(t)) : s[i] = IF i =< 1 THEN <<r>>[i] ELSE t[i - 1]
        BY <2>1, ConcatProperties
    <2>3. s[1] = r /\ Len(t) \in Nat
        BY <2>1, <2>2
    <2>4. \A i \in 1..Len(t) : s[i + 1] = t[i]
      <3> SUFFICES ASSUME NEW i \in 1..Len(t)  PROVE s[i + 1] = t[i]
          OBVIOUS
      <3>1. i + 1 \in 1..(1 + Len(t)) /\ ~(i + 1 =< 1) /\ (i + 1) - 1 = i
          BY <2>3
      <3> QED BY <2>2, <3>1
    <2> QED BY <2>2, <2>3, <2>4
  <1> HIDE DEF s
  <1>2. \A i \in 1..(Len(t) + 1) : i = 1 \/ (i - 1 \in 1..Len(t) /\ s[i] = t[i - 1])
    <2> SUFFICES ASSUME NEW i \in 1..(Len(t) + 1), i # 1
                 PROVE  i - 1 \in 1..Len(t) /\ s[i] = t[i - 1]
        OBVIOUS
    <2>1. i - 1 \in 1..Len(t) /\ (i - 1) + 1 = i
        BY <1>1
    <2> QED BY <1>1, <2>1
  <1>3. \A i \in 1..Len(t) : t[i] # r
      BY DEF Contains
  <1>4. IsInjective(s)
    <2> SUFFICES ASSUME NEW i \in 1..(Len(t) + 1), NEW j \in 1..(Len(t) + 1), s[i] = s[j]
                 PROVE  i = j
        BY <1>1 DEF IsInjective
    <2>1. CASE i = 1 \/ j = 1
        BY <1>1, <1>2, <1>3, <2>1
    <2>2. CASE i # 1 /\ j # 1
      <3>1. i - 1 \in DOMAIN t /\ j - 1 \in DOMAIN t /\ t[i - 1] = t[j - 1]
          BY <1>1, <1>2, <2>2
      <3> QED BY <3>1 DEF IsInjective
    <2> QED BY <2>1, <2>2
  <1>5. \A x : Contains(s, x) <=> Contains(t, x) \/ x = r
    <2>1. \A x : Contains(s, x) => Contains(t, x) \/ x = r
        BY <1>1, <1>2 DEF Contains
    <2>2. \A x : Contains(t, x) => Contains(s, x)
      <3> SUFFICES ASSUME NEW i \in 1..Len(t)  PROVE Contains(s, t[i])
          BY DEF Contains
      <3>1. i + 1 \in 1..Len(s) /\ s[i + 1] = t[i]
          BY <1>1
      <3> QED BY <3>1 DEF Contains
    <2>3. Contains(s, r)
        BY <1>1 DEF Contains
    <2> QED BY <2>1, <2>2, <2>3
  <1>6. \A x, y : Before(s, x, y) => Before(t, x, y) \/ (x = r /\ y # r)
    <2> SUFFICES ASSUME NEW i \in 1..(Len(t) + 1), NEW j \in 1..(Len(t) + 1), i < j
                 PROVE  Before(t, s[i], s[j]) \/ (s[i] = r /\ s[j] # r)
        BY <1>1 DEF Before
    <2>1. j - 1 \in 1..Len(t) /\ s[j] = t[j - 1]
        BY <1>2
    <2>2. CASE i = 1
        BY <1>1, <1>3, <2>1, <2>2
    <2>3. CASE i # 1
      <3>1. i - 1 \in 1..Len(t) /\ s[i] = t[i - 1] /\ i - 1 < j - 1
          BY <1>2, <2>3
      <3> QED BY <1>1, <2>1, <3>1 DEF Before
    <2> QED BY <2>2, <2>3
  <1> QED BY <1>1, <1>4, <1>5, <1>6 DEF s

-----------------------------------------------------------------------------
(* The types. *)

Lines == {"start", "lock", "done", "dead"} \union
         {"check", "latest", "snapshot", "failure", "note",
          "list", "remove", "summary", "result", "release"}

Waiting == {r \in Run : pc[r] \in {"start", "lock"}}

ArtifactsTypes ==
    /\ tree \in Tree
    /\ keep \in Nat
    /\ pc \in [Run -> Lines]
    /\ group \in [Run -> Groups \union {None}]
    /\ print \in [Run -> Tree \union {None}]
    /\ \A r \in Run : pc[r] # "start" => group[r] \in Groups /\ print[r] \in Tree
    /\ DOMAIN ran = Run
    /\ recent \in Seq(Run) /\ IsInjective(recent)
    /\ inside \in [Run -> SUBSET (Check \union {Layout, "manifest", "failure"})]
    /\ DOMAIN sha = Run
    /\ latest.run \in Run \union {None}
    /\ doomed \in [Run -> SUBSET Run]
    /\ evidence \subseteq Run
    /\ saw \in [Run -> SUBSET Tree]
    /\ alone \subseteq Run
    /\ started \in Seq(Run)
    /\ upsets \in Nat

\* What a step of the run r may do to the list of directories.
LEMMA RecentSteps ==
    ASSUME ArtifactsTypes, NEW r \in Run, Verify(r) \/ Die(r)
    PROVE  \/ recent' = recent
           \/ r \in Working /\ recent' = <<r>> \o Without(recent, r)
           \/ /\ pc[r] = "remove"
              /\ \E q \in doomed[r] : recent' = Without(recent, q)
  <1> USE DEF shared, history, Working
  <1>1. CASE RunCheck(r)
      BY <1>1 DEF RunCheck, Enter
  <1>2. CASE LayoutFails(r)
      BY <1>2 DEF LayoutFails, Enter
  <1>3. CASE WriteLatest(r)
      BY <1>3 DEF WriteLatest, Without
  <1>4. CASE WriteSnapshot(r) \/ WriteFailure(r)
      BY <1>4 DEF WriteSnapshot, WriteFailure, Enter
  <1>5. CASE RemoveSnapshot(r)
      BY <1>5 DEF RemoveSnapshot
  <1>6. CASE Fingerprint(r) \/ Acquire(r) \/ ChecksDone(r) \/ SetNote(r) \/ List(r)
      BY <1>6 DEF Fingerprint, Acquire, ChecksDone, SetNote, List
  <1>7. CASE WriteSummary(r) \/ WriteResult(r) \/ Release(r) \/ Die(r)
      BY <1>7 DEF WriteSummary, WriteResult, Release, Die
  <1> QED BY <1>1, <1>2, <1>3, <1>4, <1>5, <1>6, <1>7 DEF Verify

\* However it changes, the list is of runs, each once, and has only r in addition.
LEMMA RecentChanges ==
    ASSUME ArtifactsTypes, NEW r \in Run, Verify(r) \/ Die(r)
    PROVE  /\ recent' \in Seq(Run) /\ IsInjective(recent')
           /\ \A x : Contains(recent', x) => Contains(recent, x) \/ (x = r /\ r \in Working)
           /\ \A x, y : Before(recent', x, y) =>
                 Before(recent, x, y) \/ (x = r /\ y # r /\ r \in Working)
  <1>1. \A q : /\ Without(recent, q) \in Seq(Run) /\ IsInjective(Without(recent, q))
               /\ \A x : Contains(Without(recent, q), x) <=> Contains(recent, x) /\ x # q
               /\ \A x, y : Before(Without(recent, q), x, y) => Before(recent, x, y)
      BY WithoutProperties DEF ArtifactsTypes
  <1>2. CASE recent' = recent
      BY <1>2 DEF ArtifactsTypes
  <1>3. CASE r \in Working /\ recent' = <<r>> \o Without(recent, r)
    <2> DEFINE t == Without(recent, r)
    <2>1. /\ t \in Seq(Run) /\ IsInjective(t) /\ ~Contains(t, r)
          /\ \A x : Contains(t, x) => Contains(recent, x)
          /\ \A x, y : Before(t, x, y) => Before(recent, x, y)
        BY <1>1
    <2> HIDE DEF t
    <2>2. /\ <<r>> \o t \in Seq(Run) /\ IsInjective(<<r>> \o t)
          /\ \A x : Contains(<<r>> \o t, x) <=> Contains(t, x) \/ x = r
          /\ \A x, y : Before(<<r>> \o t, x, y) => Before(t, x, y) \/ (x = r /\ y # r)
        BY <2>1, InFront
    <2>3. recent' = <<r>> \o t
        BY <1>3 DEF t
    <2> QED BY <1>3, <2>1, <2>2, <2>3
  <1>4. CASE \E q \in doomed[r] : recent' = Without(recent, q)
      BY <1>1, <1>4
  <1> QED BY <1>2, <1>3, <1>4, RecentSteps

LEMMA InitArtifacts == Init => ArtifactsTypes
  <1> SUFFICES ASSUME Init PROVE ArtifactsTypes
      OBVIOUS
  <1>1. recent \in Seq(Run) /\ IsInjective(recent) /\ started \in Seq(Run)
      BY DEF Init, IsInjective
  <1>2. keep \in Nat /\ tree \in Tree /\ upsets \in Nat
      BY ArtifactsAssumption DEF Init
  <1> QED BY <1>1, <1>2 DEF Init, ArtifactsTypes, Lines

LEMMA RunStepTypes ==
    ASSUME ArtifactsTypes, NEW r \in Run, Verify(r) \/ Die(r)
    PROVE  ArtifactsTypes'
  <1> USE DEF shared, history, Goto
  <1>1. recent' \in Seq(Run) /\ IsInjective(recent')
      BY RecentChanges
  <1>2. CASE Fingerprint(r)
      BY <1>1, <1>2 DEF Fingerprint, ArtifactsTypes, Lines
  <1>3. CASE Acquire(r)
    <2>1. started' \in Seq(Run) /\ alone' \subseteq Run
        BY <1>3 DEF Acquire, ArtifactsTypes
    <2> QED BY <1>1, <1>3, <2>1 DEF Acquire, ArtifactsTypes, Lines
  <1>4. CASE RunCheck(r)
    <2>1. PICK i \in DOMAIN Catalog :
              /\ DOMAIN ran' = DOMAIN ran
              /\ Enter(r, {Catalog[i]})
        BY <1>4 DEF RunCheck
    <2>2. Catalog[i] \in Check
        BY DEF Check, ToSet
    <2> QED BY <1>1, <1>4, <2>1, <2>2 DEF RunCheck, Enter, ArtifactsTypes, Lines
  <1>5. CASE LayoutFails(r)
      BY <1>1, <1>5 DEF LayoutFails, Enter, ArtifactsTypes, Lines
  <1>6. CASE ChecksDone(r)
      BY <1>1, <1>6 DEF ChecksDone, ArtifactsTypes, Lines
  <1>7. CASE WriteLatest(r)
      BY <1>1, <1>7 DEF WriteLatest, ArtifactsTypes, Lines
  <1>8. CASE WriteSnapshot(r)
      BY <1>1, <1>8 DEF WriteSnapshot, Enter, ArtifactsTypes, Lines
  <1>9. CASE WriteFailure(r)
      BY <1>1, <1>9 DEF WriteFailure, Enter, ArtifactsTypes, Lines
  <1>10. CASE SetNote(r)
      BY <1>1, <1>10 DEF SetNote, ArtifactsTypes, Lines
  <1>11. CASE List(r)
    <2>1. Excess \subseteq Run
      <3>1. DOMAIN recent = 1..Len(recent) /\ \A i \in DOMAIN recent : recent[i] \in Run
          BY DEF ArtifactsTypes
      <3>2. (keep + 1)..Len(recent) \subseteq 1..Len(recent)
          BY DEF ArtifactsTypes
      <3> QED BY <3>1, <3>2 DEF Excess
    <2> QED BY <1>1, <1>11, <2>1 DEF List, ArtifactsTypes, Lines
  <1>12. CASE RemoveSnapshot(r)
      BY <1>1, <1>12 DEF RemoveSnapshot, ArtifactsTypes, Lines
  <1>13. CASE WriteSummary(r)
      BY <1>1, <1>13 DEF WriteSummary, ArtifactsTypes, Lines
  <1>14. CASE WriteResult(r)
      BY <1>1, <1>14 DEF WriteResult, ArtifactsTypes, Lines
  <1>15. CASE Release(r)
      BY <1>1, <1>15 DEF Release, ArtifactsTypes, Lines
  <1>16. CASE Die(r)
      BY <1>1, <1>16 DEF Die, Upset, Working, ArtifactsTypes, Lines
  <1> QED BY <1>2, <1>3, <1>4, <1>5, <1>6, <1>7, <1>8, <1>9, <1>10, <1>11, <1>12,
             <1>13, <1>14, <1>15, <1>16 DEF Verify

\* What the world does leaves the runs where they are.
LEMMA WorldSteps ==
    ASSUME ArtifactsTypes, BreakLock \/ Aggregate \/ Edit \/ UNCHANGED vars
    PROVE  /\ UNCHANGED <<keep, pc, group, print, ran, shared, doomed, history>>
           /\ tree' \in Tree /\ upsets' \in Nat /\ upsets =< upsets'
           /\ tree' # tree => upsets' = upsets + 1
           /\ evidence' # evidence => Aggregate
  BY DEF BreakLock, Aggregate, Edit, vars, shared, history, Upset, ArtifactsTypes

LEMMA StepArtifacts == ArtifactsTypes /\ [Next]_vars => ArtifactsTypes'
  <1> SUFFICES ASSUME ArtifactsTypes, [Next]_vars PROVE ArtifactsTypes'
      OBVIOUS
  <1>1. ASSUME NEW r \in Run, Verify(r) \/ Die(r)  PROVE ArtifactsTypes'
      BY <1>1, RunStepTypes
  <1>2. CASE BreakLock \/ Aggregate \/ Edit \/ UNCHANGED vars
    <2>1. evidence' \subseteq Run
      <3>1. CASE Aggregate
        <4>1. \A m \in Manifests : m.run \in Run
            BY DEF Manifests, ArtifactsTypes
        <4> QED BY <3>1, <4>1 DEF Aggregate
      <3>2. CASE evidence' = evidence
          BY <3>2 DEF ArtifactsTypes
      <3> QED BY <1>2, <3>1, <3>2, WorldSteps
    <2> QED BY <1>2, <2>1, WorldSteps DEF ArtifactsTypes, shared, history
  <1> QED BY <1>1, <1>2 DEF Next

-----------------------------------------------------------------------------
(* Aggregated evidence. *)

\* The lines of a run whose checks are over.
Past == Lines \ {"start", "lock", "check", "latest"}

\* What a run has seen, as long as the repository moved once at most.
Seen ==
    \A r \in Run :
        /\ r \in Waiting => saw[r] = {}
        /\ upsets = 0 /\ pc[r] # "start" => print[r] = tree /\ saw[r] \subseteq {tree}
        /\ upsets < 2 => saw[r] \subseteq {print[r], tree}

\* A manifest is of a run whose checks are over; whatever they saw is of the
\* fingerprinted commit or of the one the manifest names.
Vouched(m) ==
    /\ m.run \in Run /\ pc[m.run] \in Past
    /\ upsets < 2 => \A s \in saw[m.run] : HeadOf[s] \in {HeadOf[print[m.run]], m.head}

EvidenceInv ==
    /\ Seen
    /\ \A m \in Manifests : Vouched(m)
    /\ EvidenceIsComplete
    /\ \A r \in evidence : pc[r] \in Past

\* A step of one run leaves what the others have done.
LEMMA OthersAsBefore ==
    ASSUME ArtifactsTypes, NEW r \in Run, Verify(r) \/ Die(r), NEW q \in Run, q # r
    PROVE  /\ pc'[q] = pc[q] /\ group'[q] = group[q] /\ print'[q] = print[q]
           /\ ran'[q] = ran[q] /\ saw'[q] = saw[q] /\ doomed'[q] = doomed[q]
  <1> USE DEF shared, history, Goto, ArtifactsTypes
  <1>1. CASE Fingerprint(r) \/ Acquire(r) \/ ChecksDone(r) \/ SetNote(r) \/ List(r)
      BY <1>1 DEF Fingerprint, Acquire, ChecksDone, SetNote, List
  <1>2. CASE RunCheck(r)
      BY <1>2 DEF RunCheck
  <1>3. CASE LayoutFails(r) \/ WriteLatest(r) \/ WriteSnapshot(r) \/ WriteFailure(r)
      BY <1>3 DEF LayoutFails, WriteLatest, WriteSnapshot, WriteFailure
  <1>4. CASE RemoveSnapshot(r)
      BY <1>4 DEF RemoveSnapshot
  <1>5. CASE WriteSummary(r) \/ WriteResult(r) \/ Release(r) \/ Die(r)
      BY <1>5 DEF WriteSummary, WriteResult, Release, Die
  <1> QED BY <1>1, <1>2, <1>3, <1>4, <1>5 DEF Verify

\* What a run whose checks are over has done stays.
LEMMA PastIsSettled ==
    ASSUME ArtifactsTypes, [Next]_vars, NEW q \in Run, pc[q] \in Past
    PROVE  /\ pc'[q] \in Past
           /\ UNCHANGED <<group[q], print[q], ran[q], saw[q]>>
  <1> USE DEF shared, history, Goto
  <1>1. ASSUME Verify(q) \/ Die(q)
        PROVE  /\ pc'[q] \in Past
               /\ UNCHANGED <<group[q], print[q], ran[q], saw[q]>>
    <2> USE DEF Past, Lines, ArtifactsTypes
    <2>1. CASE Fingerprint(q) \/ Acquire(q) \/ RunCheck(q) \/ LayoutFails(q)
                 \/ ChecksDone(q) \/ WriteLatest(q)
        BY <2>1 DEF Fingerprint, Acquire, RunCheck, LayoutFails, ChecksDone, WriteLatest
    <2>2. CASE WriteSnapshot(q) \/ WriteFailure(q) \/ SetNote(q)
        BY <2>2 DEF WriteSnapshot, WriteFailure, SetNote
    <2>3. CASE List(q) \/ RemoveSnapshot(q)
        BY <2>3 DEF List, RemoveSnapshot
    <2>4. CASE WriteSummary(q) \/ WriteResult(q) \/ Release(q) \/ Die(q)
        BY <2>4 DEF WriteSummary, WriteResult, Release, Die
    <2> QED BY <1>1, <2>1, <2>2, <2>3, <2>4 DEF Verify
  <1>2. ASSUME NEW r \in Run, r # q, Verify(r) \/ Die(r)
        PROVE  /\ pc'[q] \in Past
               /\ UNCHANGED <<group[q], print[q], ran[q], saw[q]>>
      BY <1>2, OthersAsBefore
  <1>3. CASE BreakLock \/ Aggregate \/ Edit \/ UNCHANGED vars
      BY <1>3, WorldSteps
  <1> QED BY <1>1, <1>2, <1>3 DEF Next

LEMMA UpsetsGrow == ArtifactsTypes /\ [Next]_vars => upsets =< upsets'
  <1> SUFFICES ASSUME ArtifactsTypes, [Next]_vars PROVE upsets =< upsets'
      OBVIOUS
  <1>1. ASSUME NEW r \in Run, Verify(r)  PROVE upsets' = upsets
      BY <1>1 DEF Verify, Fingerprint, Acquire, RunCheck, LayoutFails, ChecksDone,
                  WriteLatest, WriteSnapshot, WriteFailure, SetNote, List,
                  RemoveSnapshot, WriteSummary, WriteResult, Release, shared, history
  <1>2. ASSUME NEW r \in Run, Die(r)  PROVE upsets' = upsets + 1
      BY <1>2 DEF Die, Upset
  <1> QED BY <1>1, <1>2, WorldSteps DEF Next, ArtifactsTypes

LEMMA StepKeepsSeen == ArtifactsTypes /\ Seen /\ [Next]_vars => Seen'
  <1> SUFFICES ASSUME ArtifactsTypes, Seen, [Next]_vars, NEW q \in Run
               PROVE  /\ q \in Waiting' => saw'[q] = {}
                      /\ upsets' = 0 /\ pc'[q] # "start" =>
                            print'[q] = tree' /\ saw'[q] \subseteq {tree'}
                      /\ upsets' < 2 => saw'[q] \subseteq {print'[q], tree'}
      BY DEF Seen
  <1> USE DEF shared, history, Goto
  <1>1. CASE Verify(q) \/ Die(q)
    <2> USE DEF Seen, Waiting, ArtifactsTypes
    <2>1. CASE Fingerprint(q)
        BY <2>1 DEF Fingerprint
    <2>2. CASE RunCheck(q)
        BY <2>2 DEF RunCheck
    <2>3. CASE Acquire(q) \/ LayoutFails(q) \/ ChecksDone(q) \/ WriteLatest(q)
        BY <2>3 DEF Acquire, LayoutFails, ChecksDone, WriteLatest
    <2>4. CASE WriteSnapshot(q) \/ WriteFailure(q) \/ SetNote(q)
        BY <2>4 DEF WriteSnapshot, WriteFailure, SetNote
    <2>5. CASE List(q) \/ RemoveSnapshot(q)
        BY <2>5 DEF List, RemoveSnapshot
    <2>6. CASE WriteSummary(q) \/ WriteResult(q) \/ Release(q)
        BY <2>6 DEF WriteSummary, WriteResult, Release
    <2>7. CASE Die(q)
        BY <2>7 DEF Die, Upset, Working
    <2> QED BY <1>1, <2>1, <2>2, <2>3, <2>4, <2>5, <2>6, <2>7 DEF Verify
  <1>2. ASSUME NEW r \in Run, r # q, Verify(r) \/ Die(r)
        PROVE  /\ q \in Waiting' => saw'[q] = {}
               /\ upsets' = 0 /\ pc'[q] # "start" =>
                     print'[q] = tree' /\ saw'[q] \subseteq {tree'}
               /\ upsets' < 2 => saw'[q] \subseteq {print'[q], tree'}
    <2>1. tree' = tree
        BY <1>2 DEF Verify, Fingerprint, Acquire, RunCheck, LayoutFails, ChecksDone,
                    WriteLatest, WriteSnapshot, WriteFailure, SetNote, List,
                    RemoveSnapshot, WriteSummary, WriteResult, Release, Die
    <2>2. upsets =< upsets' /\ upsets' \in Nat
        BY UpsetsGrow, StepArtifacts DEF ArtifactsTypes
    <2> QED BY <1>2, <2>1, <2>2, OthersAsBefore DEF Seen, Waiting, ArtifactsTypes
  <1>3. CASE BreakLock \/ Aggregate \/ Edit \/ UNCHANGED vars
    <2>1. /\ UNCHANGED <<pc, print, saw>>
          /\ upsets =< upsets' /\ upsets' \in Nat
          /\ tree' # tree => upsets' = upsets + 1
        BY <1>3, WorldSteps DEF history
    <2>2. CASE tree' = tree
        BY <2>1, <2>2 DEF Seen, Waiting, ArtifactsTypes
    <2>3. CASE tree' # tree
      <3>1. upsets' # 0 /\ (upsets' < 2 => upsets = 0)
          BY <2>1, <2>3 DEF ArtifactsTypes
      <3>2. upsets = 0 => saw[q] \subseteq {print[q]}
          BY DEF Seen, Waiting
      <3> QED BY <2>1, <3>1, <3>2 DEF Seen, Waiting
    <2> QED BY <2>2, <2>3
  <1> QED BY <1>1, <1>2, <1>3 DEF Next

\* A manifest is as it was, or was written in this step with the commit of now.
LEMMA NewManifests ==
    ASSUME ArtifactsTypes, [Next]_vars, NEW m \in Manifests'
    PROVE  \/ m \in Manifests
           \/ /\ m.run \in Run /\ pc[m.run] \in {"latest", "snapshot"}
              /\ pc'[m.run] \in Past
              /\ m.head = HeadOf[tree]
              /\ UNCHANGED <<tree, print, saw, upsets>>
  <1>1. ASSUME NEW r \in Run, WriteLatest(r)
        PROVE  \/ m \in Manifests
               \/ m.run = r /\ m.head = HeadOf[tree]
      BY <1>1 DEF WriteLatest, Manifests
  <1>2. ASSUME NEW r \in Run, WriteSnapshot(r)
        PROVE  \/ m \in Manifests
               \/ m.run = r /\ m.head = HeadOf[tree]
    <2>1. /\ latest' = latest
          /\ \A q \in Run \ {r} : inside'[q] = inside[q] /\ sha'[q] = sha[q]
          /\ sha'[r] = HeadOf[tree]
        BY <1>2 DEF WriteSnapshot, Enter, ArtifactsTypes
    <2>2. CASE m \in {x \in {latest} : x.run # None}
        BY <2>2 DEF Manifests
    <2>3. CASE m \notin {x \in {latest} : x.run # None}
      <3>1. PICK q \in Run : "manifest" \in inside'[q] /\ m = [run |-> q, head |-> sha'[q]]
          BY <2>1, <2>3 DEF Manifests
      <3>2. CASE q = r
          BY <2>1, <3>1, <3>2
      <3>3. CASE q # r
          BY <2>1, <3>1, <3>3 DEF Manifests
      <3> QED BY <3>2, <3>3
    <2> QED BY <2>2, <2>3
  <1>3. ASSUME latest' = latest,
               \A q \in Run : "manifest" \in inside'[q] =>
                   "manifest" \in inside[q] /\ sha'[q] = sha[q]
        PROVE  m \in Manifests
      BY <1>3 DEF Manifests
  <1>4. ASSUME NEW r \in Run, Verify(r) \/ Die(r), ~WriteLatest(r), ~WriteSnapshot(r)
        PROVE  /\ latest' = latest
               /\ \A q \in Run : "manifest" \in inside'[q] =>
                      "manifest" \in inside[q] /\ sha'[q] = sha[q]
    <2> USE DEF shared
    <2>1. CASE RunCheck(r)
      <3>1. PICK i \in DOMAIN Catalog : Enter(r, {Catalog[i]})
          BY <2>1 DEF RunCheck
      <3>2. Catalog[i] # "manifest"
          BY ArtifactsAssumption DEF Check, ToSet
      <3> QED BY <2>1, <3>1, <3>2 DEF RunCheck, Enter, ArtifactsTypes
    <2>2. CASE LayoutFails(r)
      <3>1. Layout # "manifest"
          BY ArtifactsAssumption
      <3> QED BY <2>2, <3>1 DEF LayoutFails, Enter, ArtifactsTypes
    <2>3. CASE WriteFailure(r)
        BY <2>3 DEF WriteFailure, Enter, ArtifactsTypes
    <2>4. CASE RemoveSnapshot(r)
        BY <2>4 DEF RemoveSnapshot, ArtifactsTypes
    <2>5. CASE Fingerprint(r) \/ Acquire(r) \/ ChecksDone(r) \/ SetNote(r) \/ List(r)
        BY <2>5 DEF Fingerprint, Acquire, ChecksDone, SetNote, List
    <2>6. CASE WriteSummary(r) \/ WriteResult(r) \/ Release(r) \/ Die(r)
        BY <2>6 DEF WriteSummary, WriteResult, Release, Die
    <2> QED BY <1>4, <2>1, <2>2, <2>3, <2>4, <2>5, <2>6 DEF Verify
  <1>5. CASE BreakLock \/ Aggregate \/ Edit \/ UNCHANGED vars
      BY <1>3, <1>5, WorldSteps DEF shared
  <1>6. ASSUME NEW r \in Run, WriteLatest(r) \/ WriteSnapshot(r)
        PROVE  /\ pc[r] \in {"latest", "snapshot"} /\ pc'[r] \in Past
               /\ UNCHANGED <<tree, print, saw, upsets>>
      BY <1>6 DEF WriteLatest, WriteSnapshot, Goto, history, Past, Lines, ArtifactsTypes
  <1> QED BY <1>1, <1>2, <1>3, <1>4, <1>5, <1>6 DEF Next

LEMMA StepKeepsVouched ==
    ASSUME ArtifactsTypes, Seen, \A m \in Manifests : Vouched(m), [Next]_vars
    PROVE  \A m \in Manifests' : Vouched(m)'
  <1> SUFFICES ASSUME NEW m \in Manifests'
               PROVE  /\ m.run \in Run /\ pc'[m.run] \in Past
                      /\ upsets' < 2 => \A s \in saw'[m.run] :
                            HeadOf[s] \in {HeadOf[print'[m.run]], m.head}
      BY DEF Vouched
  <1>1. CASE m \in Manifests
    <2>1. Vouched(m)
        BY <1>1
    <2>2. upsets \in Nat /\ upsets' \in Nat /\ upsets =< upsets'
        BY UpsetsGrow, StepArtifacts DEF ArtifactsTypes
    <2> QED BY <2>1, <2>2, PastIsSettled DEF Vouched
  <1>2. CASE /\ m.run \in Run /\ pc[m.run] \in {"latest", "snapshot"}
             /\ pc'[m.run] \in Past
             /\ m.head = HeadOf[tree]
             /\ UNCHANGED <<tree, print, saw, upsets>>
      BY <1>2 DEF Seen
  <1> QED BY <1>1, <1>2, NewManifests

\* What an aggregate is made of is complete.
LEMMA AggregateIsComplete ==
    ASSUME ArtifactsTypes, \A m \in Manifests : Vouched(m), Aggregate
    PROVE  EvidenceIsComplete' /\ \A r \in evidence' : pc'[r] \in Past
  <1>1. PICK m \in Manifests, n \in Manifests :
            Accepts(m, n) /\ evidence' = {m.run, n.run}
      BY DEF Aggregate
  <1> DEFINE r == m.run
             q == n.run
  <1>2. UNCHANGED <<pc, group, print, ran, saw, upsets>>
      BY DEF Aggregate, history
  <1>3. /\ r \in Run /\ q \in Run /\ pc[r] \in Past /\ pc[q] \in Past
        /\ Vouched(m) /\ Vouched(n)
      BY <1>1 DEF Vouched
  <1>4. /\ ~Failed(r) /\ ~Failed(q) /\ print[r] = print[q]
        /\ DOMAIN ran[r] = Selected(r) /\ DOMAIN ran[q] = Selected(q)
        /\ DOMAIN ran[r] \intersect DOMAIN ran[q] = {}
        /\ m.head = HeadOf[print[r]] /\ n.head = HeadOf[print[q]]
        /\ group[r] # "all" /\ group[q] # "all" /\ group[r] # group[q]
      BY <1>1 DEF Accepts, Acceptable, SharedState
  <1> HIDE DEF r, q
  <1>5. group[r] \in {"tests", "static"} /\ group[q] \in {"tests", "static"}
      BY <1>3, <1>4, ArtifactsAssumption DEF ArtifactsTypes, Past, Lines
  <1>6. Selects[print[r]] = DOMAIN ran[r] \union DOMAIN ran[q] /\ r # q
    <2>1. CASE group[r] = "tests" /\ group[q] = "static"
        BY <1>4, <2>1 DEF Selected
    <2>2. CASE group[r] = "static" /\ group[q] = "tests"
        BY <1>4, <2>2 DEF Selected
    <2> QED BY <1>4, <1>5, <2>1, <2>2
  <1>7. \A x \in {r, q} : \A c \in Selects[print[x]] :
            \E y \in {r, q} : /\ c \in DOMAIN ran[y]
                              /\ \A z \in {r, q} \ {y} : c \notin DOMAIN ran[z]
      BY <1>4, <1>6
  <1>8. upsets < 2 => \A x \in {r, q} : \A s \in saw[x] : HeadOf[s] = HeadOf[print[x]]
      BY <1>3, <1>4 DEF Vouched, r, q
  <1>9. evidence' = {r, q}
      BY <1>1 DEF r, q
  <1> QED BY <1>2, <1>3, <1>4, <1>7, <1>8, <1>9 DEF EvidenceIsComplete, Failed

LEMMA StepKeepsEvidence ==
    ASSUME ArtifactsTypes, EvidenceInv, [Next]_vars
    PROVE  EvidenceInv'
  <1>1. Seen' /\ \A m \in Manifests' : Vouched(m)'
      BY StepKeepsSeen, StepKeepsVouched DEF EvidenceInv
  <1>2. CASE evidence' = evidence
    <2>1. \A r \in evidence : /\ pc'[r] \in Past /\ ran'[r] = ran[r]
                              /\ print'[r] = print[r] /\ saw'[r] = saw[r]
        BY PastIsSettled DEF EvidenceInv, ArtifactsTypes
    <2>2. upsets' < 2 => upsets < 2
        BY UpsetsGrow, StepArtifacts DEF ArtifactsTypes
    <2>3. EvidenceIsComplete'
      <3>1. ASSUME NEW r \in evidence
            PROVE  /\ ~Failed(r)'
                   /\ \A q \in evidence : print'[r] = print'[q]
                   /\ upsets' < 2 => \A s \in saw'[r] : HeadOf[s] = HeadOf[print'[r]]
          BY <2>1, <2>2 DEF EvidenceInv, EvidenceIsComplete, Failed
      <3>2. ASSUME NEW r \in evidence, NEW c \in Selects[print'[r]]
            PROVE  \E q \in evidence : /\ c \in DOMAIN ran'[q]
                                       /\ \A p \in evidence \ {q} : c \notin DOMAIN ran'[p]
        <4>1. PICK q \in evidence : /\ c \in DOMAIN ran[q]
                                    /\ \A p \in evidence \ {q} : c \notin DOMAIN ran[p]
            BY <2>1, <3>2 DEF EvidenceInv, EvidenceIsComplete
        <4> QED BY <2>1, <4>1
      <3> QED BY <1>2, <3>1, <3>2 DEF EvidenceIsComplete
    <2> QED BY <1>1, <1>2, <2>1, <2>3 DEF EvidenceInv
  <1>3. CASE Aggregate
      BY <1>1, <1>3, AggregateIsComplete DEF EvidenceInv
  <1>4. evidence' # evidence => Aggregate
    <2>1. ASSUME NEW r \in Run, Verify(r)  PROVE evidence' = evidence
        BY <2>1 DEF Verify, Fingerprint, Acquire, RunCheck, LayoutFails, ChecksDone,
                    WriteLatest, WriteSnapshot, WriteFailure, SetNote, List,
                    RemoveSnapshot, WriteSummary, WriteResult, Release
    <2>2. ASSUME NEW r \in Run, Die(r)  PROVE evidence' = evidence
        BY <2>2 DEF Die
    <2> QED BY <2>1, <2>2, WorldSteps DEF Next
  <1> QED BY <1>2, <1>3, <1>4

\* Every aggregate is made of runs of one fingerprint without a failure, which
\* answer for every selected check once, by passing or by skipping it, and have
\* looked at the fingerprinted commit, for any runs, groups, configurations,
\* outcomes, edits, broken locks and deaths.
THEOREM EvidenceComplete == Spec => []EvidenceIsComplete
  <1>1. Init => EvidenceInv
    <2> SUFFICES ASSUME Init PROVE EvidenceInv
        OBVIOUS
    <2>1. Manifests = {} /\ evidence = {}
        BY DEF Init, Manifests
    <2>2. Seen
        BY DEF Init, Seen, Waiting
    <2> QED BY <2>1, <2>2 DEF EvidenceInv, EvidenceIsComplete
  <1>2. ArtifactsTypes /\ EvidenceInv /\ [Next]_vars => ArtifactsTypes' /\ EvidenceInv'
      BY StepArtifacts, StepKeepsEvidence
  <1>3. EvidenceInv => EvidenceIsComplete
      BY DEF EvidenceInv
  <1> QED BY InitArtifacts, <1>1, <1>2, <1>3, PTL DEF Spec

-----------------------------------------------------------------------------
(* Retention. *)

\* A run that waits has left nothing and is not to lose anything.
NothingYet ==
    /\ \A r \in Waiting : /\ ~Contains(recent, r) /\ ~Contains(started, r)
                          /\ inside[r] = {} /\ DOMAIN ran[r] = {}
                          /\ \A p \in Run : r \notin doomed[p]
    /\ \A r \in Run \ Waiting : Contains(started, r)
    /\ IsInjective(started)

\* A run that met no other: whoever works has begun after it.
WorkersAreLater ==
    \A q \in alone, p \in Working :
        p = q \/ (q \notin Working /\ (Contains(started, q) => Before(started, q, p)))

\* The directories ahead of its own are of runs that have begun after it.
AheadAreLater ==
    \A q \in alone, x \in Run : Before(recent, x, q) => Before(started, q, x)

\* At least as many runs as are kept have begun after q.
Outdated(q) == \E i \in DOMAIN started : started[i] = q /\ i + keep =< Len(started)

\* Nobody but itself is about to remove its directory before that.
OnlyOutdated ==
    \A p \in Run : \A q \in doomed[p] :
        /\ pc[p] = "remove"
        /\ q \in alone /\ q # p => Outdated(q)

RetentionInv == NothingYet /\ WorkersAreLater /\ AheadAreLater /\ OnlyOutdated

LEMMA AppendKeepsOrder ==
    ASSUME NEW S, NEW s \in Seq(S), NEW e \in S, IsInjective(s), ~Contains(s, e)
    PROVE  /\ IsInjective(Append(s, e)) /\ Contains(Append(s, e), e)
           /\ \A x : Contains(Append(s, e), x) => Contains(s, x) \/ x = e
           /\ \A x : Contains(s, x) =>
                 Contains(Append(s, e), x) /\ Before(Append(s, e), x, e)
           /\ \A x, y : Before(s, x, y) => Before(Append(s, e), x, y)
  <1> DEFINE t == Append(s, e)
             n == Len(s)
  <1>1. /\ n \in Nat /\ DOMAIN s = 1..n /\ DOMAIN t = 1..(n + 1) /\ Len(t) = n + 1
        /\ t[n + 1] = e
      OBVIOUS
  <1>2. \A i \in 1..n : t[i] = s[i] /\ i \in 1..(n + 1) /\ i < n + 1 /\ s[i] # e
      BY DEF Contains
  <1>3. \A i \in 1..(n + 1) : i = n + 1 \/ i \in 1..n
      BY <1>1
  <1> HIDE DEF t, n
  <1>4. n = Len(s)
      BY DEF n
  <1>5. IsInjective(t)
      BY <1>1, <1>2, <1>3 DEF IsInjective
  <1>6. Contains(t, e) /\ \A x : Contains(t, x) => Contains(s, x) \/ x = e
    <2>1. n + 1 \in 1..(n + 1)
        BY <1>1
    <2> QED BY <1>1, <1>2, <1>3, <1>4, <2>1 DEF Contains
  <1>7. \A x : Contains(s, x) => Contains(t, x) /\ Before(t, x, e)
    <2>1. n + 1 \in 1..(n + 1)
        BY <1>1
    <2> QED BY <1>1, <1>2, <1>4, <2>1 DEF Contains, Before
  <1>8. \A x, y : Before(s, x, y) => Before(t, x, y)
    <2> SUFFICES ASSUME NEW i \in 1..n, NEW j \in 1..n, i < j
                 PROVE  Before(t, s[i], s[j])
        BY <1>1 DEF Before
    <2> QED BY <1>1, <1>2 DEF Before
  <1> QED BY <1>5, <1>6, <1>7, <1>8 DEF t

\* The list of the runs changes only when one begins.
LEMMA StartedSteps ==
    ASSUME ArtifactsTypes, NEW r \in Run, Verify(r) \/ Die(r)
    PROVE  \/ Acquire(r)
           \/ UNCHANGED <<started, alone>>
  <1> QED BY DEF Verify, Fingerprint, RunCheck, LayoutFails, ChecksDone,
             WriteLatest, WriteSnapshot, WriteFailure, SetNote, List, RemoveSnapshot,
             WriteSummary, WriteResult, Release, Die, history

\* Where a run's step leads: it begins by Acquire alone.
LEMMA OwnPlace ==
    ASSUME ArtifactsTypes, NEW r \in Run, Verify(r) \/ Die(r)
    PROVE  /\ r \in Working' => r \in Working \/ Acquire(r)
           /\ r \in Waiting' => r \in Waiting
           /\ r \in Waiting => (Fingerprint(r) /\ r \in Waiting') \/ (Acquire(r) /\ r \in Working')
           /\ r \in Waiting \/ r \in Working
  <1> USE DEF Goto, Working, Waiting, ArtifactsTypes
  <1>1. CASE Fingerprint(r)
      BY <1>1 DEF Fingerprint
  <1>2. CASE Acquire(r)
      BY <1>2 DEF Acquire
  <1>3. CASE RunCheck(r) \/ LayoutFails(r) \/ ChecksDone(r) \/ WriteLatest(r)
      BY <1>3 DEF RunCheck, LayoutFails, ChecksDone, WriteLatest
  <1>4. CASE WriteSnapshot(r) \/ WriteFailure(r) \/ SetNote(r)
      BY <1>4 DEF WriteSnapshot, WriteFailure, SetNote
  <1>5. CASE List(r) \/ RemoveSnapshot(r)
      BY <1>5 DEF List, RemoveSnapshot
  <1>6. CASE WriteSummary(r) \/ WriteResult(r) \/ Release(r) \/ Die(r)
      BY <1>6 DEF WriteSummary, WriteResult, Release, Die
  <1> QED BY <1>1, <1>2, <1>3, <1>4, <1>5, <1>6 DEF Verify

LEMMA PlacesApart == ArtifactsTypes => Waiting \intersect Working = {}
  BY DEF Waiting, Working

\* What a step of r does to the directories of others: nothing, or it is to
\* remove one.
LEMMA InsideSteps ==
    ASSUME ArtifactsTypes, NEW r \in Run, Verify(r) \/ Die(r), NEW q \in Run, q # r
    PROVE  /\ inside'[q] = inside[q] \/ inside'[q] = {}
           /\ r \notin Working => inside'[q] = inside[q]
  <1> USE DEF shared, ArtifactsTypes, Working
  <1>1. CASE RunCheck(r) \/ LayoutFails(r) \/ WriteSnapshot(r) \/ WriteFailure(r)
      BY <1>1 DEF RunCheck, LayoutFails, WriteSnapshot, WriteFailure, Enter
  <1>2. CASE RemoveSnapshot(r)
      BY <1>2 DEF RemoveSnapshot
  <1>3. CASE Fingerprint(r) \/ Acquire(r) \/ ChecksDone(r) \/ SetNote(r) \/ List(r)
      BY <1>3 DEF Fingerprint, Acquire, ChecksDone, SetNote, List
  <1>4. CASE WriteLatest(r) \/ WriteSummary(r) \/ WriteResult(r) \/ Release(r) \/ Die(r)
      BY <1>4 DEF WriteLatest, WriteSummary, WriteResult, Release, Die
  <1> QED BY <1>1, <1>2, <1>3, <1>4 DEF Verify

\* A run marks only what is on the list, and only when it lists it.
LEMMA DoomedSteps ==
    ASSUME ArtifactsTypes, NEW r \in Run, Verify(r) \/ Die(r)
    PROVE  \/ List(r)
           \/ doomed'[r] = doomed[r] /\ (pc[r] = "remove" => pc'[r] = "remove")
           \/ pc'[r] = "remove" /\ pc[r] = "remove" /\ doomed'[r] \subseteq doomed[r]
           \/ doomed'[r] = {}
  <1> USE DEF ArtifactsTypes, Goto
  <1>1. CASE RemoveSnapshot(r)
      BY <1>1 DEF RemoveSnapshot
  <1>2. CASE Die(r)
      BY <1>2 DEF Die
  <1>3. CASE Fingerprint(r) \/ Acquire(r) \/ RunCheck(r) \/ LayoutFails(r) \/ ChecksDone(r)
      BY <1>3 DEF Fingerprint, Acquire, RunCheck, LayoutFails, ChecksDone
  <1>4. CASE WriteLatest(r) \/ WriteSnapshot(r) \/ WriteFailure(r) \/ SetNote(r)
      BY <1>4 DEF WriteLatest, WriteSnapshot, WriteFailure, SetNote
  <1>5. CASE WriteSummary(r) \/ WriteResult(r) \/ Release(r)
      BY <1>5 DEF WriteSummary, WriteResult, Release
  <1> QED BY <1>1, <1>2, <1>3, <1>4, <1>5 DEF Verify

LEMMA IntervalSize ==
    ASSUME NEW a \in Nat, NEW b \in Nat, a =< b
    PROVE  IsFiniteSet((a + 1)..b) /\ Cardinality((a + 1)..b) = b - a
  <1>1. PICK m \in Int : m = a + 1
      OBVIOUS
  <1>2. IsFiniteSet(m..b) /\ Cardinality(m..b) = IF m > b THEN 0 ELSE b - m + 1
      BY FS_Interval
  <1>3. b - m + 1 = b - a /\ (m > b => b - a = 0)
      BY <1>1
  <1> QED BY <1>1, <1>2, <1>3

\* The bound that makes retention safe: the directories ahead of its own belong
\* to as many runs that have begun later, each counted once.
LEMMA ExcessIsOutdated ==
    ASSUME ArtifactsTypes, NothingYet, AheadAreLater,
           NEW q \in alone, q \in Excess, Contains(started, q)
    PROVE  Outdated(q)
  <1>1. /\ DOMAIN recent = 1..Len(recent) /\ Len(recent) \in Nat
        /\ DOMAIN started = 1..Len(started) /\ Len(started) \in Nat
        /\ keep \in Nat
        /\ \A k \in 1..Len(recent) : recent[k] \in Run
      BY DEF ArtifactsTypes
  <1>2. PICK j \in (keep + 1)..Len(recent) : recent[j] = q
      BY DEF Excess
  <1>3. PICK i \in 1..Len(started) : started[i] = q
      BY DEF Contains
  <1> DEFINE S == 1..(j - 1)
             T == (i + 1)..Len(started)
             f == [k \in S |-> CHOOSE m \in T : started[m] = recent[k]]
  <1>4. \A k \in S : \E m \in T : started[m] = recent[k]
    <2> SUFFICES ASSUME NEW k \in S  PROVE \E m \in T : started[m] = recent[k]
        OBVIOUS
    <2>1. k \in DOMAIN recent /\ j \in DOMAIN recent /\ k < j /\ recent[k] \in Run
        BY <1>1, <1>2
    <2>2. Before(recent, recent[k], q)
        BY <1>2, <2>1 DEF Before
    <2>3. Before(started, q, recent[k])
        BY <2>1, <2>2 DEF AheadAreLater
    <2>4. PICK a \in DOMAIN started, m \in DOMAIN started :
              a < m /\ started[a] = q /\ started[m] = recent[k]
        BY <2>3 DEF Before
    <2>5. a = i
        BY <1>1, <1>3, <2>4 DEF NothingYet, IsInjective
    <2> QED BY <1>1, <2>4, <2>5
  <1>5. f \in [S -> T] /\ \A k \in S : started[f[k]] = recent[k]
      BY <1>4
  <1> HIDE DEF f
  <1>6. IsInjective(f)
    <2> SUFFICES ASSUME NEW k \in S, NEW l \in S, f[k] = f[l]  PROVE k = l
        BY <1>5 DEF IsInjective
    <2>1. recent[k] = recent[l] /\ k \in DOMAIN recent /\ l \in DOMAIN recent
        BY <1>1, <1>2, <1>5
    <2> QED BY <2>1 DEF ArtifactsTypes, IsInjective
  <1>7. f \in Injection(S, T)
      BY <1>5, <1>6 DEF Injection
  <1>8. IsFiniteSet(T) /\ Cardinality(T) = Len(started) - i
    <2>1. i \in Nat /\ i =< Len(started)
        BY <1>1, <1>3
    <2> QED BY <1>1, <2>1, IntervalSize
  <1>9. Cardinality(S) = j - 1
    <2>1. j - 1 \in Nat /\ 0 =< j - 1 /\ 0 + 1 = 1 /\ (j - 1) - 0 = j - 1
        BY <1>1, <1>2
    <2> QED BY <2>1, IntervalSize
  <1>10. j - 1 =< Len(started) - i
      BY <1>7, <1>8, <1>9, FS_Injection
  <1>11. i + keep =< Len(started)
      BY <1>1, <1>2, <1>3, <1>10
  <1> QED BY <1>1, <1>3, <1>11 DEF Outdated

\* How the list of the runs may change.
LEMMA StartedChanges ==
    ASSUME ArtifactsTypes, NothingYet, NEW r \in Run, Verify(r) \/ Die(r)
    PROVE  /\ IsInjective(started')
           /\ \A x : Contains(started, x) => Contains(started', x)
           /\ \A x : Contains(started', x) => Contains(started, x) \/ (x = r /\ Acquire(r))
           /\ \A x, y : Before(started, x, y) => Before(started', x, y)
           /\ Acquire(r) => /\ Contains(started', r) /\ ~Contains(started, r)
                            /\ \A x : Contains(started, x) => Before(started', x, r)
           /\ \A q \in Run : Outdated(q) => Outdated(q)'
  <1>1. keep' = keep
      BY DEF Verify, Fingerprint, Acquire, RunCheck, LayoutFails, ChecksDone,
             WriteLatest, WriteSnapshot, WriteFailure, SetNote, List,
             RemoveSnapshot, WriteSummary, WriteResult, Release, Die
  <1>2. CASE Acquire(r)
    <2>1. started' = Append(started, r) /\ r \in Waiting
        BY <1>2 DEF Acquire, Waiting
    <2>2. started \in Seq(Run) /\ IsInjective(started) /\ ~Contains(started, r)
        BY <2>1 DEF NothingYet, ArtifactsTypes
    <2>3. /\ IsInjective(started') /\ Contains(started', r)
          /\ \A x : Contains(started', x) => Contains(started, x) \/ x = r
          /\ \A x : Contains(started, x) => Contains(started', x) /\ Before(started', x, r)
          /\ \A x, y : Before(started, x, y) => Before(started', x, y)
        BY <2>1, <2>2, AppendKeepsOrder
    <2>4. /\ Len(started') = Len(started) + 1 /\ Len(started) \in Nat
          /\ \A i \in DOMAIN started : i \in DOMAIN started' /\ started'[i] = started[i]
        BY <2>1, <2>2
    <2>5. ASSUME NEW q \in Run, Outdated(q)  PROVE Outdated(q)'
      <3>1. PICK i \in DOMAIN started : started[i] = q /\ i + keep =< Len(started)
          BY <2>5 DEF Outdated
      <3>2. i + keep =< Len(started')
          BY <2>2, <2>4, <3>1 DEF ArtifactsTypes
      <3> QED BY <1>1, <2>4, <3>1, <3>2 DEF Outdated
    <2> QED BY <1>2, <2>2, <2>3, <2>5
  <1>3. CASE ~Acquire(r)
    <2>1. started' = started
        BY <1>3, StartedSteps
    <2> QED BY <1>1, <1>3, <2>1 DEF NothingYet, Outdated
  <1> QED BY <1>2, <1>3

\* A step of r moves no other run, and r to work only when it begins.
LEMMA WorkingSteps ==
    ASSUME ArtifactsTypes, NEW r \in Run, Verify(r) \/ Die(r)
    PROVE  /\ Working' \ {r} = Working \ {r}
           /\ Waiting' \ {r} = Waiting \ {r}
           /\ ~Acquire(r) => Working' \subseteq Working
  <1>1. \A q \in Run : q # r => pc'[q] = pc[q]
      BY OthersAsBefore
  <1>2. Working' \ {r} = Working \ {r} /\ Waiting' \ {r} = Waiting \ {r}
      BY <1>1 DEF Working, Waiting
  <1> QED BY <1>2, OwnPlace

LEMMA RunKeepsNothingYet ==
    ASSUME ArtifactsTypes, RetentionInv, NEW r \in Run, Verify(r) \/ Die(r)
    PROVE  NothingYet'
  <1>1. NothingYet
      BY DEF RetentionInv
  <1>2. ASSUME NEW q \in Waiting'
        PROVE  /\ ~Contains(recent', q) /\ ~Contains(started', q)
               /\ inside'[q] = {} /\ DOMAIN ran'[q] = {}
               /\ \A p \in Run : q \notin doomed'[p]
    <2>1. CASE q = r
      <3>1. r \in Waiting /\ Fingerprint(r)
        <4>1. r \in Waiting
            BY <1>2, <2>1, OwnPlace
        <4>2. ~Acquire(r)
            BY <1>2, <2>1 DEF Acquire, Goto, Waiting, ArtifactsTypes
        <4> QED BY <4>1, <4>2, OwnPlace
      <3>2. UNCHANGED <<recent, started, inside, ran, doomed>>
          BY <3>1 DEF Fingerprint, shared, history
      <3> QED BY <1>1, <2>1, <3>1, <3>2 DEF NothingYet
    <2>2. CASE q # r
      <3>1. q \in Waiting /\ q \in Run
          BY <1>2, <2>2, WorkingSteps DEF Waiting
      <3>2. /\ ~Contains(recent, q) /\ ~Contains(started, q)
            /\ inside[q] = {} /\ DOMAIN ran[q] = {}
            /\ \A p \in Run : q \notin doomed[p]
          BY <1>1, <3>1 DEF NothingYet
      <3>3. ~Contains(recent', q) /\ ~Contains(started', q)
          BY <1>1, <2>2, <3>2, RecentChanges, StartedChanges
      <3>4. inside'[q] = {} /\ ran'[q] = ran[q]
          BY <2>2, <3>1, <3>2, InsideSteps, OthersAsBefore
      <3>5. ASSUME NEW p \in Run  PROVE q \notin doomed'[p]
        <4>1. CASE p # r
            BY <3>2, <4>1, OthersAsBefore
        <4>2. CASE p = r /\ List(r)
          <5>1. q \notin Excess
              BY <3>2 DEF Excess, Contains, ArtifactsTypes
          <5> QED BY <4>2, <5>1 DEF List, ArtifactsTypes
        <4>3. CASE p = r /\ ~List(r)
            BY <3>2, <4>3, DoomedSteps
        <4> QED BY <4>1, <4>2, <4>3
      <3> QED BY <3>2, <3>3, <3>4, <3>5
    <2> QED BY <2>1, <2>2
  <1>3. ASSUME NEW q \in Run \ Waiting'  PROVE Contains(started', q)
    <2>1. CASE q \notin Waiting
        BY <1>1, <1>3, <2>1, StartedChanges DEF NothingYet
    <2>2. CASE q \in Waiting
      <3>1. q = r
          BY <1>3, <2>2, WorkingSteps
      <3>2. Acquire(r)
          BY <1>3, <2>2, <3>1, OwnPlace
      <3> QED BY <1>1, <3>1, <3>2, StartedChanges
    <2> QED BY <2>1, <2>2
  <1>4. IsInjective(started')
      BY <1>1, StartedChanges
  <1> QED BY <1>2, <1>3, <1>4 DEF NothingYet

LEMMA RunKeepsWorkersLater ==
    ASSUME ArtifactsTypes, RetentionInv, NEW r \in Run, Verify(r) \/ Die(r)
    PROVE  WorkersAreLater'
  <1> SUFFICES ASSUME NEW q \in alone', NEW p \in Working', p # q
               PROVE  q \notin Working' /\ (Contains(started', q) => Before(started', q, p))
      BY DEF WorkersAreLater
  <1>1. NothingYet /\ WorkersAreLater
      BY DEF RetentionInv
  <1>2. CASE Acquire(r)
    <2>1. /\ q \in alone
          /\ Working # {} => q \notin Working \union {r}
        BY <1>2 DEF Acquire
    <2>2. p = r \/ p \in Working
        BY WorkingSteps
    <2>3. q # r
        BY <2>1, <2>2
    <2>4. q \notin Working'
        BY <2>1, <2>3, WorkingSteps
    <2>5. Contains(started', q) => Contains(started, q)
        BY <1>1, <2>3, StartedChanges
    <2>6. CASE p = r
        BY <1>1, <1>2, <2>4, <2>5, <2>6, StartedChanges
    <2>7. CASE p \in Working
      <3>1. Contains(started, q) => Before(started, q, p)
          BY <1>1, <2>1, <2>7 DEF WorkersAreLater
      <3> QED BY <1>1, <2>4, <2>5, <3>1, StartedChanges
    <2> QED BY <2>2, <2>6, <2>7
  <1>3. CASE ~Acquire(r)
    <2>1. started' = started /\ alone' = alone /\ Working' \subseteq Working
        BY <1>3, StartedSteps, WorkingSteps
    <2> QED BY <1>1, <2>1 DEF WorkersAreLater
  <1> QED BY <1>2, <1>3

LEMMA AloneShrinks ==
    ASSUME ArtifactsTypes, NEW r \in Run, Verify(r) \/ Die(r)
    PROVE  alone' \subseteq alone
  BY StartedSteps DEF Acquire

LEMMA RunKeepsAheadLater ==
    ASSUME ArtifactsTypes, RetentionInv, NEW r \in Run, Verify(r) \/ Die(r)
    PROVE  AheadAreLater'
  <1> SUFFICES ASSUME NEW q \in alone', NEW x \in Run, Before(recent', x, q)
               PROVE  Before(started', q, x)
      BY DEF AheadAreLater
  <1>1. NothingYet /\ WorkersAreLater /\ AheadAreLater /\ q \in alone /\ q \in Run
      BY AloneShrinks DEF RetentionInv, ArtifactsTypes
  <1>2. CASE Before(recent, x, q)
      BY <1>1, <1>2, StartedChanges DEF AheadAreLater
  <1>3. CASE x = r /\ q # r /\ r \in Working
    <2>1. Contains(recent', q)
      <3>1. recent' \in Seq(Run)
          BY RecentChanges
      <3>2. DOMAIN recent' = 1..Len(recent')
          BY <3>1
      <3> QED BY <3>2 DEF Before, Contains
    <2>2. Contains(recent, q)
        BY <1>3, <2>1, RecentChanges
    <2>3. Contains(started, q)
        BY <1>1, <2>2 DEF NothingYet
    <2>4. Before(started, q, r)
        BY <1>1, <1>3, <2>3 DEF WorkersAreLater
    <2> QED BY <1>1, <1>3, <2>4, StartedChanges
  <1> QED BY <1>2, <1>3, RecentChanges

LEMMA RunKeepsOnlyOutdated ==
    ASSUME ArtifactsTypes, RetentionInv, NEW r \in Run, Verify(r) \/ Die(r)
    PROVE  OnlyOutdated'
  <1> SUFFICES ASSUME NEW p \in Run, NEW q \in doomed'[p]
               PROVE  pc'[p] = "remove" /\ (q \in alone' /\ q # p => Outdated(q)')
      BY DEF OnlyOutdated
  <1>1. /\ NothingYet /\ WorkersAreLater /\ AheadAreLater /\ OnlyOutdated
        /\ alone' \subseteq alone /\ alone \subseteq Run
      BY AloneShrinks DEF RetentionInv, ArtifactsTypes
  <1>2. ASSUME NEW u \in Run, Outdated(u)  PROVE Outdated(u)'
      BY <1>1, <1>2, StartedChanges
  <1>3. CASE p # r
    <2>1. doomed'[p] = doomed[p] /\ pc'[p] = pc[p]
        BY <1>3, OthersAsBefore
    <2> QED BY <1>1, <1>2, <2>1 DEF OnlyOutdated
  <1>4. CASE p = r /\ List(r)
    <2>1. q \in Excess /\ pc'[r] = "remove"
        BY <1>4 DEF List, Goto, ArtifactsTypes
    <2>2. ASSUME q \in alone, q # r  PROVE Outdated(q)
      <3>1. Contains(recent, q)
          BY <2>1 DEF Excess, Contains, ArtifactsTypes
      <3>2. Contains(started, q)
          BY <1>1, <2>2, <3>1 DEF NothingYet
      <3> QED BY <1>1, <2>1, <2>2, <3>2, ExcessIsOutdated
    <2> QED BY <1>1, <1>2, <1>4, <2>1, <2>2
  <1>5. CASE p = r /\ ~List(r)
    <2>1. q \in doomed[r] /\ (pc[r] = "remove" => pc'[r] = "remove")
        BY <1>5, DoomedSteps
    <2> QED BY <1>1, <1>2, <1>5, <2>1 DEF OnlyOutdated
  <1> QED BY <1>3, <1>4, <1>5

LEMMA StepKeepsRetention ==
    ASSUME ArtifactsTypes, RetentionInv, [Next]_vars
    PROVE  RetentionInv'
  <1>1. ASSUME NEW r \in Run, Verify(r) \/ Die(r)  PROVE RetentionInv'
      BY <1>1, RunKeepsNothingYet, RunKeepsWorkersLater, RunKeepsAheadLater,
         RunKeepsOnlyOutdated DEF RetentionInv
  <1>2. CASE BreakLock \/ Aggregate \/ Edit \/ UNCHANGED vars
    <2>1. UNCHANGED <<keep, pc, ran, recent, inside, doomed, alone, started>>
        BY <1>2, WorldSteps DEF shared, history
    <2> QED BY <2>1 DEF RetentionInv, NothingYet, WorkersAreLater, AheadAreLater,
                        OnlyOutdated, Outdated, Waiting, Working, Contains, Before,
                        IsInjective
  <1> QED BY <1>1, <1>2 DEF Next

LEMMA InitRetention == Init => RetentionInv
  <1> SUFFICES ASSUME Init PROVE RetentionInv
      OBVIOUS
  <1>1. /\ \A x : ~Contains(recent, x) /\ ~Contains(started, x)
        /\ \A x, y : ~Before(recent, x, y)
        /\ IsInjective(started)
      BY DEF Init, Contains, Before, IsInjective
  <1>2. Waiting = Run /\ Working = {}
      BY DEF Init, Waiting, Working
  <1> QED BY <1>1, <1>2 DEF Init, RetentionInv, NothingYet, WorkersAreLater,
                            AheadAreLater, OnlyOutdated

\* The snapshot of a run that has ended and had met no other goes only when at
\* least as many runs as are kept have begun after it, for any number of runs and
\* any limit, whoever dies, loses its lock or prunes at the same time.
THEOREM RetentionKeepsNewest == Spec => KeepsNewest
  <1>1. Init => RetentionInv
      BY InitRetention
  <1>2. ArtifactsTypes /\ RetentionInv /\ [Next]_vars =>
            \A r \in alone \ Working :
                Contains(recent, r) /\ ~Contains(recent', r) =>
                    \E i \in DOMAIN started : started[i] = r /\ i + keep =< Len(started)
    <2> SUFFICES ASSUME ArtifactsTypes, RetentionInv, [Next]_vars,
                        NEW q \in alone \ Working,
                        Contains(recent, q), ~Contains(recent', q)
                 PROVE  Outdated(q)
        BY DEF Outdated
    <2>1. PICK r \in Run : Verify(r) \/ Die(r)
        BY WorldSteps DEF Next, shared
    <2>2. \A x : Contains(Without(recent, x), q) <=> Contains(recent, q) /\ q # x
        BY WithoutProperties DEF ArtifactsTypes
    <2>3. CASE r \in Working /\ recent' = <<r>> \o Without(recent, r)
      <3>1. q # r
          BY <2>3
      <3> DEFINE t == Without(recent, r)
      <3>2. t \in Seq(Run) /\ IsInjective(t) /\ Contains(t, q) /\ ~Contains(t, r)
          BY <2>2, <3>1, WithoutProperties DEF ArtifactsTypes
      <3> HIDE DEF t
      <3>3. Contains(<<r>> \o t, q)
          BY <3>2, InFront
      <3> QED BY <2>3, <3>3 DEF t
    <2>4. CASE pc[r] = "remove" /\ \E x \in doomed[r] : recent' = Without(recent, x)
      <3>1. q \in doomed[r]
          BY <2>2, <2>4
      <3>2. q # r
          BY <2>4 DEF Working
      <3> QED BY <3>1, <3>2 DEF RetentionInv, OnlyOutdated
    <2> QED BY <2>1, <2>3, <2>4, RecentSteps
  <1>3. Spec => [](ArtifactsTypes /\ RetentionInv)
      BY InitArtifacts, StepArtifacts, <1>1, StepKeepsRetention, PTL DEF Spec
  <1> QED BY <1>2, <1>3, PTL DEF Spec, KeepsNewest

-----------------------------------------------------------------------------
(* What the last run leaves. *)

Whole(r) ==
    DOMAIN ran[r] \union {"manifest"} \union (IF Failed(r) THEN {"failure"} ELSE {})

Pruned == {"summary", "result", "release", "done"}

\* What the run r has written so far, if it is the last one and met no other.
Mine(r) ==
    /\ \A q \in Working : q = r
    /\ pc[r] \in {"check", "latest", "snapshot"} => inside[r] = DOMAIN ran[r]
    /\ pc[r] \in Past \ {"dead"} => latest.run = r
    /\ pc[r] = "failure" => Failed(r) /\ inside[r] = DOMAIN ran[r] \union {"manifest"}
    /\ keep > 0 /\ pc[r] \in {"note", "list", "remove"} \union Pruned =>
          inside[r] = Whole(r)
    /\ keep > 0 /\ pc[r] \in {"note", "list", "remove"} =>
          Len(recent) > 0 /\ recent[1] = r
    /\ pc[r] \in {"list", "remove"} \union Pruned =>
          note = IF Failed(r) THEN r ELSE None
    /\ pc[r] = "remove" => doomed[r] = Excess
    /\ pc[r] \in Pruned => Excess = {}
    /\ pc[r] \in Pruned \ {"summary"} => summary = r
    /\ pc[r] \in {"release", "done"} => result = r

LastIsWhole == started # <<>> /\ Last(started) \in alone => Mine(Last(started))

\* Removing an excess directory leaves the other excess ones, and the first.
LEMMA ExcessWithout ==
    ASSUME ArtifactsTypes, NEW q \in Excess, recent' = Without(recent, q), keep' = keep
    PROVE  /\ Excess' = Excess \ {q}
           /\ keep > 0 => /\ q # recent[1]
                          /\ Len(recent') > 0 /\ recent'[1] = recent[1]
  <1>1. /\ recent \in Seq(Run) /\ IsInjective(recent)
        /\ DOMAIN recent = 1..Len(recent) /\ Len(recent) \in Nat /\ keep \in Nat
      BY DEF ArtifactsTypes
  <1>2. PICK p \in (keep + 1)..Len(recent) : recent[p] = q
      BY DEF Excess
  <1>3. p \in 1..Len(recent) /\ p > keep
      BY <1>1, <1>2
  <1>4. /\ Len(recent') = Len(recent) - 1
        /\ \A i \in 1..(Len(recent) - 1) :
              recent'[i] = IF i < p THEN recent[i] ELSE recent[i + 1]
      BY <1>1, <1>2, <1>3, WithoutAt
  <1>5. \A i \in 1..Len(recent) : recent[i] = q => i = p
      BY <1>1, <1>2, <1>3 DEF IsInjective
  <1>6. ASSUME NEW x \in Excess'  PROVE x \in Excess \ {q}
    <2>1. PICK i \in (keep + 1)..(Len(recent) - 1) : recent'[i] = x
        BY <1>4, <1>6 DEF Excess
    <2>2. i \in 1..(Len(recent) - 1)
        BY <1>1, <2>1
    <2>3. CASE i < p
      <3>1. x = recent[i] /\ i \in (keep + 1)..Len(recent) /\ i \in 1..Len(recent) /\ i # p
          BY <1>1, <1>3, <1>4, <2>1, <2>2, <2>3
      <3> QED BY <1>5, <3>1 DEF Excess
    <2>4. CASE ~(i < p)
      <3>1. /\ x = recent[i + 1] /\ i + 1 \in (keep + 1)..Len(recent)
            /\ i + 1 \in 1..Len(recent) /\ i + 1 # p
          BY <1>1, <1>3, <1>4, <2>1, <2>2, <2>4
      <3> QED BY <1>5, <3>1 DEF Excess
    <2> QED BY <2>3, <2>4
  <1>7. ASSUME NEW x \in Excess \ {q}  PROVE x \in Excess'
    <2>1. PICK k \in (keep + 1)..Len(recent) : recent[k] = x
        BY <1>7 DEF Excess
    <2>2. k # p
        BY <1>2, <1>7, <2>1
    <2>3. CASE k < p
      <3>1. /\ k \in (keep + 1)..(Len(recent) - 1) /\ k \in 1..(Len(recent) - 1)
          BY <1>1, <1>3, <2>1, <2>3
      <3>2. recent'[k] = x
          BY <1>4, <2>1, <2>3, <3>1
      <3> QED BY <1>4, <3>1, <3>2 DEF Excess
    <2>4. CASE k > p
      <3>1. /\ k - 1 \in (keep + 1)..(Len(recent) - 1) /\ k - 1 \in 1..(Len(recent) - 1)
            /\ ~(k - 1 < p) /\ (k - 1) + 1 = k
          BY <1>1, <1>3, <2>1, <2>4
      <3>2. recent'[k - 1] = x
          BY <1>4, <2>1, <3>1
      <3> QED BY <1>4, <3>1, <3>2 DEF Excess
    <2> QED BY <1>1, <1>3, <2>1, <2>2, <2>3, <2>4
  <1>8. ASSUME keep > 0
        PROVE  q # recent[1] /\ Len(recent') > 0 /\ recent'[1] = recent[1]
    <2>1. 1 \in 1..Len(recent) /\ 1 # p /\ 1 < p /\ 1 \in 1..(Len(recent) - 1)
        BY <1>1, <1>3, <1>8
    <2> QED BY <1>1, <1>4, <1>5, <2>1
  <1> QED BY <1>6, <1>7, <1>8

\* An entry of r puts r in front.
LEMMA EnteredFirst ==
    ASSUME ArtifactsTypes, NEW r \in Run, recent' = <<r>> \o Without(recent, r)
    PROVE  Len(recent') > 0 /\ recent'[1] = r
  <1> DEFINE t == Without(recent, r)
  <1>1. t \in Seq(Run) /\ IsInjective(t) /\ ~Contains(t, r)
      BY WithoutProperties DEF ArtifactsTypes
  <1> HIDE DEF t
  <1>2. Len(<<r>> \o t) = Len(t) + 1 /\ (<<r>> \o t)[1] = r /\ Len(t) \in Nat
      BY <1>1, InFront
  <1>3. recent' = <<r>> \o t
      BY DEF t
  <1> QED BY <1>2, <1>3

LEMMA OwnStepKeepsMine ==
    ASSUME ArtifactsTypes, NEW r \in Run, Mine(r), Verify(r) \/ Die(r), r \in Working
    PROVE  Mine(r)'
  <1>1. ~Acquire(r) /\ ~Fingerprint(r)
      BY DEF Acquire, Fingerprint, Working
  <1>2. \A q \in Working' : q = r
      BY <1>1, WorkingSteps DEF Mine
  <1>3. pc \in [Run -> Lines] /\ DOMAIN ran = Run /\ DOMAIN inside = Run
        /\ DOMAIN doomed = Run
      BY DEF ArtifactsTypes
  <1> USE DEF Goto, Mine, Past, Lines, Pruned, Whole, Failed
  <1>4. CASE RunCheck(r)
    <2>1. pc[r] = "check" /\ pc'[r] = "check"
        BY <1>4 DEF RunCheck
    <2>2. inside'[r] = DOMAIN ran'[r]
        BY <1>3, <1>4, <2>1 DEF RunCheck, Enter
    <2> QED BY <1>2, <2>1, <2>2
  <1>5. CASE LayoutFails(r)
    <2>1. pc[r] = "check" /\ pc'[r] = "latest"
        BY <1>3, <1>5 DEF LayoutFails
    <2>2. inside'[r] = DOMAIN ran'[r]
        BY <1>3, <1>5, <2>1 DEF LayoutFails, Enter
    <2> QED BY <1>2, <2>1, <2>2
  <1>6. CASE ChecksDone(r)
      BY <1>2, <1>3, <1>6 DEF ChecksDone, shared
  <1>7. CASE WriteLatest(r)
      BY <1>2, <1>3, <1>7 DEF WriteLatest
  <1>8. CASE WriteSnapshot(r)
    <2>1. Len(recent') > 0 /\ recent'[1] = r
        BY <1>8, EnteredFirst DEF WriteSnapshot, Enter
    <2>2. /\ pc[r] = "snapshot" /\ pc'[r] = IF Failed(r) THEN "failure" ELSE "note"
          /\ inside'[r] = DOMAIN ran[r] \union {"manifest"}
          /\ UNCHANGED <<ran, latest>> /\ latest.run = r
        BY <1>3, <1>8 DEF WriteSnapshot, Enter
    <2> QED BY <1>2, <2>1, <2>2
  <1>9. CASE WriteFailure(r)
    <2>1. Len(recent') > 0 /\ recent'[1] = r
        BY <1>9, EnteredFirst DEF WriteFailure, Enter
    <2>2. /\ pc[r] = "failure" /\ pc'[r] = "note" /\ Failed(r)
          /\ inside'[r] = DOMAIN ran[r] \union {"manifest"} \union {"failure"}
          /\ UNCHANGED <<ran, latest>> /\ latest.run = r
        BY <1>3, <1>9 DEF WriteFailure, Enter
    <2> QED BY <1>2, <2>1, <2>2
  <1>10. CASE SetNote(r)
      BY <1>2, <1>3, <1>10 DEF SetNote
  <1>11. CASE List(r)
    <2>1. /\ UNCHANGED <<ran, inside, latest, note, recent, keep>>
          /\ pc[r] = "list" /\ doomed'[r] = Excess
          /\ pc'[r] = IF Excess = {} THEN "summary" ELSE "remove"
        BY <1>3, <1>11 DEF List, shared
    <2>2. Excess' = Excess
        BY <2>1 DEF Excess
    <2> QED BY <1>2, <2>1, <2>2
  <1>12. CASE RemoveSnapshot(r)
    <2>1. PICK q \in doomed[r] :
              /\ recent' = Without(recent, q)
              /\ inside' = [inside EXCEPT ![q] = {}]
              /\ doomed' = [doomed EXCEPT ![r] = @ \ {q}]
              /\ pc' = [pc EXCEPT ![r] = IF doomed[r] = {q} THEN "summary" ELSE "remove"]
        BY <1>12 DEF RemoveSnapshot
    <2>2. UNCHANGED <<keep, ran, latest, note>> /\ pc[r] = "remove" /\ doomed[r] = Excess
        BY <1>12 DEF RemoveSnapshot
    <2>3. /\ Excess' = Excess \ {q}
          /\ keep > 0 => q # recent[1] /\ Len(recent') > 0 /\ recent'[1] = recent[1]
        BY <2>1, <2>2, ExcessWithout
    <2>4. doomed'[r] = Excess' /\ pc'[r] = IF Excess' = {} THEN "summary" ELSE "remove"
        BY <1>3, <2>1, <2>2, <2>3
    <2>5. keep > 0 => inside'[r] = Whole(r) /\ recent'[1] = r
        BY <1>3, <2>1, <2>2, <2>3
    <2> QED BY <1>2, <2>2, <2>3, <2>4, <2>5
  <1>13. CASE WriteSummary(r)
    <2>1. /\ UNCHANGED <<ran, inside, latest, note, recent, keep>>
          /\ pc[r] = "summary" /\ pc'[r] = "result" /\ summary' = r
        BY <1>3, <1>13 DEF WriteSummary
    <2>2. Excess' = Excess
        BY <2>1 DEF Excess
    <2> QED BY <1>2, <2>1, <2>2
  <1>14. CASE WriteResult(r)
    <2>1. /\ UNCHANGED <<ran, inside, latest, note, recent, keep, summary>>
          /\ pc[r] = "result" /\ pc'[r] = "release" /\ result' = r
        BY <1>3, <1>14 DEF WriteResult
    <2>2. Excess' = Excess
        BY <2>1 DEF Excess
    <2> QED BY <1>2, <2>1, <2>2
  <1>15. CASE Release(r)
    <2>1. /\ UNCHANGED <<ran, inside, latest, note, recent, keep, summary, result>>
          /\ pc[r] = "release" /\ pc'[r] = "done"
        BY <1>3, <1>15 DEF Release, shared
    <2>2. Excess' = Excess
        BY <2>1 DEF Excess
    <2> QED BY <1>2, <2>1, <2>2
  <1>16. CASE Die(r)
      BY <1>2, <1>3, <1>16 DEF Die
  <1> QED BY <1>1, <1>4, <1>5, <1>6, <1>7, <1>8, <1>9, <1>10, <1>11, <1>12, <1>13,
             <1>14, <1>15, <1>16 DEF Verify

LEMMA LastOfAppend ==
    ASSUME NEW S, NEW s \in Seq(S), NEW e \in S
    PROVE  Append(s, e) # <<>> /\ Last(Append(s, e)) = e
  BY DEF Last

\* A step that changes neither what r has written nor where it is.
LEMMA SameForMine ==
    ASSUME NEW r \in Run, Mine(r), UNCHANGED <<keep, shared>>,
           pc'[r] = pc[r], ran'[r] = ran[r], doomed'[r] = doomed[r],
           Working' \subseteq Working
    PROVE  Mine(r)'
  <1>1. Excess' = Excess
      BY DEF Excess, shared
  <1>2. Failed(r)' <=> Failed(r)
      BY DEF Failed
  <1>3. Whole(r)' = Whole(r)
      BY <1>2 DEF Whole
  <1> QED BY <1>1, <1>2, <1>3 DEF Mine, shared

LEMMA StepKeepsMine ==
    ASSUME ArtifactsTypes, RetentionInv, [Next]_vars,
           NEW l \in Run, Contains(started, l), Mine(l),
           \A r \in Run : ~Acquire(r)
    PROVE  Mine(l)' /\ UNCHANGED <<started, alone>>
  <1>1. ASSUME NEW r \in Run, Verify(r) \/ Die(r)
        PROVE  Mine(l)' /\ UNCHANGED <<started, alone>>
    <2>1. UNCHANGED <<started, alone>>
        BY <1>1, StartedSteps
    <2>2. CASE r = l
      <3>1. r \notin Waiting
          BY <2>2 DEF RetentionInv, NothingYet
      <3>2. r \in Working
          BY <1>1, <3>1, OwnPlace
      <3> QED BY <1>1, <2>1, <2>2, <3>2, OwnStepKeepsMine
    <2>3. CASE r # l
      <3>1. r \notin Working
          BY <2>3 DEF Mine
      <3>2. Fingerprint(r)
          BY <1>1, <3>1, OwnPlace
      <3>3. UNCHANGED <<keep, ran, shared, doomed>>
          BY <3>2 DEF Fingerprint
      <3>4. pc'[l] = pc[l] /\ Working' \subseteq Working
          BY <1>1, <2>3, OthersAsBefore, WorkingSteps
      <3> QED BY <2>1, <3>3, <3>4, SameForMine
    <2> QED BY <2>2, <2>3
  <1>2. CASE BreakLock \/ Aggregate \/ Edit \/ UNCHANGED vars
    <2>1. UNCHANGED <<keep, pc, ran, shared, doomed, history>>
        BY <1>2, WorldSteps
    <2>2. Working' = Working
        BY <2>1 DEF Working
    <2> QED BY <2>1, <2>2, SameForMine DEF history
  <1> QED BY <1>1, <1>2 DEF Next

\* A run that begins while no other works has all of its writing before it.
LEMMA BeginningIsMine ==
    ASSUME ArtifactsTypes, RetentionInv, NEW r \in Run, Acquire(r), r \in alone'
    PROVE  Mine(r)'
  <1>1. Working = {} /\ UNCHANGED <<inside, ran>>
    <2>1. UNCHANGED <<inside, ran>> /\ alone' = IF Working = {} THEN alone
                                                 ELSE alone \ (Working \union {r})
        BY DEF Acquire, shared
    <2> QED BY <2>1
  <1>2. pc'[r] = "check" /\ r \in Waiting
      BY DEF Acquire, Goto, Waiting, ArtifactsTypes
  <1>3. inside[r] = {} /\ DOMAIN ran[r] = {}
      BY <1>2 DEF RetentionInv, NothingYet
  <1>4. \A q \in Working' : q = r
      BY <1>1, WorkingSteps DEF Verify
  <1> QED BY <1>1, <1>2, <1>3, <1>4 DEF Mine, Past, Lines, Pruned

LEMMA StepKeepsLast ==
    ASSUME ArtifactsTypes, RetentionInv, LastIsWhole, [Next]_vars
    PROVE  LastIsWhole'
  <1>1. ASSUME NEW r \in Run, Acquire(r)  PROVE LastIsWhole'
    <2>1. started' = Append(started, r)
        BY <1>1 DEF Acquire
    <2>2. Last(started') = r
        BY <2>1, LastOfAppend DEF ArtifactsTypes
    <2>3. r \in alone' => Mine(r)'
        BY <1>1, BeginningIsMine
    <2> QED BY <2>2, <2>3 DEF LastIsWhole
  <1>2. ASSUME \A r \in Run : ~Acquire(r)  PROVE LastIsWhole'
    <2>1. CASE started = <<>> \/ Last(started) \notin alone
      <3>1. UNCHANGED <<started, alone>>
        <4>1. ASSUME NEW r \in Run, Verify(r) \/ Die(r)  PROVE UNCHANGED <<started, alone>>
            BY <1>2, <4>1, StartedSteps
        <4>2. CASE BreakLock \/ Aggregate \/ Edit \/ UNCHANGED vars
            BY <4>2, WorldSteps DEF history
        <4> QED BY <4>1, <4>2 DEF Next
      <3> QED BY <2>1, <3>1 DEF LastIsWhole
    <2>2. ASSUME started # <<>>, Last(started) \in alone  PROVE LastIsWhole'
      <3>1. PICK l \in Run : l = Last(started) /\ Contains(started, l)
        <4>1. Len(started) \in 1..Len(started)
            BY <2>2 DEF ArtifactsTypes
        <4> QED BY <4>1 DEF ArtifactsTypes, Last, Contains
      <3>2. Mine(l)
          BY <2>2, <3>1 DEF LastIsWhole
      <3>3. Mine(l)' /\ UNCHANGED <<started, alone>>
          BY <1>2, <3>1, <3>2, StepKeepsMine
      <3>4. Last(started') = l
          BY <3>1, <3>3
      <3> QED BY <3>3, <3>4 DEF LastIsWhole
    <2> QED BY <2>1, <2>2
  <1> QED BY <1>1, <1>2

\* Once the last run has ended and met no other, the shared files are about it,
\* its snapshot is whole and no more are kept than configured, whatever crashed,
\* overlapping or pruned runs have left before, for any runs and any limit.
THEOREM LastRunStandsAlone == Spec => []StandsAlone
  <1>1. Init => LastIsWhole
      BY DEF Init, LastIsWhole
  <1>2. Init => RetentionInv
      BY InitRetention
  <1>3. ArtifactsTypes /\ LastIsWhole => StandsAlone
    <2> SUFFICES ASSUME ArtifactsTypes, LastIsWhole, started # <<>>,
                        NEW r, r = Last(started), pc[r] = "done", r \in alone
                 PROVE  /\ latest.run = r /\ summary = r /\ result = r
                        /\ note = IF Failed(r) THEN r ELSE None
                        /\ keep > 0 => inside[r] = Whole(r)
                        /\ Len(recent) =< keep
        BY DEF StandsAlone, Whole
    <2>1. Mine(r)
        BY DEF LastIsWhole
    <2>2. Excess = {}
        BY <2>1 DEF Mine, Pruned
    <2>3. Len(recent) =< keep
      <3>1. Len(recent) \in Nat /\ keep \in Nat
          BY DEF ArtifactsTypes
      <3>2. SUFFICES ASSUME Len(recent) > keep  PROVE FALSE
          BY <3>1
      <3>3. Len(recent) \in (keep + 1)..Len(recent)
          BY <3>1, <3>2
      <3>4. recent[Len(recent)] \in Excess
          BY <3>3 DEF Excess
      <3> QED BY <2>2, <3>4
    <2> QED BY <2>1, <2>3 DEF Mine, Pruned, Past, Lines
  <1>4. Spec => [](ArtifactsTypes /\ RetentionInv /\ LastIsWhole)
      BY InitArtifacts, StepArtifacts, <1>1, <1>2, StepKeepsRetention, StepKeepsLast,
         PTL DEF Spec
  <1> QED BY <1>3, <1>4, PTL

\* As long as nobody edits, dies or waits so long that the lock is broken, the
\* lock keeps runs apart.
KeptApart == upsets = 0 => alone = Run /\ Working \subseteq {holder}

LEMMA StepKeepsApart == ArtifactsTypes /\ KeptApart /\ [Next]_vars => KeptApart'
  <1> SUFFICES ASSUME ArtifactsTypes, KeptApart, [Next]_vars, upsets' = 0
               PROVE  alone' = Run /\ Working' \subseteq {holder'}
      BY DEF KeptApart
  <1>1. ASSUME NEW r \in Run, Verify(r) \/ Die(r)
        PROVE  alone' = Run /\ Working' \subseteq {holder'}
    <2>1. ~Die(r)
        BY DEF Die, Upset, ArtifactsTypes
    <2>2. CASE Acquire(r)
      <3>1. upsets = 0 /\ holder = None /\ holder' = r
          BY <2>2 DEF Acquire
      <3>2. Working = {}
          BY <3>1, ArtifactsAssumption DEF KeptApart, Working
      <3>3. alone' = alone
          BY <2>2, <3>2 DEF Acquire
      <3>4. Working' \ {r} = {}
          BY <1>1, <3>2, WorkingSteps
      <3> QED BY <3>1, <3>3, <3>4 DEF KeptApart
    <2>3. CASE Release(r)
      <3>1. upsets = 0 /\ alone' = alone /\ r \in Working /\ r \notin Working'
          BY <2>3 DEF Release, Goto, Working, history, ArtifactsTypes
      <3>2. Working' \subseteq Working \ {r}
          BY <1>1, <3>1, WorkingSteps
      <3> QED BY <3>1, <3>2 DEF KeptApart
    <2>4. CASE ~Acquire(r) /\ ~Release(r)
      <3>1. UNCHANGED <<holder, alone, upsets>>
          BY <1>1, <2>1, <2>4
             DEF Verify, Fingerprint, RunCheck, LayoutFails, ChecksDone, WriteLatest,
                 WriteSnapshot, WriteFailure, SetNote, List, RemoveSnapshot,
                 WriteSummary, WriteResult, history
      <3>2. Working' \subseteq Working
          BY <1>1, <2>4, WorkingSteps
      <3> QED BY <3>1, <3>2 DEF KeptApart
    <2> QED BY <2>2, <2>3, <2>4
  <1>2. CASE BreakLock \/ Edit
      BY <1>2 DEF BreakLock, Edit, Upset, ArtifactsTypes
  <1>3. CASE Aggregate \/ UNCHANGED vars
    <2>1. UNCHANGED <<holder, alone, upsets, pc>>
        BY <1>3 DEF Aggregate, vars, history
    <2> QED BY <2>1 DEF KeptApart, Working
  <1> QED BY <1>1, <1>2, <1>3 DEF Next

\* What retention and the shared files promise to runs that met no other they
\* promise to every run, as long as nothing upsets the lock.
THEOREM LockKeepsRunsApart == Spec => [](upsets = 0 => alone = Run)
  <1>1. Init => KeptApart
      BY DEF Init, KeptApart, Working
  <1>2. KeptApart => (upsets = 0 => alone = Run)
      BY DEF KeptApart
  <1> QED BY <1>1, <1>2, InitArtifacts, StepArtifacts, StepKeepsApart, PTL DEF Spec

-----------------------------------------------------------------------------
(* The detached job. *)

\* Only a launcher that is through writes "running", and it writes nothing
\* afterwards; a child about to write a verdict has one.
IInv ==
    /\ TypeOK
    /\ child \in {"update", "hook"} => verdict \in Terminal
    /\ job = "running" => launcher = "launched"
    /\ child = "verify" => job = "running"

\* A terminal record is the child's verdict, then its exit, as long as the
\* launcher is on the way to a launch and the file could always be reached.
Real ==
    faults = 0 /\ launcher \in {"read", "write", "launched"} /\ job \in Terminal =>
        /\ child = "exiting" => job = verdict
        /\ child = "ended" /\ exit # "killed" => job = exit

\* A job that was told to be over has a child past its checks, on the way to
\* that end or, after a signal, to a cancellation.
ToldReal ==
    faults = 0 /\ launcher \in {"read", "write", "launched"} =>
        /\ told \in Terminal \/ job \in Terminal =>
             /\ child \in {"update", "exiting", "ended"}
             /\ child = "update" => verdict = "cancelled" /\ signals > 0
        /\ told \in Terminal =>
             /\ child = "exiting" =>
                  verdict = told \/ (verdict = "cancelled" /\ signals > 0)
             /\ child = "ended" /\ exit # "killed" =>
                  exit = told \/ (exit = "cancelled" /\ signals > 0)

\* Before the spawn there is neither a result nor anyone who was told one.
Unspawned ==
    /\ launcher = "prepare" => job = "absent"
    /\ launcher = "spawn" => job = "starting"
    /\ launcher \in {"prepare", "spawn"} =>
         child = "none" /\ (faults = 0 => told \notin Terminal)

USE DEF childVars, clocks, launcherVars, Fault

LEMMA InitIInv == JobInit => IInv
  BY JobAssumption DEF JobInit, IInv, TypeOK, Status, LauncherLines, ChildLines,
                       Terminal

LEMMA LauncherKeepsIInv == IInv /\ LauncherStep => IInv'
  <1> SUFFICES ASSUME IInv, LauncherStep PROVE IInv'
      OBVIOUS
  <1> USE JobAssumption DEF IInv, TypeOK, Status, LauncherLines, ChildLines,
                            Terminal
  <1>1. CASE Prepare
      BY <1>1 DEF Prepare
  <1>2. CASE Spawn
      BY <1>2 DEF Spawn
  <1>3. CASE ReadState
      BY <1>3 DEF ReadState
  <1>4. CASE WriteRunning
      BY <1>4 DEF WriteRunning
  <1>5. CASE StopChild
      BY <1>5 DEF StopChild, Interrupt, Alive
  <1>6. CASE ReapChild
      BY <1>6 DEF ReapChild, Alive
  <1>7. CASE RecordError
      BY <1>7 DEF RecordError
  <1> QED BY <1>1, <1>2, <1>3, <1>4, <1>5, <1>6, <1>7 DEF LauncherStep

LEMMA ChildKeepsIInv == IInv /\ ChildStep => IInv'
  <1> SUFFICES ASSUME IInv, ChildStep PROVE IInv'
      OBVIOUS
  <1> USE JobAssumption DEF IInv, TypeOK, Status, LauncherLines, ChildLines,
                            Terminal
  <1>1. CASE Boot
      BY <1>1 DEF Boot
  <1>2. CASE AwaitRunning
      BY <1>2 DEF AwaitRunning
  <1>3. CASE Refuse
      BY <1>3 DEF Refuse
  <1>4. CASE RunVerifier
      BY <1>4 DEF RunVerifier
  <1>5. CASE WriteTerminal
      BY <1>5 DEF WriteTerminal
  <1>6. CASE UpdateFails
      BY <1>6 DEF UpdateFails
  <1>7. CASE Exit
      BY <1>7 DEF Exit
  <1>8. CASE ReadFails
      BY <1>8 DEF ReadFails
  <1> QED BY <1>1, <1>2, <1>3, <1>4, <1>5, <1>6, <1>7, <1>8 DEF ChildStep

LEMMA WorldKeepsIInv ==
    IInv /\ (ObserverStep \/ Signal \/ KillChild \/ KillLauncher \/ Tick) => IInv'
  <1> SUFFICES ASSUME IInv,
                      ObserverStep \/ Signal \/ KillChild \/ KillLauncher \/ Tick
               PROVE  IInv'
      OBVIOUS
  <1> USE JobAssumption DEF IInv, TypeOK, Status, LauncherLines, ChildLines,
                            Terminal
  <1>1. CASE Signal
      BY <1>1 DEF Signal, Interrupt, Alive
  <1>2. CASE KillChild
      BY <1>2 DEF KillChild
  <1>3. CASE KillLauncher
      BY <1>3 DEF KillLauncher
  <1>4. CASE Tick
      BY <1>4 DEF Tick, LauncherBusy, Waits
  <1>5. CASE ObserverStep
      BY <1>5 DEF ObserverStep, Observe, ObserveFails, GiveUp, Told
  <1> QED BY <1>1, <1>2, <1>3, <1>4, <1>5

LEMMA InductiveInvariant == JobSpec => []IInv
  <1>1. IInv /\ [JobNext]_jobVars => IInv'
    <2>1. IInv /\ UNCHANGED jobVars => IInv'
        BY DEF IInv, TypeOK, jobVars
    <2> QED BY <2>1, LauncherKeepsIInv, ChildKeepsIInv, WorldKeepsIInv DEF JobNext
  <1> QED BY InitIInv, <1>1, PTL DEF JobSpec

\* Launcher and child are always at a line of the protocol and the state file
\* holds one of the statuses it may hold.
THEOREM TypeCorrect == JobSpec => []TypeOK
  <1>1. IInv => TypeOK
      BY DEF IInv
  <1> QED BY <1>1, InductiveInvariant, PTL

\* The checks only ever run behind a launch that succeeded and a record that
\* says "running", whatever fails in the launcher and whoever is killed.
THEOREM VerificationIsRecorded == JobSpec => []VerifiesBehindRecord
  <1>1. IInv => VerifiesBehindRecord
      BY DEF IInv, VerifiesBehindRecord
  <1> QED BY <1>1, InductiveInvariant, PTL

LEMMA StepKeepsReal == IInv /\ Real /\ [JobNext]_jobVars => Real'
  <1> SUFFICES ASSUME IInv, Real, [JobNext]_jobVars PROVE Real'
      OBVIOUS
  <1> USE JobAssumption DEF IInv, Real, TypeOK, Terminal
  <1>1. CASE LauncherStep
    <2>1. CASE WriteRunning
        BY <2>1 DEF WriteRunning
    <2>2. CASE StopChild \/ ReapChild \/ RecordError
        BY <2>2 DEF StopChild, ReapChild, RecordError
    <2>3. CASE Prepare \/ Spawn \/ ReadState
        BY <2>3 DEF Prepare, Spawn, ReadState
    <2> QED BY <1>1, <2>1, <2>2, <2>3 DEF LauncherStep
  <1>2. CASE ChildStep
    <2>1. CASE WriteTerminal \/ Exit
        BY <2>1 DEF WriteTerminal, Exit
    <2>2. CASE Refuse
        BY <2>2 DEF Refuse
    <2>3. CASE UpdateFails \/ ReadFails
        BY <2>3 DEF UpdateFails, ReadFails
    <2>4. CASE Boot \/ AwaitRunning \/ RunVerifier
        BY <2>4 DEF Boot, AwaitRunning, RunVerifier
    <2> QED BY <1>2, <2>1, <2>2, <2>3, <2>4 DEF ChildStep
  <1>3. CASE Signal
      BY <1>3 DEF Signal, Interrupt, Alive
  <1>4. CASE KillChild \/ KillLauncher \/ Tick
      BY <1>4 DEF KillChild, KillLauncher, Tick
  <1>5. CASE ObserverStep
      BY <1>5 DEF ObserverStep, Observe, ObserveFails, GiveUp
  <1>6. CASE UNCHANGED jobVars
      BY <1>6 DEF jobVars
  <1> QED BY <1>1, <1>2, <1>3, <1>4, <1>5, <1>6 DEF JobNext

\* A terminal record tells how the child ended, whatever signals arrive while
\* it writes it, unless the file could not be reached or the child was killed.
THEOREM RecordTellsTheEnd == JobSpec => []RecordIsReal
  <1>1. JobInit => Real
      BY DEF JobInit, Real
  <1>2. JobSpec => []Real
      BY <1>1, StepKeepsReal, InductiveInvariant, PTL DEF JobSpec
  <1>3. Real => RecordIsReal
      BY DEF Real, RecordIsReal
  <1> QED BY <1>2, <1>3, PTL

LEMMA StepKeepsUnspawned == IInv /\ Unspawned /\ [JobNext]_jobVars => Unspawned'
  <1> SUFFICES ASSUME IInv, Unspawned, [JobNext]_jobVars PROVE Unspawned'
      OBVIOUS
  <1> USE JobAssumption DEF IInv, Unspawned, TypeOK, Terminal
  <1>1. CASE LauncherStep
      BY <1>1 DEF LauncherStep, Prepare, Spawn, ReadState, WriteRunning,
                  StopChild, ReapChild, RecordError
  <1>2. CASE ChildStep
      BY <1>2 DEF ChildStep, Boot, AwaitRunning, Refuse, ReadFails, RunVerifier,
                  WriteTerminal, UpdateFails, Exit
  <1>3. CASE ObserverStep
      BY <1>3 DEF ObserverStep, Observe, ObserveFails, GiveUp, Told
  <1>4. CASE Signal \/ KillChild \/ KillLauncher \/ Tick
      BY <1>4 DEF Signal, Interrupt, Alive, KillChild, KillLauncher, Tick
  <1>5. CASE UNCHANGED jobVars
      BY <1>5 DEF jobVars
  <1> QED BY <1>1, <1>2, <1>3, <1>4, <1>5 DEF JobNext

LEMMA StepKeepsToldReal ==
    IInv /\ Real /\ Unspawned /\ ToldReal /\ [JobNext]_jobVars => ToldReal'
  <1> SUFFICES ASSUME IInv, Real, Unspawned, ToldReal, [JobNext]_jobVars
               PROVE  ToldReal'
      OBVIOUS
  <1> USE JobAssumption DEF IInv, ToldReal, TypeOK, Terminal
  <1>1. CASE LauncherStep
    <2>1. CASE Prepare \/ Spawn
        BY <2>1 DEF Prepare, Spawn, Unspawned
    <2>2. CASE ReadState \/ WriteRunning
        BY <2>2 DEF ReadState, WriteRunning
    <2>3. CASE StopChild \/ ReapChild \/ RecordError
        BY <2>3 DEF StopChild, ReapChild, RecordError
    <2> QED BY <1>1, <2>1, <2>2, <2>3 DEF LauncherStep
  <1>2. CASE ChildStep
    <2>1. CASE WriteTerminal \/ Exit
        BY <2>1 DEF WriteTerminal, Exit
    <2>2. CASE Refuse
        BY <2>2 DEF Refuse
    <2>3. CASE UpdateFails \/ ReadFails
        BY <2>3 DEF UpdateFails, ReadFails
    <2>4. CASE Boot \/ AwaitRunning \/ RunVerifier
        BY <2>4 DEF Boot, AwaitRunning, RunVerifier
    <2> QED BY <1>2, <2>1, <2>2, <2>3, <2>4 DEF ChildStep
  <1>3. CASE ObserverStep
    <2>1. CASE Observe
        BY <2>1 DEF Observe, Told, Real
    <2>2. CASE ObserveFails \/ GiveUp
        BY <2>2 DEF ObserveFails, GiveUp
    <2> QED BY <1>3, <2>1, <2>2 DEF ObserverStep
  <1>4. CASE Signal
      BY <1>4 DEF Signal, Interrupt, Alive
  <1>5. CASE KillChild \/ KillLauncher \/ Tick
      BY <1>5 DEF KillChild, KillLauncher, Tick
  <1>6. CASE UNCHANGED jobVars
      BY <1>6 DEF jobVars
  <1> QED BY <1>1, <1>2, <1>3, <1>4, <1>5, <1>6 DEF JobNext

\* What the wait for the job is told is how the child ends, for any number of
\* signals and any delay of the launcher; only a signal can still turn a result
\* that was already told into a cancellation.
THEOREM ToldTheEnd == JobSpec => []ToldIsTheEnd
  <1>1. JobInit => Real /\ Unspawned /\ ToldReal
      BY DEF JobInit, Real, Unspawned, ToldReal, Terminal
  <1>2. JobSpec => [](Real /\ Unspawned /\ ToldReal)
      BY <1>1, StepKeepsReal, StepKeepsUnspawned, StepKeepsToldReal,
         InductiveInvariant, PTL DEF JobSpec
  <1>3. ToldReal => ToldIsTheEnd
      BY DEF ToldReal, ToldIsTheEnd
  <1> QED BY <1>2, <1>3, PTL

=============================================================================
