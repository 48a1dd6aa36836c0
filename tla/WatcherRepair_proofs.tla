------------------------ MODULE WatcherRepair_proofs ------------------------
(***************************************************************************)
(* Proofs about watcher repair, for any clients, watchers and bounds.       *)
(***************************************************************************)
EXTENDS WatcherRepair, TLAPS

\* What the record's age is measured from is no older than the claim of a
\* repairer at work: it is that claim, a later one, or a poll or start since.
ClaimIsFresh ==
    ~refused => \A c \in Client : Replacing(c) => Age =< held[c]

\* The record was polled no earlier than any watcher that has polled.
PollIsFresh == open => \A d \in alive \ booting : meta.poll =< since[d]

IInv == TypeOK /\ ClaimIsFresh /\ PollIsFresh /\ OneRepair

USE RepairAssumption DEF watcherVars, clientVars, Client

LEMMA ZeroTyped ==
  /\ 0 \in 0..StaleAfter /\ 0 \in 0..Interval
  /\ 0 \in 0..MaxFaults /\ 0 \in 0..MaxDeaths
  OBVIOUS

\* The metadata a record may hold.
Metadata == [strategy : Strategy, pid : Pid \union {NoPid},
             poll : 0..StaleAfter, claim : 0..StaleAfter]

\* A record names a process exactly if that process is its watcher.
Named == meta.pid # NoPid <=> meta.strategy = "popen"

LEMMA AgeTyped == TypeOK => Age \in 0..StaleAfter
  BY DEF TypeOK, Age

LEMMA OlderTyped ==
  ASSUME NEW n \in 0..StaleAfter
  PROVE  /\ Older(n) \in 0..StaleAfter
         /\ n =< Older(n)
         /\ \A m \in 0..StaleAfter : n =< m => Older(n) =< Older(m)
  BY DEF Older

LEMMA FreshPidIsNew == TypeOK /\ used # Pid => FreshPid \in Pid \ used
  BY DEF TypeOK, FreshPid

-----------------------------------------------------------------------------
(* Type correctness.                                                       *)

\* Every step of a client leaves it at a line with a process or none in hand.
LEMMA ClientHolds ==
  ASSUME TypeOK, NEW c \in Client,
         BeginRegistration(c) \/ ClientStep(c) \/ LockTimesOut(c) \/ ClientDies(c)
  PROVE  \E line \in ClientLines, d \in Pid \union {NoPid} : Hold(c, line, d)
  <1> USE DEF ClientLines, Go
  <1>0. new[c] \in Pid \union {NoPid} /\ Done(c) \in ClientLines
      BY DEF TypeOK, Done
  <1>1. CASE BeginRegistration(c)
      BY <1>1 DEF BeginRegistration
  <1>2. CASE BeginRepair(c)
      BY <1>2 DEF BeginRepair
  <1>3. CASE ClaimRepair(c)
      BY <1>3 DEF ClaimRepair
  <1>4. CASE SkipRepair(c)
      BY <1>4 DEF SkipRepair
  <1>5. CASE LaunchDaemon(c)
      BY <1>5 DEF LaunchDaemon
  <1>6. CASE LaunchFallback(c)
      BY <1>6 DEF LaunchFallback
  <1>7. CASE Spawn(c)
      BY <1>7, FreshPidIsNew DEF Spawn
  <1>8. CASE SpawnFails(c)
      BY <1>8 DEF SpawnFails
  <1>9. CASE MarkStarted(c)
      BY <1>9, <1>0 DEF MarkStarted
  <1>10. CASE ConfirmStart(c)
      BY <1>10 DEF ConfirmStart
  <1>11. CASE MarkFailed(c)
      BY <1>11, <1>0 DEF MarkFailed
  <1>12. CASE LockTimesOut(c)
      BY <1>12, <1>0 DEF LockTimesOut
  <1>13. CASE ClientDies(c)
      BY <1>13, <1>0 DEF ClientDies
  <1> QED BY <1>1, <1>2, <1>3, <1>4, <1>5, <1>6, <1>7, <1>8, <1>9, <1>10, <1>11,
             <1>12, <1>13 DEF ClientStep

\* What a client's step does to everything but the clients' places.
LEMMA ClientKeepsRest ==
  ASSUME TypeOK, NEW c \in Client,
         BeginRegistration(c) \/ ClientStep(c) \/ LockTimesOut(c) \/ ClientDies(c)
  PROVE  /\ meta' \in Metadata
         /\ Named'
         /\ daemon' \in {"unloaded", "running", "dead"}
         /\ alive' \subseteq used' /\ booting' \subseteq alive' /\ used' \subseteq Pid
         /\ since' \in [Pid -> 0..Interval]
         /\ refused' \in BOOLEAN
         /\ faults' \in 0..MaxFaults
         /\ UNCHANGED <<open, strict, deaths>>
  <1> USE DEF TypeOK, Named
  <1>0. new[c] \in Pid \union {NoPid} /\ meta \in Metadata /\ Named
      BY DEF Metadata
  <1>1. CASE BeginRegistration(c)
      BY <1>1, <1>0 DEF BeginRegistration
  <1>2. CASE BeginRepair(c)
      BY <1>2, <1>0 DEF BeginRepair
  <1>3. CASE ClaimRepair(c)
      BY <1>3, <1>0, ZeroTyped DEF ClaimRepair, Metadata, Strategy
  <1>4. CASE SkipRepair(c)
      BY <1>4, <1>0 DEF SkipRepair
  <1>5. CASE LaunchDaemon(c)
      BY <1>5, <1>0 DEF LaunchDaemon
  <1>6. CASE LaunchFallback(c)
      BY <1>6, <1>0 DEF LaunchFallback, Fault
  <1>7. CASE Spawn(c)
      BY <1>7, <1>0, ZeroTyped, FreshPidIsNew DEF Spawn
  <1>8. CASE SpawnFails(c)
      BY <1>8, <1>0 DEF SpawnFails, Fault
  <1>9. CASE MarkStarted(c)
      <2>1. meta' \in Metadata /\ Named'
          BY <1>9, <1>0, ZeroTyped DEF MarkStarted, RecordStart, Metadata, Strategy
      <2> QED BY <1>9, <2>1 DEF MarkStarted
  <1>10. CASE ConfirmStart(c)
      <2>1. meta' \in Metadata /\ Named'
          BY <1>10, <1>0, ZeroTyped DEF ConfirmStart, RecordStart, Metadata, Strategy
      <2> QED BY <1>10, <2>1 DEF ConfirmStart
  <1>11. CASE MarkFailed(c)
      BY <1>11, <1>0 DEF MarkFailed, Metadata, Strategy
  <1>12. CASE LockTimesOut(c)
      <2>1. UNCHANGED <<meta, open, strict, daemon, watcherVars, refused>> /\ Fault
          BY <1>12 DEF LockTimesOut
      <2> QED BY <2>1, <1>0 DEF Fault
  <1>13. CASE ClientDies(c)
      BY <1>13, <1>0 DEF ClientDies, Fault
  <1> QED BY <1>1, <1>2, <1>3, <1>4, <1>5, <1>6, <1>7, <1>8, <1>9, <1>10, <1>11,
             <1>12, <1>13 DEF ClientStep

LEMMA ClientKeepsTypes ==
  ASSUME TypeOK, NEW c \in Client,
         BeginRegistration(c) \/ ClientStep(c) \/ LockTimesOut(c) \/ ClientDies(c)
  PROVE  TypeOK'
  <1>1. PICK line \in ClientLines, d \in Pid \union {NoPid} : Hold(c, line, d)
      BY ClientHolds
  <1>2. pc' \in [Client -> ClientLines] /\ new' \in [Client -> Pid \union {NoPid}]
      BY <1>1 DEF Hold, TypeOK
  <1>3. held' \in [Client -> 0..StaleAfter]
      BY <1>1 DEF Hold, TypeOK
  <1> QED BY <1>2, <1>3, ClientKeepsRest DEF TypeOK, Metadata, Named

LEMMA WorldKeepsTypes ==
  ASSUME TypeOK,
         \/ \E d \in Pid : Poll(d) \/ WatcherEnds(d)
         \/ DaemonPolls \/ DaemonEnds \/ Close \/ Tick
  PROVE  TypeOK'
  <1>1. ASSUME NEW d \in Pid, Poll(d) PROVE TypeOK'
      BY <1>1 DEF Poll, TypeOK
  <1>2. ASSUME NEW d \in Pid, WatcherEnds(d) PROVE TypeOK'
      BY <1>2 DEF WatcherEnds, TypeOK
  <1>3. CASE DaemonPolls
      BY <1>3 DEF DaemonPolls, TypeOK
  <1>4. CASE DaemonEnds
      BY <1>4 DEF DaemonEnds, TypeOK
  <1>5. CASE Close
      BY <1>5 DEF Close, TypeOK
  <1>6. CASE Tick
      <2>1. meta' \in [strategy : Strategy, pid : Pid \union {NoPid},
                       poll : 0..StaleAfter, claim : 0..StaleAfter]
          BY <1>6, OlderTyped DEF Tick, TypeOK
      <2>2. since' \in [Pid -> 0..Interval]
          BY <1>6 DEF Tick, TypeOK
      <2>3. held' \in [Client -> 0..StaleAfter]
          BY <1>6, OlderTyped DEF Tick, TypeOK
      <2>4. meta'.pid = meta.pid /\ meta'.strategy = meta.strategy
          BY <1>6 DEF Tick, TypeOK
      <2> QED BY <1>6, <2>1, <2>2, <2>3, <2>4 DEF Tick, TypeOK
  <1> QED BY <1>1, <1>2, <1>3, <1>4, <1>5, <1>6

LEMMA NextKeepsTypes == TypeOK /\ [Next]_vars => TypeOK'
  <1>1. CASE UNCHANGED vars
      BY <1>1 DEF vars, TypeOK
  <1> QED BY <1>1, ClientKeepsTypes, WorldKeepsTypes DEF Next

LEMMA InitTyped == Init => TypeOK
  <1> SUFFICES ASSUME Init PROVE TypeOK
      OBVIOUS
  <1>1. meta \in Metadata
      BY ZeroTyped DEF Init, Metadata, Strategy
  <1>2. since \in [Pid -> 0..Interval] /\ held \in [Client -> 0..StaleAfter]
      BY ZeroTyped DEF Init
  <1>3. pc \in [Client -> ClientLines] /\ new \in [Client -> Pid \union {NoPid}]
      BY DEF Init, ClientLines
  <1> QED BY <1>1, <1>2, <1>3, ZeroTyped DEF Init, TypeOK, Metadata

\* Clients, watchers, the daemon and the record's metadata stay well typed for
\* any clients, watchers, timing constants and bounds.
THEOREM TypeCorrect == Spec => []TypeOK
  BY InitTyped, NextKeepsTypes, PTL DEF Spec

-----------------------------------------------------------------------------
(* One repair at a time.                                                   *)

\* A repairer's claim can only be followed by another one when it is as old as
\* the record's age has to be.
LEMMA EligibleMeansSlow ==
  ASSUME IInv, Eligible, ~refused, NEW c \in Client, Replacing(c)
  PROVE  held[c] >= StaleAfter
  <1>1. Age =< held[c] /\ Age >= StaleAfter
      BY DEF IInv, ClaimIsFresh, Eligible
  <1>2. Age \in 0..StaleAfter /\ held[c] \in 0..StaleAfter
      BY AgeTyped DEF IInv, TypeOK
  <1> QED BY <1>1, <1>2

\* The freshness of claims and the exclusion that rests on it.
Exclusion == ClaimIsFresh /\ OneRepair

\* The record does not grow older, unless a start is recorded as failed.
NoOlder == (refused => refused') /\ Age' \in Int /\ (~refused' => Age' =< Age)

Working == {"launch", "spawn", "mark"}

\* A step that takes up no repair does not disturb the others.
NoNewRepair == \A e \in Client : Replacing(e)' => Replacing(e) /\ held'[e] = held[e]

LEMMA NoNewRepairKeepsExclusion ==
  ASSUME IInv, NoNewRepair, NoOlder
  PROVE  Exclusion'
  <1>1. Age \in Int /\ \A e \in Client : held[e] \in Int
      BY AgeTyped DEF IInv, TypeOK
  <1>2. ClaimIsFresh'
      BY <1>1 DEF IInv, ClaimIsFresh, NoNewRepair, NoOlder
  <1>3. OneRepair'
      BY DEF IInv, OneRepair, NoNewRepair, NoOlder
  <1> QED BY <1>2, <1>3 DEF Exclusion

LEMMA LeavingIsNoNewRepair ==
  ASSUME TypeOK, NEW c \in Client, NEW line \in ClientLines \ Working,
         NEW d \in Pid \union {NoPid}, Hold(c, line, d)
  PROVE  NoNewRepair
  BY DEF TypeOK, NoNewRepair, Replacing, Hold, Working

LEMMA GoingOnIsNoNewRepair ==
  ASSUME TypeOK, NEW c \in Client, Replacing(c) \/ c \notin Repairer,
         NEW line \in {"spawn", "mark"}, NEW d \in Pid \union {NoPid},
         Hold(c, line, d)
  PROVE  NoNewRepair
  BY DEF TypeOK, NoNewRepair, Replacing, Hold

LEMMA SameIsNoOlder ==
  ASSUME TypeOK, UNCHANGED <<meta, refused>>
  PROVE  NoOlder
  BY AgeTyped DEF NoOlder, Age

LEMMA ClaimKeepsExclusion ==
  ASSUME IInv, NEW c \in Client, ClaimRepair(c)
  PROVE  Exclusion'
  <1>1. CASE refused
      BY <1>1 DEF ClaimRepair, Exclusion, ClaimIsFresh, OneRepair
  <1>2. CASE ~refused
      <2>1. \A e \in Client : Replacing(e) => held[e] >= StaleAfter
          BY <1>2, EligibleMeansSlow DEF ClaimRepair
      <2>2. \A e \in Client : e # c => held'[e] = held[e] /\ Replacing(e)' = Replacing(e)
          BY DEF ClaimRepair, Go, Hold, Replacing, IInv, TypeOK
      <2>3. held'[c] = 0
          BY DEF ClaimRepair, Go, Hold, IInv, TypeOK
      <2>4. Age' = 0
          BY DEF ClaimRepair, Age, IInv, TypeOK
      <2>5. \A e \in Client : held[e] \in 0..StaleAfter
          BY DEF IInv, TypeOK
      <2>6. ClaimIsFresh'
          BY <2>2, <2>3, <2>4, <2>5 DEF ClaimIsFresh
      <2>7. OneRepair'
          BY <2>1, <2>2 DEF OneRepair
      <2> QED BY <2>6, <2>7 DEF Exclusion
  <1> QED BY <1>1, <1>2

LEMMA RecordStartIsNoOlder ==
  ASSUME TypeOK, NEW c \in Client, RecordStart(c), UNCHANGED refused
  PROVE  NoOlder
  <1>1. CASE open
      <2>1. meta'.poll = 0 /\ meta'.claim = 0
          BY <1>1 DEF RecordStart, TypeOK
      <2> QED BY <2>1, AgeTyped DEF NoOlder, Age
  <1>2. CASE ~open
      BY <1>2, SameIsNoOlder DEF RecordStart
  <1> QED BY <1>1, <1>2

LEMMA ClientIsNoOlder ==
  ASSUME IInv, NEW c \in Client,
         BeginRegistration(c) \/ ClientStep(c) \/ LockTimesOut(c) \/ ClientDies(c),
         ~ClaimRepair(c)
  PROVE  NoOlder
  <1>0. TypeOK
      BY DEF IInv
  <1>1. CASE MarkStarted(c) \/ ConfirmStart(c)
      BY <1>0, <1>1, RecordStartIsNoOlder DEF MarkStarted, ConfirmStart
  <1>2. CASE MarkFailed(c)
      <2>1. CASE open
          <3>1. refused'
              BY <2>1, <1>2 DEF MarkFailed
          <3>2. meta'.strategy = "failed" /\ meta'.poll = meta.poll
              BY <2>1, <1>0, <1>2 DEF MarkFailed, TypeOK
          <3>3. Age' \in Int
              BY <3>2, <1>0 DEF Age, TypeOK
          <3> QED BY <3>1, <3>3 DEF NoOlder
      <2>2. CASE ~open
          BY <2>2, <1>0, <1>2, SameIsNoOlder DEF MarkFailed, TypeOK
      <2> QED BY <2>1, <2>2
  <1>3. CASE ~MarkStarted(c) /\ ~ConfirmStart(c) /\ ~MarkFailed(c)
      <2>1. UNCHANGED <<meta, refused>>
          BY <1>3 DEF ClientStep, BeginRegistration, BeginRepair, SkipRepair,
                      LaunchDaemon, LaunchFallback, Spawn, SpawnFails, LockTimesOut,
                      ClientDies
      <2> QED BY <2>1, <1>0, SameIsNoOlder
  <1> QED BY <1>1, <1>2, <1>3

LEMMA ClientIsNoNewRepair ==
  ASSUME IInv, NEW c \in Client,
         BeginRegistration(c) \/ ClientStep(c) \/ LockTimesOut(c) \/ ClientDies(c),
         ~ClaimRepair(c)
  PROVE  NoNewRepair
  <1> DEFINE D == Pid \union {NoPid}
             Out == ClientLines \ Working
  <1>0. /\ TypeOK /\ new[c] \in D /\ NoPid \in D
        /\ Done(c) \in Out
        /\ {"idle", "claim", "refused", "confirm", "repair failed", "gone"} \subseteq Out
      BY DEF IInv, TypeOK, Done, ClientLines, Working
  <1>1. CASE BeginRegistration(c)
      BY <1>1, <1>0 DEF BeginRegistration, Go, Hold, NoNewRepair, Replacing, TypeOK
  <1>2. CASE \/ BeginRepair(c) \/ SkipRepair(c) \/ SpawnFails(c)
             \/ ConfirmStart(c) \/ MarkFailed(c) \/ LockTimesOut(c) \/ ClientDies(c)
      <2>1. \E line \in Out : Hold(c, line, NoPid)
          BY <1>2, <1>0 DEF BeginRepair, SkipRepair, SpawnFails, ConfirmStart,
                            MarkFailed, LockTimesOut, ClientDies, Go
      <2> QED BY <2>1, <1>0, LeavingIsNoNewRepair
  <1>3. CASE MarkStarted(c)
      <2>1. \E line \in Out, d \in D : Hold(c, line, d)
          BY <1>3, <1>0 DEF MarkStarted, Go
      <2> QED BY <2>1, <1>0, LeavingIsNoNewRepair
  <1>4. CASE LaunchDaemon(c)
      <2>1. Replacing(c) \/ c \notin Repairer
          BY <1>4 DEF LaunchDaemon, Replacing
      <2>2. Hold(c, "mark", NoPid)
          BY <1>4 DEF LaunchDaemon, Go
      <2> QED BY <2>1, <2>2, <1>0, GoingOnIsNoNewRepair
  <1>5. CASE LaunchFallback(c)
      <2>1. Replacing(c) \/ c \notin Repairer
          BY <1>5 DEF LaunchFallback, Replacing
      <2>2. Hold(c, "refused", NoPid) \/ Hold(c, "spawn", NoPid)
          BY <1>5 DEF LaunchFallback, Go
      <2> QED BY <2>1, <2>2, <1>0, GoingOnIsNoNewRepair, LeavingIsNoNewRepair
  <1>6. CASE Spawn(c)
      <2>1. Replacing(c) \/ c \notin Repairer
          BY <1>6 DEF Spawn, Replacing
      <2>2. Hold(c, "mark", FreshPid) /\ FreshPid \in D
          BY <1>6, <1>0, FreshPidIsNew DEF Spawn
      <2> QED BY <2>1, <2>2, <1>0, GoingOnIsNoNewRepair
  <1> QED BY <1>1, <1>2, <1>3, <1>4, <1>5, <1>6 DEF ClientStep

LEMMA ClientKeepsExclusion ==
  ASSUME IInv, NEW c \in Client,
         BeginRegistration(c) \/ ClientStep(c) \/ LockTimesOut(c) \/ ClientDies(c)
  PROVE  Exclusion'
  <1>1. CASE ClaimRepair(c)
      BY <1>1, ClaimKeepsExclusion
  <1>2. CASE ~ClaimRepair(c)
      BY <1>2, ClientIsNoOlder, ClientIsNoNewRepair, NoNewRepairKeepsExclusion
  <1> QED BY <1>1, <1>2

LEMMA WorldKeepsExclusion ==
  ASSUME IInv,
         \/ \E d \in Pid : Poll(d) \/ WatcherEnds(d)
         \/ DaemonPolls \/ DaemonEnds \/ Close \/ UNCHANGED vars
  PROVE  Exclusion'
  <1>0. TypeOK
      BY DEF IInv
  <1>1. UNCHANGED <<clientVars, refused>>
      BY DEF Poll, WatcherEnds, DaemonPolls, DaemonEnds, Close, vars
  <1>2. NoNewRepair
      BY <1>1 DEF NoNewRepair, Replacing
  <1>3. meta' = meta \/ meta' = [meta EXCEPT !.poll = 0]
      BY DEF Poll, WatcherEnds, DaemonPolls, DaemonEnds, Close, vars
  <1>4. NoOlder
      <2>1. CASE meta' = meta
          BY <2>1, <1>0, <1>1, SameIsNoOlder
      <2>2. CASE meta' = [meta EXCEPT !.poll = 0]
          <3>1. meta'.strategy = meta.strategy /\ meta'.poll = 0 /\ meta'.claim = meta.claim
              BY <2>2, <1>0 DEF TypeOK
          <3> QED BY <3>1, <1>0, <1>1, AgeTyped DEF NoOlder, Age
      <2> QED BY <1>3, <2>1, <2>2
  <1> QED BY <1>2, <1>4, NoNewRepairKeepsExclusion

LEMMA TickKeepsExclusion ==
  ASSUME IInv, Tick
  PROVE  Exclusion'
  <1>0. TypeOK
      BY DEF IInv
  <1>1. Age' = Older(Age)
      <2>1. /\ meta'.strategy = meta.strategy
            /\ meta'.poll = Older(meta.poll)
            /\ meta.strategy = "repairing" => meta'.claim = Older(meta.claim)
          BY <1>0 DEF Tick, TypeOK
      <2> QED BY <2>1 DEF Age
  <1>2. \A c \in Client : Replacing(c)' = Replacing(c)
      BY DEF Tick, Replacing
  <1>3. \A c \in Client : Replacing(c) => held'[c] = Older(held[c])
      BY DEF Tick
  <1>4. \A c \in Client : held[c] \in 0..StaleAfter
      BY <1>0 DEF TypeOK
  <1>5. ClaimIsFresh'
      <2> SUFFICES ASSUME ~refused', NEW c \in Client, Replacing(c)'
                   PROVE  Age' =< held'[c]
          BY DEF ClaimIsFresh
      <2>1. Age =< held[c]
          BY <1>2 DEF IInv, ClaimIsFresh, Tick
      <2>2. Older(Age) =< Older(held[c])
          BY <2>1, <1>0, <1>4, AgeTyped, OlderTyped
      <2> QED BY <2>2, <1>1, <1>2, <1>3
  <1>6. \A c \in Client : held[c] >= StaleAfter => Older(held[c]) >= StaleAfter
      BY <1>4 DEF Older
  <1>7. OneRepair'
      BY <1>2, <1>3, <1>6 DEF IInv, OneRepair, Tick
  <1> QED BY <1>5, <1>7 DEF Exclusion

-----------------------------------------------------------------------------
(* No repair beside a watcher that polls.                                  *)

LEMMA NextKeepsPollIsFresh == IInv /\ [Next]_vars => PollIsFresh'
  <1> SUFFICES ASSUME IInv, [Next]_vars, open', NEW d \in alive' \ booting'
               PROVE  meta'.poll =< since'[d]
      BY DEF PollIsFresh
  <1>0. TypeOK /\ PollIsFresh
      BY DEF IInv
  <1>1. CASE Tick
      <2>1. open /\ d \in alive \ booting /\ d \in Pid
          BY <1>0, <1>1 DEF Tick, TypeOK
      <2>2. meta.poll =< since[d] /\ since[d] < Interval
          BY <2>1, <1>0, <1>1 DEF PollIsFresh, Tick
      <2>3. since'[d] = since[d] + 1 /\ meta'.poll = Older(meta.poll)
          BY <2>1, <2>2, <1>0, <1>1 DEF Tick, TypeOK
      <2>4. meta.poll \in Nat /\ since[d] \in Nat
          BY <2>1, <1>0 DEF TypeOK
      <2> QED BY <2>2, <2>3, <2>4 DEF Older
  <1>2. ASSUME NEW e \in Pid, Poll(e) PROVE meta'.poll =< since'[d]
      <2>1. meta'.poll = 0 /\ since'[d] \in 0..Interval
          BY <1>0, <1>2 DEF Poll, TypeOK
      <2> QED BY <2>1
  <1>3. ASSUME NEW c \in Client, Spawn(c) PROVE meta'.poll =< since'[d]
      <2>1. FreshPid \in Pid \ used
          BY <1>0, <1>3, FreshPidIsNew DEF Spawn
      <2>2. d # FreshPid /\ d \in alive \ booting /\ open
          BY <1>3 DEF Spawn
      <2> QED BY <2>1, <2>2, <1>0, <1>3 DEF Spawn, PollIsFresh, TypeOK
  <1>4. ASSUME NEW e \in Pid, WatcherEnds(e) PROVE meta'.poll =< since'[d]
      BY <1>0, <1>4 DEF WatcherEnds, PollIsFresh, TypeOK
  <1>5. CASE /\ UNCHANGED <<open, alive, booting, since>>
             /\ meta'.poll = meta.poll \/ meta'.poll = 0
      BY <1>0, <1>5 DEF PollIsFresh, TypeOK
  <1>6. CASE DaemonPolls \/ DaemonEnds \/ Close \/ UNCHANGED vars
      <2>1. CASE DaemonPolls
          BY <2>1, <1>0, <1>5 DEF DaemonPolls, TypeOK
      <2>2. CASE DaemonEnds \/ UNCHANGED vars
          BY <2>2, <1>5 DEF DaemonEnds, vars
      <2> QED BY <2>1, <2>2, <1>6 DEF Close
  <1>7. ASSUME NEW c \in Client, ~Spawn(c),
               BeginRegistration(c) \/ ClientStep(c) \/ LockTimesOut(c) \/ ClientDies(c)
        PROVE  meta'.poll =< since'[d]
      <2>1. UNCHANGED <<open, alive, booting, since>>
          BY <1>7 DEF ClientStep, BeginRegistration, BeginRepair, ClaimRepair,
                      SkipRepair, LaunchDaemon, LaunchFallback, SpawnFails, MarkStarted,
                      ConfirmStart, MarkFailed, LockTimesOut, ClientDies
      <2>2. CASE UNCHANGED meta
          BY <2>1, <2>2, <1>5
      <2>3. CASE ClaimRepair(c)
          BY <2>1, <2>3, <1>0, <1>5 DEF ClaimRepair, TypeOK
      <2>4. CASE RecordStart(c)
          BY <2>1, <2>4, <1>0, <1>5 DEF RecordStart, TypeOK
      <2>5. CASE MarkFailed(c)
          BY <2>1, <2>5, <1>0, <1>5 DEF MarkFailed, TypeOK
      <2>6. UNCHANGED meta \/ ClaimRepair(c) \/ RecordStart(c) \/ MarkFailed(c)
          BY <1>7 DEF ClientStep, BeginRegistration, BeginRepair, SkipRepair,
                      LaunchDaemon, LaunchFallback, SpawnFails, MarkStarted,
                      ConfirmStart, LockTimesOut, ClientDies
      <2> QED BY <2>2, <2>3, <2>4, <2>5, <2>6
  <1> QED BY <1>1, <1>2, <1>3, <1>4, <1>6, <1>7 DEF Next

-----------------------------------------------------------------------------
LEMMA SpecIInv == Spec => []IInv
  <1>1. Init => IInv
      <2>1. ASSUME Init PROVE TypeOK /\ ClaimIsFresh /\ PollIsFresh /\ OneRepair
          <3>1. \A c \in Client : ~Replacing(c)
              BY <2>1 DEF Init, Replacing
          <3>2. alive = {}
              BY <2>1 DEF Init
          <3> QED BY <2>1, <3>1, <3>2, InitTyped DEF ClaimIsFresh, PollIsFresh, OneRepair
      <2> QED BY <2>1 DEF IInv
  <1>2. IInv /\ [Next]_vars => IInv'
      <2> SUFFICES ASSUME IInv, [Next]_vars PROVE IInv'
          OBVIOUS
      <2>1. TypeOK' /\ PollIsFresh'
          BY NextKeepsTypes, NextKeepsPollIsFresh DEF IInv
      <2>2. Exclusion'
          BY ClientKeepsExclusion, WorldKeepsExclusion, TickKeepsExclusion DEF Next
      <2> QED BY <2>1, <2>2 DEF IInv, Exclusion
  <1> QED BY <1>1, <1>2, PTL DEF Spec

\* For any number of registrations and repairs: two repairs replace a watcher at
\* a time only after a start failed or a repair outlasted its claim.
THEOREM OneRepairAtATime == Spec => []OneRepair
  BY SpecIInv, PTL DEF IInv

\* A repair is never claimed beside a watcher that polls in time, whoever
\* started it and whatever the record names.
THEOREM RepairsOnlyTheDead == Spec => RepairsTheDead
  <1> DEFINE A == \A c \in Client :
                    Interval < StaleAfter /\ pc[c] = "claim" /\ pc'[c] = "launch" =>
                        alive \subseteq booting \/ meta.strategy = "repairing"
  <1>1. IInv /\ [Next]_vars => [A]_vars
      <2> SUFFICES ASSUME IInv, Next, Interval < StaleAfter,
                          NEW c \in Client, pc[c] = "claim", pc'[c] = "launch",
                          meta.strategy # "repairing", NEW d \in alive \ booting
                   PROVE  FALSE
          OBVIOUS
      <2>1. TypeOK /\ PollIsFresh
          BY DEF IInv
      <2>2. ClaimRepair(c)
          <3>1. PICK e \in Client : BeginRegistration(e) \/ ClientStep(e)
                                    \/ LockTimesOut(e) \/ ClientDies(e)
              BY DEF Next, Poll, WatcherEnds, DaemonPolls, DaemonEnds, Close, Tick
          <3>2. e = c
              BY <3>1, <2>1, ClientHolds DEF Hold, TypeOK
          <3>3. \/ ClaimRepair(c)
                \/ \E line \in {"idle", "gone", "repair failed"} : Hold(c, line, NoPid)
              BY <3>1, <3>2 DEF ClientStep, BeginRegistration, BeginRepair, SkipRepair,
                     LaunchDaemon, LaunchFallback, Spawn, SpawnFails, MarkStarted,
                     ConfirmStart, MarkFailed, LockTimesOut, ClientDies, Go, Done
          <3> QED BY <3>3, <2>1 DEF Hold, TypeOK
      <2>3. open /\ meta.poll >= StaleAfter
          BY <2>2 DEF ClaimRepair, Eligible, Age
      <2>4. meta.poll =< since[d] /\ since[d] \in 0..Interval /\ meta.poll \in Nat
          BY <2>1, <2>3 DEF PollIsFresh, TypeOK
      <2> QED BY <2>3, <2>4
  <1>2. Spec => [][A]_vars
      BY SpecIInv, <1>1, PTL DEF Spec
  <1> QED BY <1>2 DEF RepairsTheDead

=============================================================================
