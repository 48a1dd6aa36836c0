------------------------ MODULE Installation_proofs ------------------------
(***************************************************************************)
(* Proofs about the installers, for any number of files, any contents, any  *)
(* number of edits and of failing operations.                              *)
(***************************************************************************)
EXTENDS Installation, TLAPS

Swapping == phase \in {"mutate", "look", "aside", "place", "restore", "purge"}

\* Which installer can be where, and what it has written by then.
Shape ==
    /\ \A f \in Item : goal[f] = Absent => kind = "hooks" \/ (kind = "skill" /\ f = 1)
    /\ kind = "skill" => \A f \in Item \ {1} : file[f] = Ours /\ seen[f] = Ours
    /\ Swapping => kind = "skill" /\ 1 \in Changed
    /\ phase \in {"review", "manifest", "apply"} => kind # "skill"
    /\ kind = "skill" /\ phase = "backup" => Changed = {}

\* What has been written, and which rollbacks have failed, phase by phase.
Progress ==
    /\ written \subseteq Changed
    /\ errors \subseteq Changed
    /\ written \intersect errors = {}
    /\ phase \in {"plan", "review", "backup", "manifest", "mutate", "look", "aside"}
          => written = {}
    /\ phase \notin {"rollback", "incomplete", "dead"} => errors = {}
    /\ kind = "skill" /\ phase = "rollback" => written = {}
    /\ phase = "undone" \/ (phase = "incomplete" /\ kind # "skill") => written = {}
    /\ phase \in {"applied", "unpurged"} => Changed \subseteq written
    /\ phase \in {"restore", "purge", "unpurged"} => written = {1}

\* The directory moved aside, while a skill is swapped.
Aside ==
    /\ kind = "skill" /\ phase \in {"plan", "backup", "mutate", "look", "aside"}
          => saved[1] = Absent
    /\ phase = "restore" => saved[1] # Absent
    /\ phase = "place" => (1 \in written <=> saved[1] # Absent)

\* Up to the last look a destination is the user's or can be put back.
Kept ==
    /\ \A f \in Item \ late : f \notin written \union errors => file[f] = theirs[f]
    /\ \A f \in (written \union errors) \ late :
          IF kind = "skill"
          THEN saved[f] = theirs[f] \/ file[f] = goal[f]
          ELSE manifest /\ saved[f] = theirs[f]
    /\ phase \in {"manifest", "apply"} => \A f \in Changed \ late : saved[f] = theirs[f]
    /\ phase = "apply" => manifest
    /\ phase # "plan" =>
          /\ kind = "hooks" =>
                \A f \in Item \ late : seen[f] = Absent => theirs[f] = Absent
          /\ kind = "skill" /\ 1 \notin late => theirs[1] = seen[1]
    /\ phase \in {"place", "restore"} /\ saved[1] # Absent /\ 1 \notin late
          => saved[1] = theirs[1]

\* What was written stands as planned until it is rolled back.
Stands ==
    phase \in {"apply", "purge", "applied", "unpurged"} =>
        \A f \in written \ late : file[f] = goal[f]

IInv == TypeOK /\ Shape /\ Progress /\ Aside /\ Kept /\ Stands

LEMMA FirstItem == 1 \in Item
  BY InstallationAssumption DEF Item

LEMMA InitIInv == Init => IInv
  <1> SUFFICES ASSUME Init PROVE IInv
      OBVIOUS
  <1> USE InstallationAssumption, FirstItem DEF Init
  <1>1. TypeOK
    <2>1. file \in [Item -> Content] /\ goal \in [Item -> {Ours, Absent}]
        BY DEF Content
    <2>2. saved \in [Item -> Content]
        BY DEF Content
    <2>3. phase \in Phases /\ kind \in Kinds /\ edits \in 0..MaxEdits /\ faults \in 0..MaxFaults
        BY DEF Phases
    <2> QED BY <2>1, <2>2, <2>3 DEF TypeOK
  <1>2. Shape
      BY DEF Shape, Swapping
  <1>3. Progress
      BY DEF Progress
  <1>4. Aside /\ Kept /\ Stands
      BY DEF Aside, Kept, Stands
  <1> QED BY <1>1, <1>2, <1>3, <1>4 DEF IInv

-----------------------------------------------------------------------------

LEMMA StepTypeOK == IInv /\ [Next]_vars => TypeOK'
  <1> SUFFICES ASSUME IInv, [Next]_vars PROVE TypeOK'
      OBVIOUS
  <1> USE InstallationAssumption, FirstItem
          DEF IInv, TypeOK, Phases, Content, user, Goto
  <1>1. ASSUME NEW f \in Item, Edit(f) PROVE TypeOK'
      BY <1>1 DEF Edit
  <1>2. CASE Plan \/ Refuse \/ Review \/ NoChange
      BY <1>2 DEF Plan, Refuse, Review, NoChange
  <1>3. CASE Backup
      BY <1>3 DEF Backup
  <1>4. CASE WriteManifest \/ Applied \/ StepFails \/ RolledBack
    <2>1. CASE WriteManifest \/ Applied \/ RolledBack
        BY <2>1 DEF WriteManifest, Applied, RolledBack
    <2>2. CASE StepFails
        BY <2>2 DEF StepFails, Fail
    <2> QED BY <1>4, <2>1, <2>2
  <1>5. ASSUME NEW f \in Item, Apply(f) \/ RollBack(f) \/ RollBackFails(f) PROVE TypeOK'
      BY <1>5 DEF Apply, RollBack, RollBackFails, Fail
  <1>6. CASE Mutate \/ Look \/ Purge \/ PurgeFails
      BY <1>6 DEF Mutate, Look, Purge, PurgeFails, Fail
  <1>7. CASE MoveAside
      BY <1>7 DEF MoveAside
  <1>8. CASE Place
      BY <1>8 DEF Place
  <1>9. CASE Restore
      BY <1>9 DEF Restore
  <1>10. CASE Die
      BY <1>10 DEF Die
  <1>11. CASE UNCHANGED vars
      BY <1>11 DEF vars
  <1> QED BY <1>1, <1>2, <1>3, <1>4, <1>5, <1>6, <1>7, <1>8, <1>9, <1>10, <1>11
             DEF Next, Transaction, Swap

LEMMA StepShape == IInv /\ [Next]_vars => Shape'
  <1> SUFFICES ASSUME IInv, [Next]_vars PROVE Shape'
      OBVIOUS
  <1> USE InstallationAssumption, FirstItem
          DEF IInv, TypeOK, Shape, Swapping, Progress, Aside, Kept, Stands, Changed, user, Goto
  <1>1. ASSUME NEW f \in Item, Edit(f) PROVE Shape'
      BY <1>1 DEF Edit, LookedAt, Ended
  <1>2. CASE Plan
      BY <1>2 DEF Plan
  <1>3. CASE Refuse \/ Review \/ NoChange
      BY <1>3 DEF Refuse, Review, NoChange
  <1>4. CASE Backup
      BY <1>4 DEF Backup, NeedsBackup
  <1>5. CASE WriteManifest \/ Applied \/ StepFails \/ RolledBack
      BY <1>5 DEF WriteManifest, Applied, StepFails, RolledBack, Pending
  <1>6. ASSUME NEW f \in Item, Apply(f) PROVE Shape'
      BY <1>6 DEF Apply, Pending
  <1>7. ASSUME NEW f \in Item, RollBack(f) PROVE Shape'
      BY <1>7 DEF RollBack
  <1>8. ASSUME NEW f \in Item, RollBackFails(f) PROVE Shape'
      BY <1>8 DEF RollBackFails
  <1>9. CASE Mutate \/ Look
      BY <1>9 DEF Mutate, Look
  <1>10. CASE MoveAside
      BY <1>10 DEF MoveAside
  <1>11. CASE Place
      BY <1>11 DEF Place
  <1>12. CASE Restore
      BY <1>12 DEF Restore
  <1>13. CASE Purge \/ PurgeFails
      BY <1>13 DEF Purge, PurgeFails
  <1>14. CASE Die
      BY <1>14 DEF Die, Ended
  <1>15. CASE UNCHANGED vars
      BY <1>15 DEF vars
  <1> QED BY <1>1, <1>2, <1>3, <1>4, <1>5, <1>6, <1>7, <1>8, <1>9, <1>10,
             <1>11, <1>12, <1>13, <1>14, <1>15 DEF Next, Transaction, Swap

LEMMA StepProgress == IInv /\ [Next]_vars => Progress'
  <1> SUFFICES ASSUME IInv, [Next]_vars PROVE Progress'
      OBVIOUS
  <1> USE InstallationAssumption, FirstItem
          DEF IInv, TypeOK, Shape, Swapping, Progress, Aside, Kept, Stands, Changed, user, Goto
  <1>1. ASSUME NEW f \in Item, Edit(f) PROVE Progress'
      BY <1>1 DEF Edit, LookedAt, Ended
  <1>2. CASE Plan
      BY <1>2 DEF Plan
  <1>3. CASE Refuse \/ Review \/ NoChange
      BY <1>3 DEF Refuse, Review, NoChange
  <1>4. CASE Backup
      BY <1>4 DEF Backup, NeedsBackup
  <1>5. CASE WriteManifest \/ Applied \/ StepFails \/ RolledBack
      BY <1>5 DEF WriteManifest, Applied, StepFails, RolledBack, Pending
  <1>6. ASSUME NEW f \in Item, Apply(f) PROVE Progress'
      BY <1>6 DEF Apply, Pending
  <1>7. ASSUME NEW f \in Item, RollBack(f) PROVE Progress'
      BY <1>7 DEF RollBack
  <1>8. ASSUME NEW f \in Item, RollBackFails(f) PROVE Progress'
      BY <1>8 DEF RollBackFails
  <1>9. CASE Mutate \/ Look
      BY <1>9 DEF Mutate, Look
  <1>10. CASE MoveAside
      BY <1>10 DEF MoveAside
  <1>11. CASE Place
      BY <1>11 DEF Place
  <1>12. CASE Restore
      BY <1>12 DEF Restore
  <1>13. CASE Purge \/ PurgeFails
      BY <1>13 DEF Purge, PurgeFails
  <1>14. CASE Die
      BY <1>14 DEF Die, Ended
  <1>15. CASE UNCHANGED vars
      BY <1>15 DEF vars
  <1> QED BY <1>1, <1>2, <1>3, <1>4, <1>5, <1>6, <1>7, <1>8, <1>9, <1>10,
             <1>11, <1>12, <1>13, <1>14, <1>15 DEF Next, Transaction, Swap

LEMMA StepAside == IInv /\ [Next]_vars => Aside'
  <1> SUFFICES ASSUME IInv, [Next]_vars PROVE Aside'
      OBVIOUS
  <1> USE InstallationAssumption, FirstItem
          DEF IInv, TypeOK, Shape, Swapping, Progress, Aside, Kept, Stands, Changed, user, Goto
  <1>1. ASSUME NEW f \in Item, Edit(f) PROVE Aside'
      BY <1>1 DEF Edit, LookedAt, Ended
  <1>2. CASE Plan
      BY <1>2 DEF Plan
  <1>3. CASE Refuse \/ Review \/ NoChange
      BY <1>3 DEF Refuse, Review, NoChange
  <1>4. CASE Backup
      BY <1>4 DEF Backup, NeedsBackup
  <1>5. CASE WriteManifest \/ Applied \/ StepFails \/ RolledBack
      BY <1>5 DEF WriteManifest, Applied, StepFails, RolledBack, Pending
  <1>6. ASSUME NEW f \in Item, Apply(f) PROVE Aside'
      BY <1>6 DEF Apply, Pending
  <1>7. ASSUME NEW f \in Item, RollBack(f) PROVE Aside'
      BY <1>7 DEF RollBack
  <1>8. ASSUME NEW f \in Item, RollBackFails(f) PROVE Aside'
      BY <1>8 DEF RollBackFails
  <1>9. CASE Mutate \/ Look
      BY <1>9 DEF Mutate, Look
  <1>10. CASE MoveAside
      BY <1>10 DEF MoveAside
  <1>11. CASE Place
      BY <1>11 DEF Place
  <1>12. CASE Restore
      BY <1>12 DEF Restore
  <1>13. CASE Purge \/ PurgeFails
      BY <1>13 DEF Purge, PurgeFails
  <1>14. CASE Die
      BY <1>14 DEF Die, Ended
  <1>15. CASE UNCHANGED vars
      BY <1>15 DEF vars
  <1> QED BY <1>1, <1>2, <1>3, <1>4, <1>5, <1>6, <1>7, <1>8, <1>9, <1>10,
             <1>11, <1>12, <1>13, <1>14, <1>15 DEF Next, Transaction, Swap

LEMMA StepKept == IInv /\ [Next]_vars => Kept'
  <1> SUFFICES ASSUME IInv, [Next]_vars PROVE Kept'
      OBVIOUS
  <1> USE InstallationAssumption, FirstItem
          DEF IInv, TypeOK, Shape, Swapping, Progress, Aside, Kept, Stands, Changed, user, Goto
  <1>1. ASSUME NEW f \in Item, Edit(f) PROVE Kept'
      BY <1>1 DEF Edit, LookedAt, Ended
  <1>2. CASE Plan
      BY <1>2 DEF Plan
  <1>3. CASE Refuse \/ Review \/ NoChange
      BY <1>3 DEF Refuse, Review, NoChange
  <1>4. CASE Backup
      BY <1>4 DEF Backup, NeedsBackup
  <1>5. CASE WriteManifest \/ Applied \/ StepFails \/ RolledBack
      BY <1>5 DEF WriteManifest, Applied, StepFails, RolledBack, Pending
  <1>6. ASSUME NEW f \in Item, Apply(f) PROVE Kept'
      BY <1>6 DEF Apply, Pending
  <1>7. ASSUME NEW f \in Item, RollBack(f) PROVE Kept'
      BY <1>7 DEF RollBack
  <1>8. ASSUME NEW f \in Item, RollBackFails(f) PROVE Kept'
      BY <1>8 DEF RollBackFails
  <1>9. CASE Mutate \/ Look
      BY <1>9 DEF Mutate, Look
  <1>10. CASE MoveAside
      BY <1>10 DEF MoveAside
  <1>11. CASE Place
      BY <1>11 DEF Place
  <1>12. CASE Restore
      BY <1>12 DEF Restore
  <1>13. CASE Purge \/ PurgeFails
      BY <1>13 DEF Purge, PurgeFails
  <1>14. CASE Die
      BY <1>14 DEF Die, Ended
  <1>15. CASE UNCHANGED vars
      BY <1>15 DEF vars
  <1> QED BY <1>1, <1>2, <1>3, <1>4, <1>5, <1>6, <1>7, <1>8, <1>9, <1>10,
             <1>11, <1>12, <1>13, <1>14, <1>15 DEF Next, Transaction, Swap

LEMMA StepStands == IInv /\ [Next]_vars => Stands'
  <1> SUFFICES ASSUME IInv, [Next]_vars PROVE Stands'
      OBVIOUS
  <1> USE InstallationAssumption, FirstItem
          DEF IInv, TypeOK, Shape, Swapping, Progress, Aside, Kept, Stands, Changed, user, Goto
  <1>1. ASSUME NEW f \in Item, Edit(f) PROVE Stands'
      BY <1>1 DEF Edit, LookedAt, Ended
  <1>2. CASE Plan
      BY <1>2 DEF Plan
  <1>3. CASE Refuse \/ Review \/ NoChange
      BY <1>3 DEF Refuse, Review, NoChange
  <1>4. CASE Backup
      BY <1>4 DEF Backup, NeedsBackup
  <1>5. CASE WriteManifest \/ Applied \/ StepFails \/ RolledBack
      BY <1>5 DEF WriteManifest, Applied, StepFails, RolledBack, Pending
  <1>6. ASSUME NEW f \in Item, Apply(f) PROVE Stands'
      BY <1>6 DEF Apply, Pending
  <1>7. ASSUME NEW f \in Item, RollBack(f) PROVE Stands'
      BY <1>7 DEF RollBack
  <1>8. ASSUME NEW f \in Item, RollBackFails(f) PROVE Stands'
      BY <1>8 DEF RollBackFails
  <1>9. CASE Mutate \/ Look
      BY <1>9 DEF Mutate, Look
  <1>10. CASE MoveAside
      BY <1>10 DEF MoveAside
  <1>11. CASE Place
      BY <1>11 DEF Place
  <1>12. CASE Restore
      BY <1>12 DEF Restore
  <1>13. CASE Purge \/ PurgeFails
      BY <1>13 DEF Purge, PurgeFails
  <1>14. CASE Die
      BY <1>14 DEF Die, Ended
  <1>15. CASE UNCHANGED vars
      BY <1>15 DEF vars
  <1> QED BY <1>1, <1>2, <1>3, <1>4, <1>5, <1>6, <1>7, <1>8, <1>9, <1>10,
             <1>11, <1>12, <1>13, <1>14, <1>15 DEF Next, Transaction, Swap

LEMMA InductiveInvariant == Spec => []IInv
  <1>1. IInv /\ [Next]_vars => IInv'
      BY StepTypeOK, StepShape, StepProgress, StepAside, StepKept, StepStands DEF IInv
  <1> QED BY InitIInv, <1>1, PTL DEF Spec

-----------------------------------------------------------------------------

\* An installer is in one of its phases and knows one content of each file.
THEOREM TypeCorrect == Spec => []TypeOK
  <1>1. IInv => TypeOK
      BY DEF IInv
  <1> QED BY <1>1, InductiveInvariant, PTL

\* However many files, edits, failures and failing rollbacks there are, and
\* wherever the installer dies, the user's versions are in place or backed up.
THEOREM NothingIsLost == Spec => []NothingLost
  <1>1. IInv => NothingLost
    <2> SUFFICES ASSUME IInv, NEW f \in Item, f \notin late, file[f] # theirs[f]
                 PROVE  Recoverable(f)
        BY DEF NothingLost
    <2>1. f \in (written \union errors) \ late
        BY DEF IInv, Kept
    <2>2. CASE kind # "skill"
        BY <2>1, <2>2 DEF IInv, Kept, Recoverable
    <2>3. CASE kind = "skill"
      <3>1. f = 1 /\ phase # "plan"
          BY <2>1, <2>3 DEF IInv, TypeOK, Shape, Progress, Changed
      <3> QED BY <2>1, <2>3, <3>1 DEF IInv, Kept, Recoverable
    <2> QED BY <2>2, <2>3
  <1> QED BY <1>1, InductiveInvariant, PTL

\* What an installer reports is what it leaves, and after the one false report,
\* of a skill whose old directory could not be purged, the new directory stands.
THEOREM ItLeavesWhatItSays == Spec => []LeavesWhatItSays
  <1>1. IInv => LeavesWhatItSays
    <2> SUFFICES ASSUME IInv PROVE LeavesWhatItSays
        OBVIOUS
    <2>1. /\ Verdict = "applied" => phase = "applied"
          /\ Verdict = "undone" => phase \in {"undone", "unpurged"}
          /\ Verdict = "incomplete" => phase = "incomplete"
        BY DEF IInv, TypeOK, Phases, Verdict, Ended
    <2>2. ASSUME phase \in {"applied", "unpurged"}, NEW f \in Changed \ late
          PROVE  file[f] = goal[f]
        BY <2>2 DEF IInv, Progress, Stands
    <2>3. ASSUME phase = "undone" \/ (phase = "incomplete" /\ kind # "skill"),
                 NEW f \in Item \ (late \union errors)
          PROVE  file[f] = theirs[f]
        BY <2>3 DEF IInv, Progress, Kept
    <2> QED BY <2>1, <2>2, <2>3 DEF LeavesWhatItSays
  <1> QED BY <1>1, InductiveInvariant, PTL

-----------------------------------------------------------------------------
(* The implementation of AllOrNothing. *)

LEMMA InitPromised == Init => Report!Idle
  BY DEF Init, Report!Idle, Verdict, Ended

LEMMA StepPromised ==
    IInv /\ [Next]_vars =>
        [Report!Act \/ PurgeFails]_<<IF phase = "plan" THEN {} ELSE Changed, written \union errors, Verdict>>
  <1> DEFINE due == IF phase = "plan" THEN {} ELSE Changed
             net == written \union errors
  <1> SUFFICES ASSUME IInv, [Next]_vars
               PROVE  Report!Act \/ PurgeFails \/ UNCHANGED <<due, net, Verdict>>
      OBVIOUS
  <1> USE InstallationAssumption, FirstItem
          DEF IInv, TypeOK, Shape, Swapping, Progress, Aside, Changed, user,
              Goto, Verdict, Ended, Phases
  <1>1. ASSUME NEW f \in Item, Edit(f) PROVE UNCHANGED <<due, net, Verdict>>
      BY <1>1 DEF Edit
  <1>2. CASE Plan
    <2>1. Report!Decide
        BY <1>2 DEF Plan, Report!Decide
    <2> QED BY <2>1 DEF Report!Act
  <1>3. CASE Refuse \/ StepFails
    <2>1. Refuse => Report!Withdraw
        BY DEF Refuse, Report!Withdraw
    <2>2. StepFails => Report!Withdraw
        BY DEF StepFails, Report!Withdraw
    <2>3. Report!Withdraw
        BY <1>3, <2>1, <2>2
    <2> QED BY <2>3 DEF Report!Act
  <1>4. CASE Review \/ Backup \/ WriteManifest \/ Mutate \/ Look
    <2>1. ASSUME Review \/ Backup
          PROVE  Report!Withdraw \/ UNCHANGED <<due, net, Verdict>>
      <3>1. Verdict = "open" /\ due' = due /\ net' = net
          BY <2>1 DEF Review, Backup
      <3>2. Verdict' = "open" \/ Verdict' = "undoing"
          BY <2>1 DEF Review, Backup
      <3> QED BY <3>1, <3>2 DEF Report!Withdraw
    <2>2. ASSUME WriteManifest \/ Look PROVE UNCHANGED <<due, net, Verdict>>
      <3>1. /\ phase \in {"manifest", "look"} /\ phase' \in {"apply", "aside", "place"}
            /\ seen' = seen /\ goal' = goal /\ written' = written /\ errors' = errors
          BY <2>2 DEF WriteManifest, Look
      <3>2. Verdict = "open" /\ Verdict' = "open"
          BY <3>1
      <3> QED BY <3>1, <3>2
    <2>3. Mutate => Report!Withdraw \/ UNCHANGED <<due, net, Verdict>>
        BY DEF Mutate, Report!Withdraw
    <2>4. Report!Withdraw \/ UNCHANGED <<due, net, Verdict>>
        BY <1>4, <2>1, <2>2, <2>3
    <2> QED BY <2>4 DEF Report!Act
  <1>5. CASE NoChange \/ Applied
    <2>1. Report!Report
        BY <1>5 DEF NoChange, Applied, Pending, Report!Report
    <2> QED BY <2>1 DEF Report!Act
  <1>6. ASSUME NEW f \in Item, Apply(f) PROVE Report!Act
    <2>1. Report!Change(f) \/ Report!Withdraw
        BY <1>6 DEF Apply, Pending, Report!Change, Report!Withdraw
    <2> QED BY <2>1 DEF Report!Act
  <1>7. ASSUME NEW f \in Item, RollBack(f) PROVE Report!Act
    <2>1. Report!Undo(f)
        BY <1>7 DEF RollBack, Report!Undo
    <2> QED BY <2>1 DEF Report!Act
  <1>8. ASSUME NEW f \in Item, RollBackFails(f)
        PROVE  UNCHANGED <<due, net, Verdict>>
      BY <1>8 DEF RollBackFails
  <1>9. CASE RolledBack
    <2>1. Report!Report
        BY <1>9 DEF RolledBack, Report!Report
    <2> QED BY <2>1 DEF Report!Act
  <1>10. CASE MoveAside
    <2>1. Report!Change(1) \/ Report!Withdraw
        BY <1>10 DEF MoveAside, Report!Change, Report!Withdraw
    <2> QED BY <2>1 DEF Report!Act
  <1>11. CASE Place
    <2>1. Report!Change(1) \/ Report!Withdraw \/ UNCHANGED <<due, net, Verdict>>
        BY <1>11 DEF Place, Report!Change, Report!Withdraw
    <2> QED BY <2>1 DEF Report!Act
  <1>12. CASE Restore
    <2>1. Report!Undo(1) \/ UNCHANGED <<due, net, Verdict>>
        BY <1>12 DEF Restore, Report!Undo
    <2> QED BY <2>1 DEF Report!Act
  <1>13. CASE Purge
    <2>1. Report!Report
        BY <1>13 DEF Purge, Report!Report
    <2> QED BY <2>1 DEF Report!Act
  <1>16. CASE PurgeFails
      BY <1>16
  <1>14. CASE Die
    <2>1. Report!Vanish
        BY <1>14 DEF Die, Report!Vanish
    <2> QED BY <2>1 DEF Report!Act
  <1>15. CASE UNCHANGED vars
      BY <1>15 DEF vars
  <1> QED BY <1>1, <1>2, <1>3, <1>4, <1>5, <1>6, <1>7, <1>8, <1>9, <1>10,
             <1>11, <1>12, <1>13, <1>14, <1>15, <1>16 DEF Next, Transaction, Swap

\* Whatever the installer meets, its run is a run of the abstract installation:
\* changes first, then perhaps their undoing, and a report that is true.  Of all
\* its steps the failing purge of a skill alone is not one of the abstract
\* installation's.
THEOREM ReportsAreTrue == Spec => ReportsTruly
  <1> QED BY InitPromised, StepPromised, InductiveInvariant, PTL
             DEF Spec, ReportsTruly

=============================================================================
