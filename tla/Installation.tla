---------------------------- MODULE Installation ----------------------------
(***************************************************************************)
(* The installers that replace files of the user's:                        *)
(*   "hooks"  agent_maintainer/hooks/mutations.py                          *)
(*   "init"   agent_maintainer/core/scaffold/transaction.py                *)
(*   "setup"  the same transaction behind the review of setup_plans.py      *)
(*   "skill"  agent_maintainer/skill/transactions.py, one directory         *)
(* Planning reads the destinations; the changes are made later, perhaps      *)
(* after the user was asked.  The user may edit the files at any time, any   *)
(* step may fail, and the process may die.                                  *)
(***************************************************************************)
EXTENDS Integers, FiniteSets

CONSTANTS
    Kinds,      \* the installers that are looked at
    Last,       \* the items of a plan are 1..Last, in the order of the plan
    Text,       \* contents the user writes
    Absent,     \* no file
    Ours,       \* the content the installer wants
    Torn,       \* half of a content
    MaxEdits,   \* bound: edits by the user
    MaxFaults   \* bound: failing file operations

ASSUME InstallationAssumption ==
    /\ Kinds \subseteq {"hooks", "init", "setup", "skill"}
    /\ Last \in Nat \ {0}
    /\ Absent \notin Text /\ Ours \notin Text /\ Torn \notin Text
    /\ Absent # Ours /\ Absent # Torn /\ Ours # Torn
    /\ MaxEdits \in Nat
    /\ MaxFaults \in Nat

Item == 1..Last
Content == Text \union {Absent, Ours, Torn}

VARIABLES
    kind,      \* which installer runs
    goal,      \* the content each item shall have: Ours, or Absent (removal)
    file,      \* the destinations
    theirs,    \* history: the user's own version of each destination
    late,      \* history: items edited after the last look at them
    phase,     \* where the installer is
    seen,      \* each destination when the plan was made
    saved,     \* the backups; for "skill" the directory moved aside
    manifest,  \* rollback.json has been written
    written,   \* changes made and not yet rolled back
    errors,    \* changes whose rollback failed
    edits,
    faults

user == <<theirs, late, edits>>
vars == <<kind, goal, file, theirs, late, phase, seen, saved, manifest,
          written, errors, edits, faults>>

Changed == {f \in Item : seen[f] # goal[f]}

Phases == {"plan", "review", "backup", "manifest", "apply", "rollback",
           "mutate", "look", "aside", "place", "restore", "purge",
           "applied", "undone", "incomplete", "unpurged", "dead"}

Ended == phase \in {"applied", "undone", "incomplete", "unpurged", "dead"}

TypeOK ==
    /\ kind \in Kinds
    /\ goal \in [Item -> {Ours, Absent}]
    /\ file \in [Item -> Content]
    /\ theirs \in [Item -> Content]
    /\ late \subseteq Item
    /\ phase \in Phases
    /\ seen \in [Item -> Content]
    /\ saved \in [Item -> Content]
    /\ manifest \in BOOLEAN
    /\ written \subseteq Item
    /\ errors \subseteq Item
    /\ edits \in 0..MaxEdits
    /\ faults \in 0..MaxFaults

\* A skill is one directory, to be installed or uninstalled; hooks are removed
\* as well.  Absent stands for a directory without the files of the skill.
Init ==
    /\ kind \in Kinds
    /\ goal \in [Item -> {Ours, Absent}]
    /\ \A f \in Item : goal[f] = Absent => kind = "hooks" \/ (kind = "skill" /\ f = 1)
    /\ file \in [Item -> Text \union {Absent, Ours}]
    /\ kind = "skill" => \A f \in Item \ {1} : file[f] = Ours
    /\ theirs = file
    /\ late = {}
    /\ phase = "plan"
    /\ seen = file
    /\ saved = [f \in Item |-> Absent]
    /\ manifest = FALSE
    /\ written = {}
    /\ errors = {}
    /\ edits = 0
    /\ faults = 0

-----------------------------------------------------------------------------
(* The user. *)

\* The installer will not look at this destination again before it acts.
LookedAt(f) ==
    /\ phase # "plan"
    /\ IF kind = "skill"
       THEN f = 1
       ELSE \/ kind = "hooks" /\ seen[f] = Absent
            \/ phase \notin {"review", "backup"}

Edit(f) ==
    /\ ~Ended
    /\ edits < MaxEdits
    /\ kind = "skill" => f = 1
    /\ \E c \in Text \union {Absent} :
          /\ c # file[f]
          /\ file' = [file EXCEPT ![f] = c]
          /\ theirs' = [theirs EXCEPT ![f] = c]
    /\ late' = IF LookedAt(f) THEN late \union {f} ELSE late
    /\ edits' = edits + 1
    /\ UNCHANGED <<kind, goal, phase, seen, saved, manifest, written, errors, faults>>

-----------------------------------------------------------------------------
(* Planning, backup and manifest. *)

Goto(p) == phase' = p

Fail == faults < MaxFaults /\ faults' = faults + 1

\* prepare_write and prepare_delete, build_plan, the status of a skill.
Plan ==
    /\ phase = "plan"
    /\ seen' = file
    /\ Goto(CASE kind = "skill" /\ file[1] # goal[1] -> "mutate"
              [] kind = "setup" -> "review"
              [] OTHER -> "backup")
    /\ UNCHANGED <<kind, goal, file, user, saved, manifest, written, errors, faults>>

\* A conflict without --force, a file that is not owned, or the user says no.
Refuse ==
    /\ phase \in {"review", "backup", "mutate"}
    /\ Goto("rollback")
    /\ UNCHANGED <<kind, goal, file, user, seen, saved, manifest, written, errors, faults>>

\* _transaction_item: "setup source changed after review".
Review ==
    /\ phase = "review"
    /\ Goto(IF \A f \in Changed : file[f] = seen[f] THEN "backup" ELSE "rollback")
    /\ UNCHANGED <<kind, goal, file, user, seen, saved, manifest, written, errors, faults>>

\* Seeded fault: init trusts the plan on what exists.
NeedsBackup_Planned(f) == f \in Changed /\ seen[f] # Absent

\* hooks go by the plan, the initializer looks again.
NeedsBackup(f) ==
    /\ f \in Changed
    /\ IF kind = "hooks" THEN seen[f] # Absent ELSE file[f] # Absent

\* Seeded fault: the last item of a plan is left out.
Backup_DropsLast ==
    /\ phase = "backup"
    /\ Changed # {}
    /\ saved' = [f \in Item \ {Last} |-> IF NeedsBackup(f) THEN file[f] ELSE Absent]
    /\ Goto("manifest")
    /\ UNCHANGED <<kind, goal, file, user, seen, manifest, written, errors, faults>>

\* Copies of the destinations.  One that has disappeared fails the transaction.
Backup ==
    /\ phase = "backup"
    /\ Changed # {}
    /\ IF \E f \in Item : NeedsBackup(f) /\ file[f] = Absent
       THEN Goto("rollback") /\ UNCHANGED saved
       ELSE /\ saved' = [f \in Item |-> IF NeedsBackup(f) THEN file[f] ELSE Absent]
            /\ Goto("manifest")
    /\ UNCHANGED <<kind, goal, file, user, seen, manifest, written, errors, faults>>

\* Nothing to change: no transaction is begun.
NoChange ==
    /\ phase = "backup"
    /\ Changed = {}
    /\ Goto("applied")
    /\ UNCHANGED <<kind, goal, file, user, seen, saved, manifest, written, errors, faults>>

WriteManifest ==
    /\ phase = "manifest"
    /\ manifest' = TRUE
    /\ Goto("apply")
    /\ UNCHANGED <<kind, goal, file, user, seen, saved, written, errors, faults>>

-----------------------------------------------------------------------------
(* Applying the changes in order, and rolling back in reverse. *)

Pending == Changed \ written

\* An atomic replacement, or a removal, which a missing file makes fail.
Apply(f) ==
    /\ phase = "apply"
    /\ f \in Pending /\ \A g \in Pending : f =< g
    /\ IF goal[f] = Absent /\ file[f] = Absent
       THEN Goto("rollback") /\ UNCHANGED <<file, written>>
       ELSE /\ file' = [file EXCEPT ![f] = goal[f]]
            /\ written' = written \union {f}
            /\ UNCHANGED phase
    /\ UNCHANGED <<kind, goal, user, seen, saved, manifest, errors, faults>>

Applied ==
    /\ phase = "apply"
    /\ Pending = {}
    /\ Goto("applied")
    /\ UNCHANGED <<kind, goal, file, user, seen, saved, manifest, written, errors, faults>>

\* Any step between the plan and the end fails with an OSError.
StepFails ==
    /\ phase \in {"backup", "manifest", "apply"}
    /\ Changed # {}
    /\ phase = "apply" => Pending # {}
    /\ Fail
    /\ Goto("rollback")
    /\ UNCHANGED <<kind, goal, file, user, seen, saved, manifest, written, errors>>

\* Seeded fault: a file that was created is left behind.
RollBack_KeepNew(f) ==
    /\ phase = "rollback"
    /\ f \in written /\ \A g \in written : g =< f
    /\ file' = IF saved[f] # Absent THEN [file EXCEPT ![f] = saved[f]] ELSE file
    /\ written' = written \ {f}
    /\ UNCHANGED <<kind, goal, user, phase, seen, saved, manifest, errors, faults>>

\* The backup is copied back over the destination, or what was created is
\* removed.
RollBack(f) ==
    /\ phase = "rollback"
    /\ f \in written /\ \A g \in written : g =< f
    /\ file' = [file EXCEPT ![f] = saved[f]]
    /\ written' = written \ {f}
    /\ UNCHANGED <<kind, goal, user, phase, seen, saved, manifest, errors, faults>>

\* A copy that fails may have begun; the rollback goes on with the next.
RollBackFails(f) ==
    /\ phase = "rollback"
    /\ f \in written /\ \A g \in written : g =< f
    /\ Fail
    /\ \E c \in {file[f]} \union (IF saved[f] # Absent THEN {Torn} ELSE {}) :
          file' = [file EXCEPT ![f] = c]
    /\ written' = written \ {f}
    /\ errors' = errors \union {f}
    /\ UNCHANGED <<kind, goal, user, phase, seen, saved, manifest>>

\* Seeded fault: errors of the rollback are not looked at.
RolledBack_Silent ==
    /\ phase = "rollback"
    /\ written = {}
    /\ Goto("undone")
    /\ UNCHANGED <<kind, goal, file, user, seen, saved, manifest, written, errors, faults>>

RolledBack ==
    /\ phase = "rollback"
    /\ written = {}
    /\ Goto(IF errors = {} THEN "undone" ELSE "incomplete")
    /\ UNCHANGED <<kind, goal, file, user, seen, saved, manifest, written, errors, faults>>

-----------------------------------------------------------------------------
(* The swap of a staged directory. *)

\* The mutation of the staged copy; a failure discards it.  The files of an
\* earlier version are removed, which fails when they are gone.
Mutate ==
    /\ phase = "mutate"
    /\ \/ seen[1] # Absent /\ file[1] = Absent /\ Goto("rollback") /\ UNCHANGED faults
       \/ /\ seen[1] = Absent \/ file[1] # Absent
          /\ Goto("look") /\ UNCHANGED faults
       \/ Fail /\ Goto("rollback")
    /\ UNCHANGED <<kind, goal, file, user, seen, saved, manifest, written, errors>>

Look ==
    /\ phase = "look"
    /\ Goto(IF file[1] = Absent THEN "place" ELSE "aside")
    /\ UNCHANGED <<kind, goal, file, user, seen, saved, manifest, written, errors, faults>>

\* os.replace(destination, backup).
MoveAside ==
    /\ phase = "aside"
    /\ \/ /\ file[1] # Absent
          /\ saved' = [saved EXCEPT ![1] = file[1]]
          /\ file' = [file EXCEPT ![1] = Absent]
          /\ written' = {1}
          /\ Goto("place")
          /\ UNCHANGED faults
       \/ /\ file[1] = Absent \/ faults < MaxFaults
          /\ faults' = IF file[1] = Absent THEN faults ELSE faults + 1
          /\ Goto("rollback")
          /\ UNCHANGED <<file, saved, written>>
    /\ UNCHANGED <<kind, goal, user, seen, manifest, errors>>

\* os.replace(staged, destination), which fails when somebody has put a
\* directory there meanwhile.
Place ==
    /\ phase = "place"
    /\ \/ /\ file[1] = Absent
          /\ file' = [file EXCEPT ![1] = goal[1]]
          /\ written' = {1}
          /\ Goto("purge")
          /\ UNCHANGED faults
       \/ /\ file[1] # Absent \/ faults < MaxFaults
          /\ faults' = IF file[1] # Absent THEN faults ELSE faults + 1
          /\ Goto(IF saved[1] = Absent THEN "rollback" ELSE "restore")
          /\ UNCHANGED <<file, written>>
    /\ UNCHANGED <<kind, goal, user, seen, saved, manifest, errors>>

\* os.replace(backup, destination).
Restore ==
    /\ phase = "restore"
    /\ \/ /\ file[1] = Absent
          /\ file' = [file EXCEPT ![1] = saved[1]]
          /\ saved' = [saved EXCEPT ![1] = Absent]
          /\ UNCHANGED <<errors, faults>>
       \/ /\ file[1] # Absent \/ faults < MaxFaults
          /\ faults' = IF file[1] # Absent THEN faults ELSE faults + 1
          /\ errors' = {1}
          /\ UNCHANGED <<file, saved>>
    /\ written' = {}
    /\ Goto("rollback")
    /\ UNCHANGED <<kind, goal, user, seen, manifest>>

\* rmtree(backup), if there is one.  An uninstalled skill's directory is removed
\* if it is empty.
Purge ==
    /\ phase = "purge"
    /\ saved' = [saved EXCEPT ![1] = Absent]
    /\ Goto("applied")
    /\ UNCHANGED <<kind, goal, file, user, seen, manifest, written, errors, faults>>

\* rmtree fails, perhaps half way.  replace_destination takes the error for one
\* of the mutation: "skill mutation failed before replacement".
PurgeFails ==
    /\ phase = "purge"
    /\ saved[1] # Absent
    /\ Fail
    /\ \E c \in {saved[1], Torn} : saved' = [saved EXCEPT ![1] = c]
    /\ Goto("unpurged")
    /\ UNCHANGED <<kind, goal, file, user, seen, manifest, written, errors>>

-----------------------------------------------------------------------------

\* A kill or a KeyboardInterrupt, which no handler catches; one that comes
\* while a backup is copied back tears the destination, one that comes during
\* the purge the backup.
Die ==
    /\ phase # "plan"
    /\ ~Ended
    /\ Goto("dead")
    /\ \/ UNCHANGED <<file, saved>>
       \/ \E f \in written : /\ phase = "rollback" /\ saved[f] # Absent
                             /\ \A g \in written : g =< f
                             /\ file' = [file EXCEPT ![f] = Torn]
                             /\ UNCHANGED saved
       \/ /\ phase = "purge" /\ saved[1] # Absent
          /\ saved' = [saved EXCEPT ![1] = Torn]
          /\ UNCHANGED file
    /\ UNCHANGED <<kind, goal, user, seen, manifest, written, errors, faults>>

Transaction ==
    \/ Plan \/ Refuse \/ Review \/ Backup \/ NoChange \/ WriteManifest
    \/ \E f \in Item : Apply(f) \/ RollBack(f) \/ RollBackFails(f)
    \/ Applied \/ StepFails \/ RolledBack

Swap == Mutate \/ Look \/ MoveAside \/ Place \/ Restore \/ Purge \/ PurgeFails

Next == (\E f \in Item : Edit(f)) \/ Transaction \/ Swap \/ Die

Spec == Init /\ [][Next]_vars

-----------------------------------------------------------------------------

\* What leads back to the user's version of an item: the directory moved
\* aside or carried over into the new one, or what rollback.json says.
Recoverable(f) ==
    IF kind = "skill"
    THEN saved[f] = theirs[f] \/ (file[f] = goal[f] /\ seen[f] = theirs[f])
    ELSE manifest /\ saved[f] = theirs[f]

\* "Changed existing files are always backed up": wherever the installer fails,
\* is killed or fails to roll back, the user's version of every destination is
\* in its place or can be put back, unless it was written after the installer
\* had looked for the last time (hooks decide that a file needs no backup when
\* they plan, the others when they back up).
NothingLost ==
    \A f \in Item : f \in late \/ file[f] = theirs[f] \/ Recoverable(f)

\* What the user is told: a skill whose old directory could not be purged has
\* failed "before replacement", like one whose staged copy could not be changed.
Verdict == CASE phase = "plan" -> "idle"
             [] phase \in {"rollback", "restore"} -> "undoing"
             [] phase = "unpurged" -> "undone"
             [] Ended -> phase
             [] OTHER -> "open"

\* "Earlier destinations are restored if a later operation fails": a report of
\* success leaves every changed destination as planned; a report that nothing
\* was done leaves every destination as the user had it, and so does a report
\* of an incomplete rollback but for the destinations whose rollback failed (of
\* a skill that cannot be restored nothing is said).  Destinations the user
\* wrote after the installer had looked for the last time are not looked at.
\* One report is false: after a purge that failed, a skill is said not to have
\* been replaced, and the new directory stands.
LeavesWhatItSays ==
    /\ Verdict = "applied" \/ phase = "unpurged" =>
          \A f \in Changed \ late : file[f] = goal[f]
    /\ \/ Verdict = "undone" /\ phase # "unpurged"
       \/ Verdict = "incomplete" /\ kind # "skill"
       => \A f \in Item \ (late \union errors) : file[f] = theirs[f]

Report == INSTANCE AllOrNothing WITH
    due <- IF phase = "plan" THEN {} ELSE Changed,
    net <- written \union errors,
    verdict <- Verdict

\* "Writes and removals are applied atomically as one transaction and earlier
\* destinations are restored if a later operation fails": what is reported in
\* the end is what stands, all of it or nothing, or else the report says so.
\* The step that breaks this promise is the failing purge of a skill, no other.
ReportsTruly ==
    /\ Report!Idle
    /\ [][Report!Act \/ PurgeFails]_<<IF phase = "plan" THEN {} ELSE Changed,
                                    written \union errors, Verdict>>

=============================================================================
