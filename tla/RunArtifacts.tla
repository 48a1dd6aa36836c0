---------------------------- MODULE RunArtifacts ----------------------------
(***************************************************************************)
(* What verifier runs leave behind and what is concluded from it:           *)
(*   agent_maintainer/verify/quiet.py, run_steps.py, artifacts.py,          *)
(*     partial_runs.py                                                      *)
(*   agent_run_artifacts/history.py, verification_aggregate.py              *)
(* A run works in a snapshot directory of its own and updates files that    *)
(* all runs share (the latest manifest, LAST_FAILURE.md, the summary, the    *)
(* last result); afterwards it prunes old snapshots.  Runs of two groups     *)
(* of checks are aggregated to the evidence of a whole profile.             *)
(*                                                                         *)
(* The lock of VerifyLock keeps runs apart, except that a run which          *)
(* outlives the stale bound loses it.  Reused results are not runs.         *)
(***************************************************************************)
EXTENDS Integers, SequencesExt

CONSTANTS
    Run,         \* runs, by their ids
    Tree,        \* states of the repository
    Catalog,     \* the names of all checks in the order they run
    First,       \* the state it is in at first
    HeadOf,      \* the commit under a state
    Selects,     \* the checks the configuration of a state selects
    Tests,       \* the checks of the group "tests-and-coverage"
    Layout,      \* the failure that stands for all checks of a bad layout
    None,        \* nobody, nothing
    Groups,      \* kinds of runs: "tests", "static" or "all"
    Keeps,       \* values of diagnostics.run_history_limit
    MaxUpsets    \* bound: edits, locks broken as stale, runs that die

Check == ToSet(Catalog)

ASSUME ArtifactsAssumption ==
    /\ IsInjective(Catalog)
    /\ Tests \subseteq Check
    /\ Layout \notin Check
    /\ {"manifest", "failure"} \intersect (Check \union {Layout}) = {}
    /\ None \notin Run
    /\ Groups \subseteq {"tests", "static", "all"}
    /\ Selects \in [Tree -> SUBSET Check]
    /\ First \in Tree
    /\ Tree = DOMAIN HeadOf
    /\ Keeps \subseteq Nat
    /\ MaxUpsets \in Nat

VARIABLES
    tree,      \* the repository as it is
    keep,      \* run_history_limit
    holder,    \* whose lock file is there
    pc,        \* where each run is
    group,     \* the group of checks it was asked for
    print,     \* the state it has loaded the configuration of and fingerprinted
    ran,       \* outcomes of the checks it has run or skipped
    recent,    \* snapshot directories, the last modified first
    inside,    \* what each directory holds
    sha,       \* the commit each run-scoped manifest names
    latest,    \* manifest.json: whose, and the commit it names
    note,      \* LAST_FAILURE.md: whose
    summary,   \* pr-summary.md: whose
    result,    \* agent-maintainer-last-result.json: whose
    doomed,    \* snapshots a run is about to remove
    evidence,  \* the runs an aggregate was made of
    saw,       \* history: the states the checks of each run have seen
    alone,     \* history: runs that have met no other
    started,   \* history: runs in the order they have acquired the lock
    upsets

shared == <<recent, inside, sha, latest, note, summary, result>>
history == <<saw, alone, started>>
vars == <<tree, keep, holder, pc, group, print, ran, shared, doomed,
          evidence, history, upsets>>

Working == {r \in Run : pc[r] \in {"check", "latest", "snapshot", "failure", "note",
                                   "list", "remove", "summary", "result", "release"}}

\* A warning is a pass.  A check whose requirements are missing is not run and
\* has an outcome all the same, "skipped" for one of five reasons.
Outcomes == {"passed", "skipped", "failed"}
Failed(r) == \E c \in DOMAIN ran[r] : ran[r][c] = "failed"

Init ==
    /\ tree = First
    /\ keep \in Keeps
    /\ holder = None
    /\ pc = [r \in Run |-> "start"]
    /\ group = [r \in Run |-> None]
    /\ print = [r \in Run |-> None]
    /\ ran = [r \in Run |-> [c \in {} |-> "passed"]]
    /\ recent = <<>>
    /\ inside = [r \in Run |-> {}]
    /\ sha = [r \in Run |-> None]
    /\ latest = [run |-> None, head |-> None]
    /\ note = None
    /\ summary = None
    /\ result = None
    /\ doomed = [r \in Run |-> {}]
    /\ evidence = {}
    /\ saw = [r \in Run |-> {}]
    /\ alone = Run
    /\ started = <<>>
    /\ upsets = 0

Upset == upsets < MaxUpsets /\ upsets' = upsets + 1

Goto(r, line) == pc' = [pc EXCEPT ![r] = line]

-----------------------------------------------------------------------------
(* main, and the lock as VerifyLock describes it. *)

\* load_config and build_fingerprint, before the wait for the lock.
Fingerprint(r) ==
    /\ pc[r] = "start"
    /\ \E g \in Groups : group' = [group EXCEPT ![r] = g]
    /\ print' = [print EXCEPT ![r] = tree]
    /\ Goto(r, "lock")
    /\ UNCHANGED <<tree, keep, holder, ran, shared, doomed, evidence, history, upsets>>

Acquire(r) ==
    /\ pc[r] = "lock"
    /\ holder = None
    /\ holder' = r
    /\ started' = Append(started, r)
    /\ alone' = IF Working = {} THEN alone ELSE alone \ (Working \union {r})
    /\ Goto(r, "check")
    /\ UNCHANGED <<tree, keep, group, print, ran, shared, doomed, evidence,
                   saw, upsets>>

\* A lock file older than LOCK_STALE_SECONDS, whether its owner lives or not.
BreakLock ==
    /\ holder # None
    /\ \E r \in Run : pc[r] = "lock"
    /\ Upset
    /\ holder' = None
    /\ UNCHANGED <<tree, keep, pc, group, print, ran, shared, doomed, evidence,
                   history>>

-----------------------------------------------------------------------------
(* The checks, each with its log in the run's own directory. *)

\* The list s without q.
Without(s, q) ==
    IF Contains(s, q) THEN RemoveAt(s, CHOOSE i \in DOMAIN s : s[i] = q) ELSE s

\* A new entry makes a directory the most recent; mkdir makes it exist.
Enter(r, entries) ==
    /\ inside' = [inside EXCEPT ![r] = @ \union entries]
    /\ recent' = <<r>> \o Without(recent, r)

\* select_checks: the checks of one group, or all.
Selected(r) ==
    CASE group[r] = "tests" -> Selects[print[r]] \intersect Tests
      [] group[r] = "static" -> Selects[print[r]] \ Tests
      [] OTHER -> Selects[print[r]]

Outstanding(r) == Selected(r) \ DOMAIN ran[r]

\* The first outstanding check of the catalog is run, or skipped for what it
\* misses in the tree; its log is written either way.
RunCheck(r) ==
    /\ pc[r] = "check"
    /\ \E i \in DOMAIN Catalog, o \in Outcomes :
          /\ Catalog[i] \in Outstanding(r)
          /\ \A j \in 1..(i - 1) : Catalog[j] \notin Outstanding(r)
          /\ ran' = [ran EXCEPT ![r] =
                [c \in DOMAIN @ \union {Catalog[i]} |->
                    IF c = Catalog[i] THEN o ELSE @[c]]]
          /\ Enter(r, {Catalog[i]})
    /\ saw' = [saw EXCEPT ![r] = @ \union {tree}]
    /\ UNCHANGED <<tree, keep, holder, pc, group, print, sha, latest, note, summary,
                   result, doomed, evidence, alone, started, upsets>>

\* layout_failures or ref_failures: nothing is run, one failure is returned.
LayoutFails(r) ==
    /\ pc[r] = "check"
    /\ DOMAIN ran[r] = {}
    /\ ran' = [ran EXCEPT ![r] = [c \in {Layout} |-> "failed"]]
    /\ Enter(r, {Layout})
    /\ Goto(r, "latest")
    /\ UNCHANGED <<tree, keep, holder, group, print, sha, latest, note,
                   summary, result, doomed, evidence, history, upsets>>

ChecksDone(r) ==
    /\ pc[r] = "check"
    /\ Selected(r) = DOMAIN ran[r]
    /\ Goto(r, "latest")
    /\ UNCHANGED <<tree, keep, holder, group, print, ran, shared, doomed,
                   evidence, history, upsets>>

-----------------------------------------------------------------------------
(* write_run_artifacts. *)

\* copy_run_logs finds the logs in place and makes sure of the directory; then
\* manifest.json is replaced, with the commit as it is now.
WriteLatest(r) ==
    /\ pc[r] = "latest"
    /\ recent' = IF Contains(recent, r) THEN recent ELSE <<r>> \o recent
    /\ latest' = [run |-> r, head |-> HeadOf[tree]]
    /\ Goto(r, "snapshot")
    /\ UNCHANGED <<tree, keep, holder, group, print, ran, inside, sha, note,
                   summary, result, doomed, evidence, history, upsets>>

\* write_history_manifest: the payload is made again, with git_state.
WriteSnapshot(r) ==
    /\ pc[r] = "snapshot"
    /\ Enter(r, {"manifest"})
    /\ sha' = [sha EXCEPT ![r] = HeadOf[tree]]
    /\ Goto(r, IF Failed(r) THEN "failure" ELSE "note")
    /\ UNCHANGED <<tree, keep, holder, group, print, ran, latest, note,
                   summary, result, doomed, evidence, history, upsets>>

\* write_last_failure: the stable copy first ...
WriteFailure(r) ==
    /\ pc[r] = "failure"
    /\ Enter(r, {"failure"})
    /\ Goto(r, "note")
    /\ UNCHANGED <<tree, keep, holder, group, print, ran, sha, latest, note,
                   summary, result, doomed, evidence, history, upsets>>

\* Seeded fault: a run that passes leaves the note of the last failure.
SetNote_Stale(r) ==
    /\ pc[r] = "note"
    /\ note' = IF Failed(r) THEN r ELSE note
    /\ Goto(r, "list")
    /\ UNCHANGED <<tree, keep, holder, group, print, ran, recent, inside, sha,
                   latest, summary, result, doomed, evidence, history, upsets>>

\* ... then the pointer, which a run that passes removes.
SetNote(r) ==
    /\ pc[r] = "note"
    /\ note' = IF Failed(r) THEN r ELSE None
    /\ Goto(r, "list")
    /\ UNCHANGED <<tree, keep, holder, group, print, ran, recent, inside, sha,
                   latest, summary, result, doomed, evidence, history, upsets>>

\* Seeded fault: one snapshot too many.
Excess_OneMore == {recent[i] : i \in (IF keep = 0 THEN 1 ELSE keep)..Len(recent)}

\* snapshots[keep:] in the order of modification, newest first.
Excess == {recent[i] : i \in (keep + 1)..Len(recent)}

\* prune_run_history: the listing ...
List(r) ==
    /\ pc[r] = "list"
    /\ doomed' = [doomed EXCEPT ![r] = Excess]
    /\ Goto(r, IF Excess = {} THEN "summary" ELSE "remove")
    /\ UNCHANGED <<tree, keep, holder, group, print, ran, shared, evidence,
                   history, upsets>>

\* ... and one rmtree after the other, which a missing directory does not stop.
RemoveSnapshot(r) ==
    /\ pc[r] = "remove"
    /\ \E q \in doomed[r] :
          /\ recent' = Without(recent, q)
          /\ inside' = [inside EXCEPT ![q] = {}]
          /\ sha' = [sha EXCEPT ![q] = None]
          /\ doomed' = [doomed EXCEPT ![r] = @ \ {q}]
          /\ Goto(r, IF doomed[r] = {q} THEN "summary" ELSE "remove")
    /\ UNCHANGED <<tree, keep, holder, group, print, ran, latest, note, summary,
                   result, evidence, history, upsets>>

WriteSummary(r) ==
    /\ pc[r] = "summary"
    /\ summary' = r
    /\ Goto(r, "result")
    /\ UNCHANGED <<tree, keep, holder, group, print, ran, recent, inside, sha,
                   latest, note, result, doomed, evidence, history, upsets>>

WriteResult(r) ==
    /\ pc[r] = "result"
    /\ result' = r
    /\ Goto(r, "release")
    /\ UNCHANGED <<tree, keep, holder, group, print, ran, recent, inside, sha,
                   latest, note, summary, doomed, evidence, history, upsets>>

\* __exit__ unlinks whatever lock file is there.
Release(r) ==
    /\ pc[r] = "release"
    /\ holder' = None
    /\ Goto(r, "done")
    /\ UNCHANGED <<tree, keep, group, print, ran, shared, doomed, evidence,
                   history, upsets>>

-----------------------------------------------------------------------------
(* aggregate_partial_manifests, over the latest and the run-scoped manifests. *)

Manifests ==
    {m \in {latest} : m.run # None}
        \union {[run |-> r, head |-> sha[r]] : r \in {q \in Run : "manifest" \in inside[q]}}

\* _validate_shared_state: the same fingerprint, and so the same thresholds.
SharedState(m, n) == print[m.run] = print[n.run]

\* Seeded fault: the commit of the manifest is not compared.
Acceptable_AnyCommit(m) ==
    /\ group[m.run] # "all"
    /\ DOMAIN ran[m.run] = Selected(m.run)
    /\ ~Failed(m.run)

\* One manifest: a partial run, whose commit is the fingerprinted one, with
\* exactly the selected checks, none of which has failed; skipped ones count
\* (_ALLOWED_CHECK_STATUSES).
Acceptable(m) ==
    /\ group[m.run] # "all"
    /\ m.head = HeadOf[print[m.run]]
    /\ DOMAIN ran[m.run] = Selected(m.run)
    /\ ~Failed(m.run)

\* Both required groups, each once, and no check twice.  Fewer or more
\* manifests than groups are refused for a missing or duplicate group.
Accepts(m, n) ==
    /\ Acceptable(m) /\ Acceptable(n)
    /\ group[m.run] # group[n.run]
    /\ SharedState(m, n)
    /\ DOMAIN ran[m.run] \intersect DOMAIN ran[n.run] = {}

Aggregate ==
    /\ \E m, n \in Manifests :
          /\ Accepts(m, n)
          /\ evidence' = {m.run, n.run}
    /\ UNCHANGED <<tree, keep, holder, pc, group, print, ran, shared, doomed,
                   history, upsets>>

-----------------------------------------------------------------------------

\* A developer or an agent edits, commits, checks out.
Edit ==
    /\ Upset
    /\ tree' \in Tree \ {tree}
    /\ UNCHANGED <<keep, holder, pc, group, print, ran, shared, doomed,
                   evidence, history>>

\* A run is killed and leaves its lock, or raises and unlinks what is there: a
\* full disk, or the stat of a snapshot another run has just removed.
Die(r) ==
    /\ r \in Working
    /\ Upset
    /\ holder' \in {holder, None}
    /\ Goto(r, "dead")
    /\ doomed' = [doomed EXCEPT ![r] = {}]
    /\ UNCHANGED <<tree, keep, group, print, ran, shared, evidence, history>>

Verify(r) ==
    \/ Fingerprint(r) \/ Acquire(r)
    \/ RunCheck(r) \/ LayoutFails(r) \/ ChecksDone(r)
    \/ WriteLatest(r) \/ WriteSnapshot(r) \/ WriteFailure(r) \/ SetNote(r)
    \/ List(r) \/ RemoveSnapshot(r)
    \/ WriteSummary(r) \/ WriteResult(r) \/ Release(r)

Next == (\E r \in Run : Verify(r) \/ Die(r)) \/ BreakLock \/ Aggregate \/ Edit

Spec == Init /\ [][Next]_vars

-----------------------------------------------------------------------------

\* "Fail-closed aggregation": the evidence of an aggregate comes from runs of
\* one fingerprint in which nothing has failed; every check that the
\* fingerprinted configuration selects is answered for in exactly one of them,
\* where it passed or was skipped; and whatever was looked at for these answers
\* was of the fingerprinted commit, unless that was left and returned to, which
\* takes two steps.  It does not say that every selected check has run, and
\* edits that are not committed go unnoticed.
EvidenceIsComplete ==
    \A r \in evidence :
        /\ ~Failed(r)
        /\ \A q \in evidence : print[r] = print[q]
        /\ \A c \in Selects[print[r]] :
              \E q \in evidence : /\ c \in DOMAIN ran[q]
                                  /\ \A p \in evidence \ {q} : c \notin DOMAIN ran[p]
        /\ upsets < 2 => \A s \in saw[r] : HeadOf[s] = HeadOf[print[r]]

\* Once the last run has ended, and met no other, all shared files are about
\* it whatever earlier runs have left behind, the note is there exactly if it
\* has failed (doctor reports anything else as drift), its snapshot is whole,
\* and no more snapshots are kept than configured.
StandsAlone ==
    started # <<>> =>
        LET r == Last(started) IN
        pc[r] = "done" /\ r \in alone =>
            /\ latest.run = r /\ summary = r /\ result = r
            /\ note = IF Failed(r) THEN r ELSE None
            /\ keep > 0 => inside[r] = DOMAIN ran[r] \union {"manifest"}
                              \union (IF Failed(r) THEN {"failure"} ELSE {})
            /\ Len(recent) =< keep

\* "The default keeps enough recent runs for overlapping agent work": the
\* snapshot of a run that has ended and had met no other is removed only when
\* at least as many runs as are kept have begun after it, whoever dies and
\* however many prune at once.
KeepsNewest ==
    [][\A r \in alone \ Working :
          Contains(recent, r) /\ ~Contains(recent', r)
              => \E i \in DOMAIN started : started[i] = r /\ i + keep =< Len(started)]_vars

=============================================================================
