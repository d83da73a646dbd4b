------------------------------- MODULE Delivery -------------------------------
(***************************************************************************)
(* The workers of control_plane/workers.py on the git worktree of the run  *)
(* (workspace.py), and the evidence and the release report they publish    *)
(* (evidence.py, summary.py), composed with the engine that schedules them *)
(* (Engine).  The workers of one wave interleave: each git command, each   *)
(* file written and each artifact published is a step; a git command that  *)
(* raises has done all of its work or none, and saving the run serializes  *)
(* and writes it in one step.  A revision is its position in git.commits,  *)
(* the base revision is 1.                                                 *)
(***************************************************************************)
EXTENDS EngineProps, Policy

CONSTANTS
    Files,          \* files of the workload repository
    Contents,       \* what they may contain, "none" for a file that is not there
    Base,           \* the tree the run starts from
    Capability,     \* Capability[t]: the worker of a task
    Seed,           \* Seed[t]: what an apply_seed task writes, in path order
    FallbackSeed,   \* FallbackSeed[t]: and after its fallback was taken
    Checks,         \* Checks[t]: the checks of a run_checks task, in order
    FallbackChecks, \* FallbackChecks[t]: and after its fallback was taken
    Optional,       \* checks with required: false
    Passes(_, _),   \* Passes(check, tree): does the check succeed on the tree
    MayTimeOut      \* checks that may be killed at their timeout

Trees == [Files -> Contents]

Writes == Seq([file : Files, content : Contents])

ASSUME WorkspaceAssumption ==
    /\ Base \in Trees
    /\ \A t \in Tasks : Capability[t] = "apply_seed" =>
          Seed[t] \in Writes /\ (t \in HasFallback => FallbackSeed[t] \in Writes)
    /\ \A t \in Tasks : Capability[t] = "run_checks" =>
          /\ Checks[t] \in Seq(STRING)
          /\ t \in HasFallback => FallbackChecks[t] \in Seq(STRING)

VARIABLES
    git,      \* the worktree, the index, the commits and the branch head
    rev,      \* current_revision of the run object the workers of a wave share
    saved,    \* and of the runs row
    art,      \* the artifacts: patches, change_set, evidence, release_report
    work,     \* how far the worker of each running task is; lost in a crash
    merged,   \* the revision merged into workload main, 0 for none
    allowed,  \* history: revisions whose diff policy did not deny
    refused   \* history: what attempts had written when policy denied them

dvars == <<git, rev, saved, art, work, merged, allowed, refused>>

NoWork == [n |-> 0, saw |-> 0, bad |-> FALSE, quiet |-> TRUE]
NoReport == [rev |-> 0, complete |-> FALSE]

DInit ==
    /\ Init
    /\ git = [tree |-> Base, index |-> Base, commits |-> <<Base>>, head |-> 1]
    /\ rev = 1
    /\ saved = 1
    /\ art = [proposed |-> Base, change |-> 0, evidence |-> {}, report |-> NoReport]
    /\ work = [t \in Tasks |-> NoWork]
    /\ merged = 0
    /\ allowed = {}
    /\ refused = {}

Runs(t, capability) ==
    /\ pc = "wave"
    /\ task[t].status = "RUNNING"
    /\ Capability[t] = capability

Step(t) == work' = [work EXCEPT ![t].n = @ + 1]
StepSeeing(t, r) == work' = [work EXCEPT ![t].n = @ + 1, ![t].saw = r]

HeadTree == git.commits[git.head]

-------------------------------------------------------------------------------
(* apply_seed: the files in path order, then the patch *)

SeedOf(t) == IF t \in HasFallback /\ ~task[t].fallback THEN FallbackSeed[t] ELSE Seed[t]

NextFile(t) == SeedOf(t)[work[t].n + 1]

Writing(t) == Runs(t, "apply_seed") /\ work[t].n < Len(SeedOf(t))

\* Faulty: a file that is there already is kept.
WriteNewFile(t) ==
    /\ Writing(t)
    /\ Enforced("workspace.write", NextFile(t).file, 0)
    /\ git' = IF git.tree[NextFile(t).file] = Base[NextFile(t).file]
              THEN [git EXCEPT !.tree[NextFile(t).file] = NextFile(t).content] ELSE git
    /\ Step(t)
    /\ UNCHANGED <<vars, rev, saved, art, merged, allowed, refused>>

WriteFile(t) ==
    /\ Writing(t)
    /\ Enforced("workspace.write", NextFile(t).file, 0)
    /\ git' = [git EXCEPT !.tree[NextFile(t).file] = NextFile(t).content]
    /\ Step(t)
    /\ UNCHANGED <<vars, rev, saved, art, merged, allowed, refused>>

\* The files written before the denied one stay in the worktree.
WriteDenied(t) ==
    /\ Writing(t)
    /\ ~Enforced("workspace.write", NextFile(t).file, 0)
    /\ TaskFails(t, "policy_denied")
    /\ refused' = refused \cup {SeedOf(t)[i] : i \in 1..work[t].n}
    /\ UNCHANGED <<git, rev, saved, art, work, merged, allowed>>

Latest(t, f) ==
    LET writes == {i \in DOMAIN SeedOf(t) : SeedOf(t)[i].file = f} IN
    IF writes = {} THEN art.proposed[f] ELSE SeedOf(t)[Max(writes)].content

PublishPatch(t) ==
    /\ Runs(t, "apply_seed")
    /\ work[t].n = Len(SeedOf(t))
    /\ art' = [art EXCEPT !.proposed = [f \in Files |-> Latest(t, f)]]
    /\ Step(t)
    /\ UNCHANGED <<vars, git, rev, saved, merged, allowed, refused>>

-------------------------------------------------------------------------------
(* integrate_change: add, status, commit, rev-parse, diff, policy, change_set *)

Integrates(t, n) == Runs(t, "integrate_change") /\ work[t].n = n

\* Faulty: git add -u, which leaves new files out.
StageTracked(t) ==
    /\ Integrates(t, 0)
    /\ git' = [git EXCEPT !.index = [f \in Files |->
                  IF HeadTree[f] = "none" THEN "none" ELSE git.tree[f]]]
    /\ Step(t)
    /\ UNCHANGED <<vars, rev, saved, art, merged, allowed, refused>>

Stage(t) ==
    /\ Integrates(t, 0)
    /\ git' = [git EXCEPT !.index = git.tree]
    /\ Step(t)
    /\ UNCHANGED <<vars, rev, saved, art, merged, allowed, refused>>

\* Faulty: there is nothing to integrate when the status is clean.
StatusCleanReturns(t) ==
    /\ Integrates(t, 1)
    /\ work' = [work EXCEPT ![t].n = IF {git.tree, git.index} = {HeadTree} THEN 8 ELSE 2]
    /\ UNCHANGED <<vars, git, rev, saved, art, merged, allowed, refused>>

\* A clean status skips the commit, and nothing else.
Status(t) ==
    /\ Integrates(t, 1)
    /\ work' = [work EXCEPT ![t].n = IF {git.tree, git.index} = {HeadTree} THEN 3 ELSE 2]
    /\ UNCHANGED <<vars, git, rev, saved, art, merged, allowed, refused>>

Commit(t) ==
    /\ Integrates(t, 2)
    /\ git.index # HeadTree
    /\ git' = [git EXCEPT !.commits = Append(git.commits, git.index),
                          !.head = Len(git.commits) + 1]
    /\ Step(t)
    /\ UNCHANGED <<vars, rev, saved, art, merged, allowed, refused>>

\* "nothing to commit": another worker committed since the status.
CommitFails(t) ==
    /\ Integrates(t, 2)
    /\ git.index = HeadTree
    /\ TaskFails(t, "deterministic")
    /\ UNCHANGED dvars

\* rev-parse, whoever made the commit; then the run object, which belongs to
\* all workers of the wave; then its row.
ReadHead(t) ==
    /\ Integrates(t, 3)
    /\ StepSeeing(t, git.head)
    /\ UNCHANGED <<vars, git, rev, saved, art, merged, allowed, refused>>

SetRevision(t) ==
    /\ Integrates(t, 4)
    /\ rev' = work[t].saw
    /\ Step(t)
    /\ UNCHANGED <<vars, git, saved, art, merged, allowed, refused>>

SaveRun(t) ==
    /\ Integrates(t, 5)
    /\ saved' = rev
    /\ StepSeeing(t, rev)
    /\ UNCHANGED <<vars, git, rev, art, merged, allowed, refused>>

Changed == Cardinality({f \in Files : HeadTree[f] # git.commits[1][f]})

\* Policy judges the diff that is committed already; a decision that asks for
\* an approval passes like an allowance.
DiffAllowed(t) ==
    /\ Integrates(t, 6)
    /\ Enforced("change.integrate", "branch", Changed)
    /\ allowed' = allowed \cup {git.head}
    /\ Step(t)
    /\ UNCHANGED <<vars, git, rev, saved, art, merged, refused>>

DiffDenied(t) ==
    /\ Integrates(t, 6)
    /\ ~Enforced("change.integrate", "branch", Changed)
    /\ TaskFails(t, "policy_denied")
    /\ UNCHANGED dvars

PublishChange(t) ==
    /\ Integrates(t, 7)
    /\ art' = [art EXCEPT !.change = work[t].saw]
    /\ Step(t)
    /\ UNCHANGED <<vars, git, rev, saved, merged, allowed, refused>>

-------------------------------------------------------------------------------
(* run_checks and security_scan: evidence *)

\* No repair is being written or integrated.
Quiescent == \A r \in RepairTasks \cup ReintegrateTasks :
                 task[r].status \in {"ABSENT", "SUCCEEDED"}

Evidence(check, passed, r, quiet) ==
    [check |-> check, passed |-> passed, rev |-> r, on |-> git.tree, quiet |-> quiet]

CheckList(t) == IF t \in HasFallback /\ ~task[t].fallback THEN FallbackChecks[t] ELSE Checks[t]

NextCheck(t) == CheckList(t)[work[t].n \div 2 + 1]

\* Even steps ask policy and read the revision, odd ones run the check and
\* publish.
TurnsTo(t) ==
    /\ Runs(t, "run_checks")
    /\ work[t].n < 2 * Len(CheckList(t))
    /\ work[t].n % 2 = 0

CheckDenied(t) ==
    /\ TurnsTo(t)
    /\ ~Enforced("command.run", NextCheck(t), 0)
    /\ TaskFails(t, "policy_denied")
    /\ UNCHANGED dvars

ReadRevision(t) ==
    /\ TurnsTo(t)
    /\ Enforced("command.run", NextCheck(t), 0)
    /\ work' = [work EXCEPT ![t] = [n |-> @.n + 1, saw |-> git.head, bad |-> @.bad,
                                    quiet |-> Quiescent]]
    /\ UNCHANGED <<vars, git, rev, saved, art, merged, allowed, refused>>

\* A check that is not required may fail.
RunCheck(t) ==
    LET check == NextCheck(t) IN
    /\ Runs(t, "run_checks")
    /\ work[t].n % 2 = 1
    /\ \E passed \in {Passes(check, git.tree)} \cup (IF check \in MayTimeOut THEN {FALSE} ELSE {}) :
          /\ art' = [art EXCEPT !.evidence =
                         art.evidence \cup {Evidence(check, passed, work[t].saw, work[t].quiet)}]
          /\ work' = [work EXCEPT ![t].n = @ + 1, ![t].bad = @ \/ (~passed /\ check \notin Optional)]
    /\ UNCHANGED <<vars, git, rev, saved, merged, allowed, refused>>

\* Any git command of an integrator or a checker may fail or hit its own timeout
\* (WorkspaceError).
GitFails(t) ==
    /\ \/ \E n \in {1, 2, 3, 6, 7} : Integrates(t, n)
       \/ TurnsTo(t)
    /\ TaskFails(t, "deterministic")
    /\ UNCHANGED dvars

\* The scan is filed under the revision the run has when it is over.
Scan(t) ==
    LET passed == Passes("security_scan", git.tree) IN
    /\ Runs(t, "security_scan")
    /\ work[t].n = 0
    /\ art' = [art EXCEPT !.evidence =
                   art.evidence \cup {Evidence("security_scan", passed, rev, Quiescent)}]
    /\ work' = [work EXCEPT ![t].n = 1, ![t].bad = ~passed]
    /\ UNCHANGED <<vars, git, rev, saved, merged, allowed, refused>>

-------------------------------------------------------------------------------
(* assemble_release, and the end of every worker *)

EvidenceComplete ==
    /\ art.evidence # {}
    /\ \A e \in art.evidence : e.passed /\ e.rev = rev

AssembleRelease(t) ==
    /\ Runs(t, "assemble_release")
    /\ work[t].n = 0
    /\ art' = [art EXCEPT !.report = [rev |-> rev, complete |-> EvidenceComplete]]
    /\ Step(t)
    /\ UNCHANGED <<vars, git, rev, saved, merged, allowed, refused>>

Steps(t) ==
    CASE Capability[t] = "apply_seed"       -> Len(SeedOf(t)) + 1
      [] Capability[t] = "integrate_change" -> 8
      [] Capability[t] = "run_checks"       -> 2 * Len(CheckList(t))
      [] Capability[t] \in {"security_scan", "assemble_release"} -> 1
      [] OTHER -> 0

\* Faulty: a failed check is evidence like any other.
WorkerReturnsAnyway(t) ==
    /\ work[t].n = Steps(t)
    /\ TaskSucceeds(t)
    /\ UNCHANGED dvars

WorkerReturns(t) ==
    /\ work[t].n = Steps(t)
    /\ ~work[t].bad
    /\ TaskSucceeds(t)
    /\ UNCHANGED dvars

ChecksFailed(t) ==
    /\ work[t].n = Steps(t)
    /\ work[t].bad
    /\ TaskFails(t, "deterministic")
    /\ UNCHANGED dvars

\* An injected or a provider's fault, or any other exception, before the worker
\* has done anything.
FailsAtOnce(t) ==
    /\ work[t].n = 0
    /\ TaskFails(t, "transient") \/ TaskFails(t, "deterministic")
    /\ UNCHANGED dvars

Worker(t) ==
    \/ WriteFile(t) \/ WriteDenied(t) \/ PublishPatch(t)
    \/ Stage(t) \/ Status(t) \/ Commit(t) \/ CommitFails(t)
    \/ ReadHead(t) \/ SetRevision(t) \/ SaveRun(t)
    \/ DiffAllowed(t) \/ DiffDenied(t) \/ PublishChange(t) \/ GitFails(t)
    \/ CheckDenied(t) \/ ReadRevision(t) \/ RunCheck(t) \/ Scan(t) \/ AssembleRelease(t)
    \/ WorkerReturns(t) \/ ChecksFailed(t) \/ FailsAtOnce(t)

-------------------------------------------------------------------------------
(* What the engine does to the workspace *)

BeginWork(t) ==
    /\ StartTask(t)
    /\ work' = [work EXCEPT ![t] = NoWork]
    /\ UNCHANGED <<git, rev, saved, art, merged, allowed, refused>>

RollsBack(t) ==
    /\ Failed(t, {"deterministic"})
    /\ ~CanRepair(t)
    /\ t \in RollbackOnFailure

AtBase == git.head = 1 /\ git.index = Base /\ git.tree = Base

\* A file that neither the index nor the base revision has is not git's.
Untracked(f) == git.index[f] = "none" /\ Base[f] = "none"

IsReset == git.head = 1 /\ git.index = Base /\ \A f \in Files : git.tree[f] = Base[f] \/ Untracked(f)

\* rollback(): git reset --hard leaves untracked files, git clean removes them,
\* and the revision is saved last.  Either command may raise (RollbackRaises).
ResetHard(t) ==
    /\ RollsBack(t)
    /\ ~IsReset
    /\ git' = [git EXCEPT !.head = 1, !.index = Base,
                          !.tree = [f \in Files |-> IF Untracked(f) THEN git.tree[f] ELSE Base[f]]]
    /\ UNCHANGED <<vars, rev, saved, art, work, merged, allowed, refused>>

CleanWorktree(t) ==
    /\ RollsBack(t)
    /\ IsReset
    /\ ~AtBase
    /\ git' = [git EXCEPT !.tree = Base]
    /\ UNCHANGED <<vars, rev, saved, art, work, merged, allowed, refused>>

SaveRollback(t) ==
    /\ RollsBack(t)
    /\ AtBase
    /\ {rev, saved} # {1}
    /\ rev' = 1
    /\ saved' = 1
    /\ UNCHANGED <<vars, git, art, work, merged, allowed, refused>>

\* Faulty: a run with nothing committed is not rolled back.
RollbackCommits(t) ==
    /\ Rollback(t)
    /\ git.head = 1
    /\ UNCHANGED dvars

FailRolledBack(t) ==
    /\ Rollback(t)
    /\ AtBase
    /\ {rev, saved} = {1}
    /\ UNCHANGED dvars

\* The merge takes the branch as it is.
MergeBranch ==
    /\ Promote
    /\ merged' = git.head
    /\ UNCHANGED <<git, rev, saved, art, work, allowed, refused>>

\* Whatever cut tick() short, the next one starts from the row of the run.
CrashWorkers ==
    /\ Crash
    /\ rev' = saved
    /\ work' = [t \in Tasks |-> NoWork]
    /\ UNCHANGED <<git, saved, art, merged, allowed, refused>>

RouteFailure(t) ==
    \/ Retry(t) \/ RetriesExhausted(t) \/ TakeFallback(t) \/ NoFallback(t)
    \/ SaveRepair(t) \/ SaveReintegrate(t) \/ RepairCollides(t) \/ Rewire(t) \/ NoRepair(t)

\* Steps of the engine and of the approver that leave the workspace alone.
Elsewhere ==
    \/ BeginTick \/ ConsumeApproved \/ ConsumeRefused \/ ClearGate
    \/ SavePromoted \/ SaveReviewReady \/ Proceed \/ Loop
    \/ WaveDone \/ CountRepair \/ FailuresHandled \/ SavePause \/ GatesDone
    \/ \E t \in Tasks : SaveBootstrapTask(t) \/ RecoverTask(t) \/ RouteFailure(t)
                            \/ ProcessGate(t)
    \/ Approver

DNext ==
    \/ Elsewhere /\ UNCHANGED dvars
    \/ \E t \in Tasks : BeginWork(t) \/ Worker(t)
                            \/ ResetHard(t) \/ CleanWorktree(t)
                            \/ SaveRollback(t) \/ FailRolledBack(t)
    \/ MergeBranch
    \/ CrashWorkers

DSpec == DInit /\ [][DNext]_<<vars, dvars>>

-------------------------------------------------------------------------------
(* What the delivery promises *)

Merged == git.commits[merged]

Checkers == {t \in PlanTasks : Capability[t] \in {"run_checks", "security_scan"}}

\* The checks without which t does not succeed.
RequiredOf(t) == IF Capability[t] = "security_scan" THEN {"security_scan"}
                 ELSE {CheckList(t)[i] : i \in DOMAIN CheckList(t)} \ Optional

\* The release comes last and writes the report, and something is integrated
\* before it; what the engine adds to a plan integrates nothing but a repair
\* (the plans of src/scenarios, start(), _handle_failures).
ReleaseDelivers ==
    /\ ReleaseIsLast
    /\ \A r \in ReleaseTasks : Capability[r] = "assemble_release"
    /\ \E t \in PlanTasks : Capability[t] = "integrate_change"
    /\ \A t \in Bootstrap \cup RepairTasks : Capability[t] # "integrate_change"

\* Of two integrators of the plan one waits for the other, and whatever is
\* repaired waits for all of them (the plans of src/scenarios).
IntegratorsInTurn ==
    \A t \in PlanTasks : Capability[t] = "integrate_change" =>
        /\ \A u \in PlanTasks :
              Capability[u] = "integrate_change" => t = u \/ Leads(t, u) \/ Leads(u, t)
        /\ \A u \in Repairable : t # u /\ Leads(t, u)

\* A check waits for every writer and integrator of the plan, and what anybody
\* writes somebody integrates afterwards (the same).
ChecksFollow ==
    /\ \A t \in Tasks : Capability[t] \in {"run_checks", "security_scan"} =>
          /\ t \in PlanTasks
          /\ \A u \in PlanTasks : Capability[u] \in {"apply_seed", "integrate_change"} => Leads(u, t)
    /\ \A t \in Tasks \ RepairTasks : Capability[t] = "apply_seed" =>
          /\ t \in PlanTasks
          /\ \E u \in PlanTasks : Capability[u] = "integrate_change" /\ Leads(t, u)
    /\ \A t \in ReintegrateTasks : Capability[t] = "integrate_change"

\* What a writer may be told to write.
SeedsOf(t) == {Seed[t]} \cup (IF t \in HasFallback THEN {FallbackSeed[t]} ELSE {})

Writers == {t \in Tasks : Capability[t] = "apply_seed"}

\* Of two tasks of the plan that write the same file one waits for the other,
\* repairs that write the same file write the same, a seed has each of its
\* files once, and only checks are repaired (the plans of src/scenarios,
\* sync_seed, _handle_failures).
WritersInTurn ==
    /\ Repairable \subseteq Checkers
    /\ \A t \in Writers : \A s \in SeedsOf(t) : \A i, j \in DOMAIN s : s[i].file = s[j].file => i = j
    /\ \A t, u \in Writers : \A s \in SeedsOf(t), r \in SeedsOf(u) :
          \A i \in DOMAIN s, j \in DOMAIN r :
              s[i].file = r[j].file =>
                  \/ t = u
                  \/ {t, u} \subseteq PlanTasks /\ (Leads(t, u) \/ Leads(u, t))
                  \/ {t, u} \subseteq RepairTasks /\ s[i] = r[j]
                  \/ t \in PlanTasks /\ u \in RepairTasks
                  \/ u \in PlanTasks /\ t \in RepairTasks

\* Workload main receives the very revision the approved release report names,
\* through every crash between a commit and its bookkeeping (workspace.commit,
\* assemble_release, promote merges the branch and not the revision).  Two
\* integrators with a writer beside them break it, when the slower one puts its
\* older revision into the run object last: no plan of src/scenarios has them.
MergedAsReported == merged # 0 => merged = art.report.rev

\* Every file of what is merged is what the last published patch says of it:
\* nothing of a proposal is lost on the way and nothing is merged that no
\* patch lists, but for what an attempt had written when policy denied it
\* (sync_seed, integrate_change, the fallback of _handle_failures).
MergedIsProposed ==
    merged # 0 => \A f \in Files :
        \/ Merged[f] = art.proposed[f]
        \/ [file |-> f, content |-> Merged[f]] \in refused

\* No revision reaches workload main whose diff policy has not let through,
\* although the commit comes first and may be another worker's or an earlier
\* process's (integrate_change: "then submit the integrated diff to policy").
PolicySawTheMerge == merged # 0 => merged \in allowed

\* Evidence describes the revision it is filed under: the tree that was checked
\* is the tree of that commit ("evidence bound to exact revision": run_check,
\* security_scan).  Nothing is said of evidence gathered while a repair is under
\* way, which writes into the same worktree, nor after tick() was cut short in a
\* rollback, by a death or by git, or among the rows of a repair.
CheckedAsCommitted ==
    \A e \in art.evidence :
        e.quiet => e.on = git.commits[e.rev] \/ DiedIn({"failures"} \cup RepairWindow)

\* Each required check of the plan has passed on the merged revision.
EvidenceOfTheMerge ==
    merged # 0 => \A t \in Checkers : \A check \in RequiredOf(t) :
        \E e \in art.evidence : e.check = check /\ e.passed /\ e.rev = merged

\* So it is in every run in which nothing had to be repaired.
FirstEvidenceCounts ==
    (\A n \in 1..MaxRepairs : task[Reintegrate[n]].status = "ABSENT") => EvidenceOfTheMerge

\* After a failed rollback task the branch, the worktree and the run's revision
\* are back at the base, unless tick() was cut short before the failure was
\* routed, by a death or by git raising in the rollback itself
\* (workspace.rollback, called from _handle_failures only).
RollbackSurvives ==
    (run.status = "failed" /\ \E t \in RollbackOnFailure : task[t].status = "FAILED")
        => DiedIn(RouteWindow) \/ (AtBase /\ rev = 1)

===============================================================================
