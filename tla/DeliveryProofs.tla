---------------------------- MODULE DeliveryProofs ----------------------------
(***************************************************************************)
(* What the engine promises it keeps with the workers of Delivery at work, *)
(* for every plan, seed, policy and check; a rollback that is reported has *)
(* happened; and what reaches workload main is what the report names, what *)
(* policy judged and, in a run without repairs, what the checks passed on. *)
(***************************************************************************)
EXTENDS Delivery, EngineOrderProofs

-------------------------------------------------------------------------------
(* Delivery implements Engine *)

LEMMA WorkerIsEngine ==
    ASSUME NEW t \in Tasks, Worker(t)
    PROVE  Next \/ UNCHANGED vars
<1>1. CASE WriteFile(t) \/ PublishPatch(t)
  BY <1>1 DEF WriteFile, PublishPatch
<1>2. CASE Stage(t) \/ Status(t) \/ Commit(t) \/ ReadHead(t) \/ SetRevision(t) \/ SaveRun(t)
             \/ DiffAllowed(t) \/ PublishChange(t)
  BY <1>2 DEF Stage, Status, Commit, ReadHead, SetRevision, SaveRun, DiffAllowed, PublishChange
<1>3. CASE ReadRevision(t) \/ RunCheck(t) \/ Scan(t) \/ AssembleRelease(t)
  BY <1>3 DEF ReadRevision, RunCheck, Scan, AssembleRelease
<1>4. CASE WorkerReturns(t)
  BY <1>4 DEF WorkerReturns, Next, Process, Execute
<1>5. ASSUME NEW class \in FailureClass, TaskFails(t, class)
      PROVE  Next
  BY <1>5 DEF Next, Process, Execute
<1>6. CASE WriteDenied(t) \/ CommitFails(t) \/ DiffDenied(t) \/ GitFails(t)
             \/ CheckDenied(t) \/ ChecksFailed(t) \/ FailsAtOnce(t)
  BY <1>5, <1>6 DEF WriteDenied, CommitFails, DiffDenied, GitFails, CheckDenied, ChecksFailed,
                    FailsAtOnce, FailureClass
<1> QED
  BY <1>1, <1>2, <1>3, <1>4, <1>6 DEF Worker

LEMMA ElsewhereIsEngine == Elsewhere => Next
BY DEF Elsewhere, RouteFailure, Next, Process, Resume, HandleFailure

LEMMA DeliveryStep ==
    ASSUME [DNext]_<<vars, dvars>>
    PROVE  [Next]_vars
<1>1. CASE Elsewhere
  BY <1>1, ElsewhereIsEngine
<1>2. ASSUME NEW t \in Tasks, BeginWork(t)
      PROVE  Next
  BY <1>2 DEF BeginWork, Next, Process, Execute
<1>3. ASSUME NEW t \in Tasks, Worker(t)
      PROVE  [Next]_vars
  BY <1>3, WorkerIsEngine
<1>4. ASSUME NEW t \in Tasks, ResetHard(t) \/ CleanWorktree(t) \/ SaveRollback(t)
      PROVE  UNCHANGED vars
  BY <1>4 DEF ResetHard, CleanWorktree, SaveRollback
<1>5. ASSUME NEW t \in Tasks, FailRolledBack(t)
      PROVE  Next
  BY <1>5 DEF FailRolledBack, Next, Process, HandleFailure
<1>6. CASE MergeBranch
  BY <1>6 DEF MergeBranch, Next, Process, Resume
<1>7. CASE CrashWorkers
  BY <1>7 DEF CrashWorkers, Next
<1>8. CASE UNCHANGED <<vars, dvars>>
  BY <1>8
<1> QED
  BY <1>1, <1>2, <1>3, <1>4, <1>5, <1>6, <1>7, <1>8 DEF DNext

\* The workers do nothing to the run that the engine's specification does not
\* allow of an execution.
THEOREM DeliveryIsEngine == DSpec => Spec
<1>1. DInit => Init
  BY DEF DInit
<1>2. [DNext]_<<vars, dvars>> => [Next]_vars
  BY DeliveryStep
<1> QED
  BY <1>1, <1>2, PTL DEF DSpec, Spec

\* Whatever the workers do to the worktree, nothing reaches workload main
\* without an approved and complete release.
THEOREM DeliveryAuthorised == DSpec => []MainlineAuthority
BY DeliveryIsEngine, MainlineAuthorised, PTL

-------------------------------------------------------------------------------
(* Rollback *)

\* What a step may do to the worktree and the run of a run that has ended.
LEMMA EndedMoves ==
    ASSUME TypeInv, PlacesInv, DNext, run.status \in Terminal
    PROVE  UNCHANGED <<git, saved>> /\ rev' \in {rev, saved}
<1>1. pc = "idle"
  BY DEF PlacesInv
<1>2. CASE Elsewhere /\ UNCHANGED dvars
  BY <1>2 DEF dvars
<1>3. ASSUME NEW t \in Tasks, BeginWork(t) \/ FailRolledBack(t)
      PROVE  UNCHANGED <<git, rev, saved>>
  BY <1>3 DEF BeginWork, FailRolledBack, dvars
<1>4. ASSUME NEW t \in Tasks, Worker(t)
      PROVE  FALSE
  BY <1>1, <1>4
     DEF Worker, WriteFile, WriteDenied, Writing, PublishPatch, Stage, Status, Commit,
         CommitFails, ReadHead, SetRevision, SaveRun, DiffAllowed, DiffDenied, PublishChange,
         GitFails, Integrates, TurnsTo, CheckDenied, ReadRevision, RunCheck, Scan,
         AssembleRelease, Runs, WorkerReturns, TaskSucceeds, ChecksFailed, FailsAtOnce, TaskFails
<1>5. ASSUME NEW t \in Tasks, ResetHard(t) \/ CleanWorktree(t) \/ SaveRollback(t)
      PROVE  FALSE
  BY <1>1, <1>5 DEF ResetHard, CleanWorktree, SaveRollback, RollsBack, Failed
<1>6. CASE MergeBranch \/ CrashWorkers
  BY <1>6 DEF MergeBranch, CrashWorkers
<1> QED
  BY <1>2, <1>3, <1>4, <1>5, <1>6 DEF DNext

\* The two ways in which a run becomes failed.
LEMMA FailMoves ==
    ASSUME TypeInv, DNext, run.status \notin Terminal, run'.status = "failed"
    PROVE  Blocked \/ \E t \in Tasks : FailRolledBack(t)
<1> USE DEF Goto, Stop, Terminal
<1>0. run \in RunRow
  BY DEF TypeInv, TypeOK, RunRow
<1> USE <1>0 DEF RunRow
<1>1. CASE BeginTick \/ ConsumeApproved \/ ConsumeRefused \/ ClearGate
             \/ SavePromoted \/ SaveReviewReady \/ Proceed
  BY <1>1 DEF BeginTick, ConsumeApproved, ConsumeRefused, ClearGate,
              SavePromoted, SaveReviewReady, Proceed
<1>2. CASE Loop
  BY <1>2 DEF Loop, NextWave, WithinBudget, WavesExhausted, TimeExhausted,
              MaterializeRaises, Schedule, Finalize, Scheduling
<1>3. CASE WaveDone \/ CountRepair \/ FailuresHandled \/ SavePause \/ GatesDone
  BY <1>3 DEF WaveDone, CountRepair, FailuresHandled, SavePause, GatesDone
<1>4. ASSUME NEW t \in Tasks,
             SaveBootstrapTask(t) \/ RecoverTask(t) \/ RouteFailure(t) \/ ProcessGate(t)
      PROVE  FALSE
  <2>1. CASE SaveBootstrapTask(t) \/ RecoverTask(t) \/ ProcessGate(t)
    BY <2>1 DEF SaveBootstrapTask, RecoverTask, ProcessGate, GateAllowed, RequestApproval,
                GateDenied
  <2>2. CASE RouteFailure(t)
    BY <2>2 DEF RouteFailure, Retry, RetriesExhausted, TakeFallback, NoFallback, SaveRepair,
                SaveReintegrate, RepairCollides, Rewire, NoRepair
  <2> QED
    BY <1>4, <2>1, <2>2
<1>5. CASE Approver
  BY <1>5 DEF Approver, Resolve
<1>6. CASE Elsewhere
  BY <1>1, <1>2, <1>3, <1>4, <1>5, <1>6 DEF Elsewhere
<1>7. ASSUME NEW t \in Tasks, BeginWork(t)
      PROVE  FALSE
  BY <1>7 DEF BeginWork, StartTask
<1>8. ASSUME NEW t \in Tasks, Worker(t)
      PROVE  FALSE
  BY <1>8
     DEF Worker, WriteFile, WriteDenied, PublishPatch, Stage, Status, Commit, CommitFails,
         ReadHead, SetRevision, SaveRun, DiffAllowed, DiffDenied, PublishChange, GitFails,
         CheckDenied, ReadRevision, RunCheck, Scan, AssembleRelease, WorkerReturns, TaskSucceeds, ChecksFailed,
         FailsAtOnce, TaskFails, vars
<1>9. ASSUME NEW t \in Tasks, ResetHard(t) \/ CleanWorktree(t) \/ SaveRollback(t)
      PROVE  FALSE
  BY <1>9 DEF ResetHard, CleanWorktree, SaveRollback, vars
<1>10. CASE MergeBranch \/ CrashWorkers
  BY <1>10 DEF MergeBranch, Promote, CrashWorkers, Crash, durable
<1> QED
  BY <1>6, <1>7, <1>8, <1>9, <1>10 DEF DNext

LEMMA DeathsStay ==
    ASSUME TypeInv, [DNext]_<<vars, dvars>>, NEW W, DiedIn(W)
    PROVE  DiedIn(W)'
<1>1. [Next]_vars
  BY DeliveryStep
<1> QED
  BY <1>1, DeathsRecorded DEF DiedIn, vars

\* A crash gives the run object the revision of the row.
RolledBackAndSaved ==
    (run.status = "failed" /\ \E t \in RollbackOnFailure : task[t].status = "FAILED")
        => DiedIn(RouteWindow) \/ (AtBase /\ rev = 1 /\ saved = 1)

LEMMA RollbackStep ==
    ASSUME OrderInv, RolledBackAndSaved, [DNext]_<<vars, dvars>>
    PROVE  RolledBackAndSaved'
<1> SUFFICES ASSUME run'.status = "failed",
                    NEW t \in RollbackOnFailure, task'[t].status = "FAILED",
                    ~DiedIn(RouteWindow)'
             PROVE  AtBase' /\ rev' = 1 /\ saved' = 1
  BY DEF RolledBackAndSaved
<1>0. TypeInv /\ PlacesInv /\ FailuresRouted /\ t \in Tasks /\ ~DiedIn(RouteWindow)
  BY DeathsStay, PlanAssumption DEF OrderInv, SafeInv, Tasks
<1>1. CASE run.status \in Terminal
  <2>1. UNCHANGED <<run, task, git, saved>> /\ rev' \in {rev, saved}
    BY <1>0, <1>1, DeliveryStep, TerminalStays, EndedMoves DEF vars, dvars
  <2> QED
    BY <1>0, <2>1 DEF RolledBackAndSaved, AtBase
<1>2. CASE run.status \notin Terminal
  <2>1. DNext
    BY <1>2 DEF vars, Terminal
  <2>2. CASE Blocked
    <3>1. pc = "recover" /\ task' = Materialized
      BY <2>2 DEF Blocked, Scheduling
    <3>2. task[t].status = "FAILED"
      BY <1>0, <3>1 DEF Materialized, NewTask
    <3> QED
      BY <1>0, <1>2, <3>1, <3>2 DEF FailuresRouted, FailedTasks, RouteWindow, RepairWindow
  <2>3. ASSUME NEW u \in Tasks, FailRolledBack(u)
        PROVE  AtBase' /\ rev' = 1 /\ saved' = 1
    BY <2>3 DEF FailRolledBack, dvars, AtBase
  <2> QED
    BY <1>0, <1>2, <2>1, <2>2, <2>3, FailMoves
<1> QED
  BY <1>1, <1>2

\* A run that failed on a task to be rolled back is back at its base, whatever
\* the workers had written or committed, unless tick() was cut short before the
\* failure was routed: by a death, or by a git command of the rollback itself.
THEOREM RollbackRestores == DSpec => []RollbackSurvives
<1>1. DInit => RolledBackAndSaved
  BY DEF DInit, Init, RolledBackAndSaved
<1>2. OrderInv /\ RolledBackAndSaved /\ [DNext]_<<vars, dvars>> => RolledBackAndSaved'
  BY RollbackStep
<1>3. RolledBackAndSaved => RollbackSurvives
  BY DEF RolledBackAndSaved, RollbackSurvives
<1> QED
  BY <1>1, <1>2, <1>3, DeliveryIsEngine, AlwaysInOrder, PTL DEF DSpec

-------------------------------------------------------------------------------
(* The records of the workspace *)

GitRow == [tree : Trees, index : Trees, commits : Seq(Trees), head : Nat]
WorkRow == [n : Nat, saw : Nat, bad : BOOLEAN, quiet : BOOLEAN]

\* The branch head is a commit and the first commit is the base, every worker
\* has its place, and the artifacts are of their four kinds.
WorkspaceOK ==
    /\ git \in GitRow
    /\ git.head \in DOMAIN git.commits
    /\ git.commits[1] = Base
    /\ rev \in Nat /\ saved \in Nat
    /\ work \in [Tasks -> WorkRow]
    /\ art = [proposed |-> art.proposed, change |-> art.change, evidence |-> art.evidence,
              report |-> art.report]

LEMMA StepOne ==
    ASSUME work \in [Tasks -> WorkRow], NEW t \in Tasks, Step(t)
    PROVE  /\ work' \in [Tasks -> WorkRow]
           /\ work'[t].n = work[t].n + 1
           /\ \A u \in Tasks \ {t} : work'[u] = work[u]
BY DEF Step, WorkRow

\* What an update of two fields makes of a row.
SeenRow(new, n, saw) == new \in WorkRow /\ new.n = n /\ new.saw = saw

JudgedRow(new, row, n, bad) ==
    /\ new \in WorkRow /\ new.n = n /\ new.bad = bad
    /\ new.saw = row.saw /\ new.quiet = row.quiet

MovedRow(new, g, cs, h) ==
    /\ new \in GitRow /\ new.commits = cs /\ new.head = h
    /\ new.tree = g.tree /\ new.index = g.index

LEMMA RowSeen ==
    ASSUME NEW row \in WorkRow, NEW n \in Nat, NEW saw \in Nat,
           NEW new, new = [row EXCEPT !.n = n, !.saw = saw]
    PROVE  SeenRow(new, n, saw)
BY DEF WorkRow, SeenRow

LEMMA RowJudged ==
    ASSUME NEW row \in WorkRow, NEW n \in Nat, NEW bad \in BOOLEAN,
           NEW new, new = [row EXCEPT !.n = n, !.bad = bad]
    PROVE  JudgedRow(new, row, n, bad)
BY DEF WorkRow, JudgedRow

LEMMA HeadMoved ==
    ASSUME NEW g \in GitRow, NEW cs \in Seq(Trees), NEW h \in Nat,
           NEW new, new = [g EXCEPT !.commits = cs, !.head = h]
    PROVE  MovedRow(new, g, cs, h)
BY DEF GitRow, MovedRow

LEMMA RowSet ==
    ASSUME work \in [Tasks -> WorkRow], NEW t \in Tasks, NEW row \in WorkRow,
           work' = [work EXCEPT ![t] = row]
    PROVE  /\ work' \in [Tasks -> WorkRow] /\ work'[t] = row
           /\ \A u \in Tasks \ {t} : work'[u] = work[u]
<1> HIDE DEF WorkRow
<1> QED
  OBVIOUS

LEMMA PlaceType ==
    ASSUME work \in [Tasks -> WorkRow], NEW t \in Tasks
    PROVE  /\ work[t] \in WorkRow /\ work[t].n \in Nat /\ work[t].saw \in Nat
           /\ work[t].bad \in BOOLEAN /\ work[t].quiet \in BOOLEAN
<1>1. work[t] \in WorkRow
  <2> HIDE DEF WorkRow
  <2> QED
    OBVIOUS
<1> QED
  BY <1>1 DEF WorkRow

LEMMA StepSeeingOne ==
    ASSUME work \in [Tasks -> WorkRow], NEW t \in Tasks, NEW r \in Nat, StepSeeing(t, r)
    PROVE  /\ work' \in [Tasks -> WorkRow]
           /\ work'[t].n = work[t].n + 1 /\ work'[t].saw = r
           /\ \A u \in Tasks \ {t} : work'[u] = work[u]
<1> DEFINE n == work[t].n + 1
           row == [work[t] EXCEPT !.n = n, !.saw = r]
<1>1. work' = [work EXCEPT ![t] = row]
  BY DEF StepSeeing
<1>2. work[t] \in WorkRow /\ n \in Nat
  BY PlaceType
<1>3. row \in WorkRow /\ row.n = n /\ row.saw = r
  <2> HIDE DEF n
  <2>1. SeenRow(row, n, r)
    BY <1>2, RowSeen, Zenon
  <2> HIDE DEF row
  <2> QED
    BY <2>1 DEF SeenRow
<1> HIDE DEF row
<1> QED
  BY <1>1, <1>3, RowSet

\* The place of a worker after a check.
LEMMA JudgedOne ==
    ASSUME work \in [Tasks -> WorkRow], NEW t \in Tasks, NEW n \in Nat, NEW bad \in BOOLEAN,
           work' = [work EXCEPT ![t].n = n, ![t].bad = bad]
    PROVE  /\ work' \in [Tasks -> WorkRow]
           /\ work'[t].n = n /\ work'[t].bad = bad
           /\ work'[t].saw = work[t].saw /\ work'[t].quiet = work[t].quiet
           /\ \A u \in Tasks \ {t} : work'[u] = work[u]
<1> DEFINE row == [work[t] EXCEPT !.n = n, !.bad = bad]
<1>1. work' = [work EXCEPT ![t] = row]
  OBVIOUS
<1>2. work[t] \in WorkRow
  BY PlaceType
<1>3. /\ row \in WorkRow /\ row.n = n /\ row.bad = bad
      /\ row.saw = work[t].saw /\ row.quiet = work[t].quiet
  <2>1. JudgedRow(row, work[t], n, bad)
    BY <1>2, RowJudged, Zenon
  <2> HIDE DEF row
  <2> QED
    BY <2>1 DEF JudgedRow
<1> HIDE DEF row
<1> QED
  BY <1>1, <1>3, RowSet

LEMMA SeedType ==
    ASSUME NEW t \in Tasks, Capability[t] = "apply_seed"
    PROVE  SeedOf(t) \in Writes
<1>1. Seed[t] \in Writes /\ (t \in HasFallback => FallbackSeed[t] \in Writes)
  BY WorkspaceAssumption
<1> HIDE DEF Writes
<1>2. CASE t \in HasFallback /\ ~task[t].fallback
  BY <1>1, <1>2 DEF SeedOf
<1>3. CASE ~(t \in HasFallback /\ ~task[t].fallback)
  BY <1>1, <1>3 DEF SeedOf
<1> QED
  BY <1>2, <1>3

\* A worker only works in a wave, on a task that runs, and minds its own place.
LEMMA WorkerPlace ==
    ASSUME NEW t \in Tasks, Worker(t)
    PROVE  pc = "wave" /\ task[t].status = "RUNNING"
BY DEF Worker, WriteFile, WriteDenied, Writing, PublishPatch, Stage, Status, Commit,
       CommitFails, ReadHead, SetRevision, SaveRun, DiffAllowed, DiffDenied, PublishChange,
       GitFails, Integrates, TurnsTo, CheckDenied, ReadRevision, RunCheck, Scan,
       AssembleRelease, Runs, WorkerReturns, TaskSucceeds, ChecksFailed, FailsAtOnce, TaskFails

\* The two ways in which a worker ends.
LEMMA WorkerEnds ==
    ASSUME NEW t \in Tasks, Worker(t)
    PROVE  \/ UNCHANGED vars
           \/ /\ \E class \in FailureClass : TaskFails(t, class)
              /\ UNCHANGED <<git, rev, saved, art, work, merged, allowed>>
           \/ WorkerReturns(t)
<1>1. CASE WriteFile(t) \/ PublishPatch(t) \/ Stage(t) \/ Status(t) \/ Commit(t)
             \/ ReadHead(t) \/ SetRevision(t) \/ SaveRun(t) \/ DiffAllowed(t) \/ PublishChange(t)
             \/ ReadRevision(t) \/ RunCheck(t) \/ Scan(t) \/ AssembleRelease(t)
  BY <1>1 DEF WriteFile, PublishPatch, Stage, Status, Commit, ReadHead, SetRevision, SaveRun,
              DiffAllowed, PublishChange, ReadRevision, RunCheck, Scan, AssembleRelease
<1>2. CASE WriteDenied(t) \/ CommitFails(t) \/ DiffDenied(t) \/ GitFails(t)
             \/ CheckDenied(t) \/ ChecksFailed(t) \/ FailsAtOnce(t)
  BY <1>2 DEF WriteDenied, CommitFails, DiffDenied, GitFails, CheckDenied, ChecksFailed,
              FailsAtOnce, dvars, FailureClass
<1> QED
  BY <1>1, <1>2 DEF Worker

LEMMA WriteKeeps ==
    ASSUME WorkspaceOK, NEW t \in Tasks, WriteFile(t)
    PROVE  /\ WorkspaceOK' /\ git'.head = git.head /\ git'.commits = git.commits
           /\ git'.index = git.index
<1>1. /\ Capability[t] = "apply_seed" /\ work[t].n < Len(SeedOf(t))
      /\ git' = [git EXCEPT !.tree[NextFile(t).file] = NextFile(t).content]
      /\ Step(t) /\ UNCHANGED <<rev, saved, art>>
  BY DEF WriteFile, Writing, Runs
<1>2. NextFile(t) \in [file : Files, content : Contents]
  <2>1. SeedOf(t) \in Writes /\ work[t].n \in Nat
    BY <1>1, SeedType DEF WorkspaceOK, WorkRow
  <2> DEFINE row == [file : Files, content : Contents]
             s == SeedOf(t)
  <2>2. s \in Seq(row) /\ work[t].n \in Nat /\ work[t].n < Len(s)
    BY <1>1, <2>1 DEF Writes
  <2> HIDE DEF row, s
  <2>3. s[work[t].n + 1] \in row
    BY <2>2
  <2> QED
    BY <2>3 DEF NextFile, row, s
<1>3. NextFile(t).file \in Files /\ NextFile(t).content \in Contents
  BY <1>2
<1>4. /\ git' \in GitRow /\ git'.head = git.head /\ git'.commits = git.commits
      /\ git'.index = git.index
  BY <1>1, <1>3 DEF WorkspaceOK, GitRow, Trees
<1> QED
  BY <1>1, <1>4, StepOne DEF WorkspaceOK

LEMMA CommitAppends ==
    ASSUME WorkspaceOK, NEW t \in Tasks, Commit(t)
    PROVE  /\ WorkspaceOK' /\ git'.head = Len(git.commits) + 1
           /\ git'.tree = git.tree /\ git'.index = git.index
           /\ git'.commits[git'.head] = git.index
           /\ \A i \in DOMAIN git.commits : i \in DOMAIN git'.commits
                                             /\ git'.commits[i] = git.commits[i]
<1>1. /\ git' = [git EXCEPT !.commits = Append(git.commits, git.index),
                            !.head = Len(git.commits) + 1]
      /\ Step(t) /\ UNCHANGED <<rev, saved, art>>
  BY DEF Commit
<1>2. git.commits \in Seq(Trees) /\ git.index \in Trees /\ 1 \in DOMAIN git.commits
  BY DEF WorkspaceOK, GitRow
<1>3. /\ git'.commits = Append(git.commits, git.index)
      /\ git'.head = Len(git.commits) + 1 /\ git' \in GitRow
      /\ git'.tree = git.tree /\ git'.index = git.index
  <2> DEFINE cs == Append(git.commits, git.index)
             h  == Len(git.commits) + 1
  <2>1. cs \in Seq(Trees) /\ h \in Nat /\ git \in GitRow
    BY <1>2 DEF WorkspaceOK
  <2>2. git' = [git EXCEPT !.commits = cs, !.head = h]
    BY <1>1
  <2> HIDE DEF cs, h
  <2>3. MovedRow(git', git, cs, h)
    BY <2>1, <2>2, HeadMoved, Zenon
  <2> QED
    BY <2>3 DEF cs, h, MovedRow
<1>4. /\ Len(git.commits) + 1 \in DOMAIN git'.commits
      /\ git'.commits[Len(git.commits) + 1] = git.index
      /\ \A i \in DOMAIN git.commits : i \in DOMAIN git'.commits
                                        /\ git'.commits[i] = git.commits[i]
  BY <1>2, <1>3
<1> QED
  BY <1>1, <1>2, <1>3, <1>4, StepOne DEF WorkspaceOK

LEMMA KeptWorkspace ==
    ASSUME WorkspaceOK, UNCHANGED <<git, rev, saved, art, work>>
    PROVE  WorkspaceOK'
BY DEF WorkspaceOK

LEMMA ArtRow ==
    ASSUME WorkspaceOK, NEW x,
           \/ art' = [art EXCEPT !.proposed = x]
           \/ art' = [art EXCEPT !.change = x]
           \/ art' = [art EXCEPT !.evidence = x]
           \/ art' = [art EXCEPT !.report = x]
    PROVE  art' = [proposed |-> art'.proposed, change |-> art'.change,
                   evidence |-> art'.evidence, report |-> art'.report]
BY DEF WorkspaceOK

\* What an integrator does next depends on how far it is.
LEMMA IntegratorStep ==
    ASSUME WorkspaceOK, NEW t \in Tasks, Capability[t] = "integrate_change", Worker(t)
    PROVE  \/ UNCHANGED dvars /\ WorkerReturns(t) /\ work[t].n = 8
           \/ /\ UNCHANGED dvars /\ work[t].n \notin {4, 5}
              /\ \E class \in FailureClass : TaskFails(t, class)
           \/ UNCHANGED vars /\ Stage(t) /\ work[t].n = 0
           \/ UNCHANGED vars /\ Status(t) /\ work[t].n = 1
           \/ UNCHANGED vars /\ Commit(t) /\ work[t].n = 2
           \/ UNCHANGED vars /\ ReadHead(t) /\ work[t].n = 3
           \/ UNCHANGED vars /\ SetRevision(t) /\ work[t].n = 4
           \/ UNCHANGED vars /\ SaveRun(t) /\ work[t].n = 5
           \/ UNCHANGED vars /\ DiffAllowed(t) /\ work[t].n = 6
           \/ UNCHANGED vars /\ PublishChange(t) /\ work[t].n = 7
<1>1. ~(WriteFile(t) \/ WriteDenied(t) \/ PublishPatch(t) \/ CheckDenied(t) \/ ReadRevision(t)
         \/ RunCheck(t) \/ Scan(t) \/ AssembleRelease(t))
  BY DEF WriteFile, WriteDenied, Writing, PublishPatch, TurnsTo, CheckDenied, ReadRevision,
         RunCheck, Scan, AssembleRelease, Runs
<1>2. CASE Stage(t) \/ Status(t) \/ Commit(t) \/ ReadHead(t) \/ SetRevision(t) \/ SaveRun(t)
             \/ DiffAllowed(t) \/ PublishChange(t)
  BY <1>2 DEF Stage, Status, Commit, ReadHead, SetRevision, SaveRun, DiffAllowed, PublishChange,
              Integrates
<1>3. CASE CommitFails(t) \/ DiffDenied(t) \/ GitFails(t) \/ ChecksFailed(t) \/ FailsAtOnce(t)
  <2>1. UNCHANGED dvars /\ \E class \in FailureClass : TaskFails(t, class)
    BY <1>3 DEF CommitFails, DiffDenied, GitFails, ChecksFailed, FailsAtOnce, FailureClass
  <2>2. work[t].n \notin {4, 5}
    BY <1>3 DEF CommitFails, DiffDenied, GitFails, ChecksFailed, FailsAtOnce, Integrates,
                TurnsTo, Runs, Steps
  <2> QED
    BY <2>1, <2>2
<1>4. CASE WorkerReturns(t)
  BY <1>4 DEF WorkerReturns, Steps
<1> QED
  BY <1>1, <1>2, <1>3, <1>4 DEF Worker

LEMMA StageIndexes ==
    ASSUME WorkspaceOK, NEW t \in Tasks, Stage(t)
    PROVE  /\ WorkspaceOK' /\ git'.head = git.head /\ git'.commits = git.commits
           /\ git'.tree = git.tree /\ git'.index = git.tree
           /\ work'[t].n = work[t].n + 1 /\ \A u \in Tasks \ {t} : work'[u] = work[u]
<1>1. /\ git' = [git EXCEPT !.index = git.tree] /\ Step(t) /\ UNCHANGED <<rev, saved, art>>
  BY DEF Stage
<1>2. /\ git' \in GitRow /\ git'.head = git.head /\ git'.commits = git.commits
      /\ git'.tree = git.tree /\ git'.index = git.tree
  BY <1>1 DEF WorkspaceOK, GitRow
<1> QED
  BY <1>1, <1>2, StepOne DEF WorkspaceOK

LEMMA StatusMoves ==
    ASSUME WorkspaceOK, NEW t \in Tasks, Status(t)
    PROVE  /\ WorkspaceOK' /\ UNCHANGED <<git, rev, saved, art>>
           /\ work'[t].n = IF git.tree = HeadTree /\ git.index = HeadTree THEN 3 ELSE 2
           /\ \A u \in Tasks \ {t} : work'[u] = work[u]
<1> DEFINE n == IF git.tree = HeadTree /\ git.index = HeadTree THEN 3 ELSE 2
<1>1. work' = [work EXCEPT ![t].n = n] /\ UNCHANGED <<git, rev, saved, art>>
  <2>1. {git.tree, git.index} = {HeadTree} <=> git.tree = HeadTree /\ git.index = HeadTree
    OBVIOUS
  <2> QED
    BY <2>1 DEF Status
<1>2. n \in Nat
  OBVIOUS
<1>3. /\ work' \in [Tasks -> WorkRow] /\ work'[t].n = n
      /\ \A u \in Tasks \ {t} : work'[u] = work[u]
  <2> HIDE DEF n
  <2> QED
    BY <1>1, <1>2 DEF WorkspaceOK, WorkRow
<1> QED
  BY <1>1, <1>3 DEF WorkspaceOK

LEMMA HeadRead ==
    ASSUME WorkspaceOK, NEW t \in Tasks, ReadHead(t)
    PROVE  /\ WorkspaceOK' /\ UNCHANGED <<git, rev, saved, art>>
           /\ work'[t].n = work[t].n + 1 /\ work'[t].saw = git.head
           /\ \A u \in Tasks \ {t} : work'[u] = work[u]
<1>1. UNCHANGED <<git, rev, saved, art>> /\ StepSeeing(t, git.head)
  BY DEF ReadHead
<1>2. git.head \in Nat
  BY DEF WorkspaceOK, GitRow
<1> QED
  BY <1>1, <1>2, StepSeeingOne DEF WorkspaceOK

LEMMA RevisionSet ==
    ASSUME WorkspaceOK, NEW t \in Tasks, SetRevision(t)
    PROVE  /\ WorkspaceOK' /\ UNCHANGED <<git, saved, art>> /\ rev' = work[t].saw
           /\ work'[t].n = work[t].n + 1 /\ \A u \in Tasks \ {t} : work'[u] = work[u]
<1>1. UNCHANGED <<git, saved, art>> /\ rev' = work[t].saw /\ Step(t)
  BY DEF SetRevision
<1>2. work[t].saw \in Nat
  BY PlaceType DEF WorkspaceOK
<1> QED
  BY <1>1, <1>2, StepOne DEF WorkspaceOK

LEMMA RunSaved ==
    ASSUME WorkspaceOK, NEW t \in Tasks, SaveRun(t)
    PROVE  /\ WorkspaceOK' /\ UNCHANGED <<git, rev, art>> /\ saved' = rev
           /\ work'[t].n = work[t].n + 1 /\ \A u \in Tasks \ {t} : work'[u] = work[u]
<1>1. UNCHANGED <<git, rev, art>> /\ saved' = rev /\ StepSeeing(t, rev)
  BY DEF SaveRun
<1> QED
  BY <1>1, StepSeeingOne DEF WorkspaceOK

LEMMA StepPublishes ==
    ASSUME WorkspaceOK, NEW t \in Tasks,
           DiffAllowed(t) \/ PublishPatch(t) \/ PublishChange(t) \/ AssembleRelease(t)
    PROVE  /\ WorkspaceOK' /\ UNCHANGED <<git, rev, saved>>
           /\ work'[t].n = work[t].n + 1 /\ \A u \in Tasks \ {t} : work'[u] = work[u]
           /\ art'.evidence = art.evidence
           /\ ~AssembleRelease(t) => art'.report = art.report
           /\ AssembleRelease(t) => art'.report.rev = rev
<1>1. Step(t) /\ UNCHANGED <<git, rev, saved>>
  BY DEF DiffAllowed, PublishPatch, PublishChange, AssembleRelease
<1>2. CASE DiffAllowed(t)
  BY <1>1, <1>2, StepOne DEF DiffAllowed, WorkspaceOK, AssembleRelease, Integrates, Runs
<1>3. CASE PublishPatch(t)
  <2> DEFINE x == [f \in Files |-> Latest(t, f)]
  <2>1. art' = [art EXCEPT !.proposed = x] /\ ~AssembleRelease(t)
    BY <1>3 DEF PublishPatch, AssembleRelease, Runs
  <2> HIDE DEF x
  <2>2. art'.evidence = art.evidence /\ art'.report = art.report
    BY <2>1 DEF WorkspaceOK
  <2> QED
    BY <1>1, <2>1, <2>2, StepOne, ArtRow DEF WorkspaceOK
<1>4. CASE PublishChange(t)
  <2> DEFINE x == work[t].saw
  <2>1. art' = [art EXCEPT !.change = x] /\ ~AssembleRelease(t)
    BY <1>4 DEF PublishChange, AssembleRelease, Integrates, Runs
  <2> HIDE DEF x
  <2>2. art'.evidence = art.evidence /\ art'.report = art.report
    BY <2>1 DEF WorkspaceOK
  <2> QED
    BY <1>1, <2>1, <2>2, StepOne, ArtRow DEF WorkspaceOK
<1>5. CASE AssembleRelease(t)
  <2> DEFINE x == [rev |-> rev, complete |-> EvidenceComplete]
  <2>1. art' = [art EXCEPT !.report = x] /\ x.rev = rev
    BY <1>5 DEF AssembleRelease
  <2> HIDE DEF x
  <2>2. art'.evidence = art.evidence /\ art'.report = x
    BY <2>1 DEF WorkspaceOK
  <2> QED
    BY <1>1, <1>5, <2>1, <2>2, StepOne, ArtRow DEF WorkspaceOK
<1> QED
  BY <1>2, <1>3, <1>4, <1>5

LEMMA RevisionRead ==
    ASSUME WorkspaceOK, NEW t \in Tasks, ReadRevision(t)
    PROVE  /\ WorkspaceOK' /\ UNCHANGED <<git, rev, saved, art>>
           /\ work'[t].n = work[t].n + 1 /\ work'[t].saw = git.head
           /\ work'[t].bad = work[t].bad /\ work'[t].quiet = Quiescent
           /\ \A u \in Tasks \ {t} : work'[u] = work[u]
<1> DEFINE row == [n |-> work[t].n + 1, saw |-> git.head, bad |-> work[t].bad,
                   quiet |-> Quiescent]
<1>1. work' = [work EXCEPT ![t] = row] /\ UNCHANGED <<git, rev, saved, art>>
  BY DEF ReadRevision
<1>2. work[t].n + 1 \in Nat /\ git.head \in Nat /\ work[t].bad \in BOOLEAN
  BY PlaceType DEF WorkspaceOK, GitRow
<1>3. Quiescent \in BOOLEAN
  BY DEF Quiescent
<1>4. /\ row \in WorkRow /\ row.n = work[t].n + 1 /\ row.saw = git.head
      /\ row.bad = work[t].bad /\ row.quiet = Quiescent
  BY <1>2, <1>3 DEF WorkRow
<1> HIDE DEF row
<1> QED
  BY <1>1, <1>4, RowSet DEF WorkspaceOK

\* A check, and a scan, publish what they saw of the tree.
LEMMA CheckPublishes ==
    ASSUME WorkspaceOK, NEW t \in Tasks, RunCheck(t)
    PROVE  /\ WorkspaceOK' /\ UNCHANGED <<git, rev, saved>> /\ art'.report = art.report
           /\ work'[t].n = work[t].n + 1
           /\ \E passed :
                 /\ art'.evidence = art.evidence \cup
                       {Evidence(NextCheck(t), passed, work[t].saw, work[t].quiet)}
                 /\ work'[t].bad = (work[t].bad \/ (~passed /\ NextCheck(t) \notin Optional))
           /\ \A u \in Tasks \ {t} : work'[u] = work[u]
<1> DEFINE check == NextCheck(t)
<1> DEFINE may == {Passes(check, git.tree)} \cup (IF check \in MayTimeOut THEN {FALSE} ELSE {})
<1>1. PICK passed \in may :
        /\ art' = [art EXCEPT !.evidence =
                      art.evidence \cup {Evidence(check, passed, work[t].saw, work[t].quiet)}]
        /\ work' = [work EXCEPT ![t].n = work[t].n + 1, ![t].bad = work[t].bad \/ (~passed /\ check \notin Optional)]
  BY DEF RunCheck
<1>2. UNCHANGED <<git, rev, saved>>
  BY DEF RunCheck
<1> DEFINE x == art.evidence \cup {Evidence(check, passed, work[t].saw, work[t].quiet)}
           n == work[t].n + 1
           bad == work[t].bad \/ (~passed /\ check \notin Optional)
<1>3. art' = [art EXCEPT !.evidence = x] /\ work' = [work EXCEPT ![t].n = n, ![t].bad = bad]
  BY <1>1
<1>4. n \in Nat /\ bad \in BOOLEAN
  BY PlaceType DEF WorkspaceOK
<1>5. /\ work' \in [Tasks -> WorkRow] /\ work'[t].n = n /\ work'[t].bad = bad
      /\ \A u \in Tasks \ {t} : work'[u] = work[u]
  <2> HIDE DEF n, bad
  <2> QED
    BY <1>3, <1>4, JudgedOne DEF WorkspaceOK
<1>6. art'.report = art.report /\ art'.evidence = x /\ WorkspaceOK'
  <2> HIDE DEF x
  <2> QED
    BY <1>2, <1>3, <1>5, ArtRow DEF WorkspaceOK
<1> QED
  BY <1>2, <1>5, <1>6

LEMMA ScanPublishes ==
    ASSUME WorkspaceOK, NEW t \in Tasks, Scan(t)
    PROVE  /\ WorkspaceOK' /\ UNCHANGED <<git, rev, saved>> /\ art'.report = art.report
           /\ work[t].n = 0 /\ work'[t].n = 1
           /\ \E passed :
                 /\ art'.evidence =
                       art.evidence \cup {Evidence("security_scan", passed, rev, Quiescent)}
                 /\ work'[t].bad = ~passed
           /\ \A u \in Tasks \ {t} : work'[u] = work[u]
<1> DEFINE passed == Passes("security_scan", git.tree)
           x == art.evidence \cup {Evidence("security_scan", passed, rev, Quiescent)}
           bad == ~passed
<1>1. /\ art' = [art EXCEPT !.evidence = x] /\ work' = [work EXCEPT ![t].n = 1, ![t].bad = bad]
      /\ UNCHANGED <<git, rev, saved>> /\ work[t].n = 0
  BY DEF Scan
<1>2. bad \in BOOLEAN
  OBVIOUS
<1>3. /\ work' \in [Tasks -> WorkRow] /\ work'[t].n = 1 /\ work'[t].bad = bad
      /\ \A u \in Tasks \ {t} : work'[u] = work[u]
  <2> HIDE DEF bad
  <2> QED
    BY <1>1, <1>2, JudgedOne DEF WorkspaceOK
<1>4. art'.report = art.report /\ art'.evidence = x /\ WorkspaceOK'
  <2> HIDE DEF x
  <2> QED
    BY <1>1, <1>3, ArtRow DEF WorkspaceOK
<1> QED
  BY <1>1, <1>3, <1>4

LEMMA WorkBegins ==
    ASSUME WorkspaceOK, NEW t \in Tasks, BeginWork(t)
    PROVE  /\ WorkspaceOK' /\ UNCHANGED <<git, rev, saved, art>>
           /\ work'[t] = NoWork /\ work'[t].n = 0
           /\ \A u \in Tasks \ {t} : work'[u] = work[u]
<1>1. work' = [work EXCEPT ![t] = NoWork] /\ UNCHANGED <<git, rev, saved, art>>
  BY DEF BeginWork
<1>2. NoWork \in WorkRow /\ NoWork.n = 0
  BY DEF NoWork, WorkRow
<1> QED
  BY <1>1, <1>2, RowSet DEF WorkspaceOK

LEMMA CrashForgets ==
    ASSUME WorkspaceOK, CrashWorkers
    PROVE  /\ WorkspaceOK' /\ UNCHANGED <<git, saved, art, task, run, main>> /\ rev' = saved
           /\ \A t \in Tasks : work'[t] = NoWork /\ work'[t].n = 0
<1>1. NoWork \in WorkRow /\ NoWork.n = 0
  BY DEF NoWork, WorkRow
<1>2. work' = [t \in Tasks |-> NoWork] /\ UNCHANGED <<git, saved, art, task, run, main>> /\ rev' = saved
  BY DEF CrashWorkers, Crash, durable
<1>3. work' \in [Tasks -> WorkRow] /\ \A t \in Tasks : work'[t] = NoWork
  <2> HIDE DEF NoWork, WorkRow
  <2> QED
    BY <1>1, <1>2
<1> QED
  BY <1>1, <1>2, <1>3 DEF WorkspaceOK

LEMMA ResetMoves ==
    ASSUME WorkspaceOK, NEW t \in Tasks, ResetHard(t)
    PROVE  /\ WorkspaceOK' /\ UNCHANGED <<vars, rev, saved, art, work, merged, allowed>>
           /\ git'.head = 1 /\ git'.index = Base /\ git'.commits = git.commits
<1> DEFINE kept == [f \in Files |-> IF Untracked(f) THEN git.tree[f] ELSE Base[f]]
<1>1. /\ git' = [git EXCEPT !.head = 1, !.index = Base, !.tree = kept]
      /\ UNCHANGED <<vars, rev, saved, art, work, merged, allowed>>
  BY DEF ResetHard
<1>2. Base \in Trees /\ git.commits \in Seq(Trees) /\ 1 \in DOMAIN git.commits /\ git.tree \in Trees
  BY WorkspaceAssumption DEF WorkspaceOK, GitRow
<1>3. kept \in Trees
  BY <1>2 DEF Trees
<1> HIDE DEF kept
<1>4. /\ git' \in GitRow /\ git'.head = 1 /\ git'.index = Base /\ git'.commits = git.commits
  BY <1>1, <1>2, <1>3 DEF WorkspaceOK, GitRow
<1> QED
  BY <1>1, <1>2, <1>4 DEF WorkspaceOK

LEMMA CleanMoves ==
    ASSUME WorkspaceOK, NEW t \in Tasks, CleanWorktree(t)
    PROVE  /\ WorkspaceOK' /\ UNCHANGED <<vars, rev, saved, art, work, merged, allowed>>
           /\ git'.head = git.head /\ git'.tree = Base /\ git'.index = git.index
           /\ git'.commits = git.commits
<1>1. /\ git' = [git EXCEPT !.tree = Base]
      /\ UNCHANGED <<vars, rev, saved, art, work, merged, allowed>>
  BY DEF CleanWorktree
<1>2. Base \in Trees
  BY WorkspaceAssumption
<1>3. /\ git' \in GitRow /\ git'.head = git.head /\ git'.tree = Base
      /\ git'.index = git.index /\ git'.commits = git.commits
  BY <1>1, <1>2 DEF WorkspaceOK, GitRow
<1> QED
  BY <1>1, <1>3 DEF WorkspaceOK

\* Every kind of step at once.
LEMMA WorkspaceStep ==
    ASSUME WorkspaceOK, [DNext]_<<vars, dvars>>
    PROVE  WorkspaceOK'
<1>1. CASE UNCHANGED dvars
  BY <1>1, KeptWorkspace DEF dvars
<1>2. ASSUME NEW t \in Tasks, Worker(t)
      PROVE  WorkspaceOK'
  <2>1. CASE WorkerReturns(t) \/ ChecksFailed(t) \/ FailsAtOnce(t) \/ CommitFails(t)
               \/ DiffDenied(t) \/ GitFails(t) \/ CheckDenied(t)
    BY <1>1, <2>1 DEF WorkerReturns, ChecksFailed, FailsAtOnce, CommitFails, DiffDenied, GitFails,
                      CheckDenied
  <2>2. CASE WriteDenied(t)
    BY <2>2, KeptWorkspace DEF WriteDenied
  <2> QED
    BY <1>2, <2>1, <2>2, WriteKeeps, StageIndexes, StatusMoves, CommitAppends, HeadRead,
       RevisionSet, RunSaved, StepPublishes, RevisionRead, CheckPublishes, ScanPublishes DEF Worker
<1>3. ASSUME NEW t \in Tasks, SaveRollback(t)
      PROVE  WorkspaceOK'
  BY <1>3 DEF SaveRollback, WorkspaceOK
<1>4. ASSUME NEW t \in Tasks,
             BeginWork(t) \/ ResetHard(t) \/ CleanWorktree(t) \/ FailRolledBack(t)
      PROVE  WorkspaceOK'
  BY <1>1, <1>4, WorkBegins, ResetMoves, CleanMoves DEF FailRolledBack
<1>5. CASE MergeBranch \/ CrashWorkers
  BY <1>5, KeptWorkspace, CrashForgets DEF MergeBranch
<1> QED
  BY <1>1, <1>2, <1>3, <1>4, <1>5 DEF DNext

LEMMA InitWorkspace == DInit => WorkspaceOK
<1> SUFFICES ASSUME DInit PROVE WorkspaceOK
  OBVIOUS
<1>1. git = [tree |-> Base, index |-> Base, commits |-> <<Base>>, head |-> 1] /\ Base \in Trees
  BY WorkspaceAssumption DEF DInit
<1>2. git \in GitRow /\ git.head = 1 /\ git.commits = <<Base>>
  BY <1>1 DEF GitRow
<1>3. NoWork \in WorkRow
  BY DEF NoWork, WorkRow
<1>4. work \in [Tasks -> WorkRow] /\ rev = 1 /\ saved = 1
  <2> HIDE DEF NoWork, WorkRow
  <2> QED
    BY <1>3 DEF DInit
<1>5. art = [proposed |-> art.proposed, change |-> art.change, evidence |-> art.evidence,
             report |-> art.report]
  BY DEF DInit
<1> QED
  BY <1>2, <1>4, <1>5 DEF WorkspaceOK

LEMMA AlwaysWorkspace == DSpec => []WorkspaceOK
BY InitWorkspace, WorkspaceStep, PTL DEF DSpec

-------------------------------------------------------------------------------
(* From the head of the branch to the merge *)

\* t is to be rolled back, and nothing else will be done about it.
RolledBack(t) ==
    t \in RollbackOnFailure /\ Broken(t) /\ ~CanRepair(t)

\* The rollback of t is under way, or was when the process died.
Midway(t) ==
    /\ RolledBack(t)
    /\ (pc = "failures" /\ IsFirst(t, FailedTasks)) \/ DiedIn({"failures"})

LEMMA LostStays ==
    ASSUME TypeInv, WaveOK, DNext, NEW t \in Tasks, RolledBack(t)
    PROVE  RolledBack(t)'
<1> SUFFICES ASSUME Next PROVE RolledBack(t)'
  BY DeliveryStep DEF RolledBack, Broken, CanRepair, vars
<1>1. Broken(t)'
  BY BrokenStays DEF RolledBack
<1>2. run.repairs \in Nat /\ MaxRepairs \in Nat
  BY BudgetAssumption DEF TypeInv, TypeOK
<1>3. run'.repairs \in Nat /\ run'.repairs >= run.repairs
  <2>1. CASE CountRepair
    <3>1. run \in RunRow /\ run' = [run EXCEPT !.repairs = NextRepair]
      BY <2>1 DEF TypeInv, TypeOK, RunRow, CountRepair
    <3>2. run'.repairs = run.repairs + 1
      BY <3>1 DEF RunRow, NextRepair
    <3> QED
      BY <1>2, <3>2
  <2> QED
    BY <1>2, <2>1, RepairMoves
<1> QED
  BY <1>1, <1>2, <1>3 DEF RolledBack, CanRepair

\* Nothing but its rollback, or a crash, comes after the failure of a task that
\* is to be rolled back.
LEMMA HeldUp ==
    ASSUME TypeInv, DNext, NEW t \in Tasks, RolledBack(t),
           pc = "failures", IsFirst(t, FailedTasks)
    PROVE  \/ Crash
           \/ FailRolledBack(t)
           \/ pc' = pc /\ task' = task
<1>0. \A u \in Tasks : IsFirst(u, FailedTasks) => u = t
  BY FirstUnique DEF FailedTasks
<1>1. CASE BeginTick \/ ConsumeApproved \/ ConsumeRefused \/ ClearGate
             \/ SavePromoted \/ SaveReviewReady \/ Proceed
  BY <1>1 DEF BeginTick, ConsumeApproved, ConsumeRefused, ClearGate,
              SavePromoted, SaveReviewReady, Proceed, Goto
<1>2. CASE Loop
  BY <1>2 DEF Loop, NextWave, WithinBudget, WavesExhausted, TimeExhausted,
              MaterializeRaises, Schedule, Blocked, Finalize, Scheduling, Goto
<1>3. CASE WaveDone \/ CountRepair \/ FailuresHandled \/ SavePause \/ GatesDone
  BY <1>3 DEF WaveDone, CountRepair, FailuresHandled, SavePause, GatesDone, Goto, IsFirst
<1>4. ASSUME NEW u \in Tasks,
             SaveBootstrapTask(u) \/ RecoverTask(u) \/ RouteFailure(u) \/ ProcessGate(u)
      PROVE  FALSE
  <2>1. CASE SaveBootstrapTask(u) \/ RecoverTask(u) \/ ProcessGate(u)
    BY <2>1 DEF SaveBootstrapTask, RecoverTask, ProcessGate, GateAllowed, RequestApproval,
                GateDenied, NextGate
  <2>2. CASE RouteFailure(u)
    <3>1. u = t
      BY <1>0, <2>2 DEF RouteFailure, Retry, RetriesExhausted, TakeFallback, NoFallback,
                 SaveRepair, SaveReintegrate, RepairCollides, Rewire, NoRepair, Failed
    <3> QED
      BY <2>2, <3>1
         DEF RouteFailure, Retry, RetriesExhausted, TakeFallback, NoFallback, SaveRepair,
             SaveReintegrate, RepairCollides, Rewire, NoRepair, Failed, Retryable, Goto,
             RolledBack, Broken
  <2> QED
    BY <1>4, <2>1, <2>2
<1>5. CASE Approver
  BY <1>5 DEF Approver, Resolve
<1>6. CASE Elsewhere
  BY <1>1, <1>2, <1>3, <1>4, <1>5, <1>6 DEF Elsewhere
<1>7. ASSUME NEW u \in Tasks, BeginWork(u) \/ Worker(u)
      PROVE  FALSE
  BY <1>7, WorkerPlace DEF BeginWork, StartTask
<1>8. ASSUME NEW u \in Tasks, ResetHard(u) \/ CleanWorktree(u) \/ SaveRollback(u)
      PROVE  UNCHANGED vars
  BY <1>8 DEF ResetHard, CleanWorktree, SaveRollback
<1>9. ASSUME NEW u \in Tasks, FailRolledBack(u)
      PROVE  u = t
  BY <1>0, <1>9 DEF FailRolledBack, Rollback, Failed
<1>10. CASE MergeBranch \/ CrashWorkers
  BY <1>10 DEF MergeBranch, Promote, CrashWorkers, Goto
<1> QED
  BY <1>6, <1>7, <1>8, <1>9, <1>10 DEF DNext, vars

LEMMA MidwayStays ==
    ASSUME TypeInv, WaveOK, DNext, NEW t \in Tasks, Midway(t)
    PROVE  Midway(t)' \/ (AtBase' /\ rev' = 1 /\ saved' = 1)
<1>1. RolledBack(t)'
  BY LostStays DEF Midway
<1>2. CASE DiedIn({"failures"})
  BY <1>1, <1>2, DeathsStay DEF Midway
<1>3. CASE pc = "failures" /\ IsFirst(t, FailedTasks)
  <2>1. CASE Crash
    BY <1>1, <1>3, <2>1, DeathsRecorded DEF Midway, Next
  <2>2. CASE FailRolledBack(t)
    BY <2>2 DEF FailRolledBack, AtBase, dvars
  <2>3. CASE pc' = pc /\ task' = task
    BY <1>1, <1>3, <2>3 DEF Midway, IsFirst, FailedTasks
  <2> QED
    BY <1>3, <2>1, <2>2, <2>3, HeldUp DEF Midway
<1> QED
  BY <1>2, <1>3 DEF Midway

-------------------------------------------------------------------------------
(* What an integrator owes *)

Integrators == {y \in PlanTasks \cup ReintegrateTasks : Capability[y] = "integrate_change"}

\* y is still to take its step k.
Owes(y, k) ==
    /\ y \in Integrators
    /\ task[y].status # "SUCCEEDED"
    /\ y \in PlanTasks \/ task[y].status # "ABSENT"
    /\ task[y].status = "RUNNING" => work[y].n <= k

\* Only a worker changes its own place, but for who starts or kills it.
LEMMA PlacesKept ==
    ASSUME WorkspaceOK, DNext, NEW t \in Tasks
    PROVE  \/ work'[t] = work[t]
           \/ work'[t] = NoWork /\ work'[t].n = 0
           \/ Worker(t)
<1>1. CASE UNCHANGED work
  BY <1>1
<1>2. ASSUME NEW u \in Tasks, Worker(u), u # t
      PROVE  work'[t] = work[t]
  <2>1. CASE WorkerReturns(u) \/ ChecksFailed(u) \/ FailsAtOnce(u) \/ CommitFails(u)
               \/ DiffDenied(u) \/ GitFails(u) \/ CheckDenied(u) \/ WriteDenied(u)
    BY <2>1 DEF WorkerReturns, ChecksFailed, FailsAtOnce, CommitFails, DiffDenied, GitFails,
                CheckDenied, WriteDenied, dvars
  <2>2. CASE WriteFile(u) \/ Commit(u)
    BY <1>2, <2>2, StepOne DEF WriteFile, Commit, WorkspaceOK
  <2> QED
    BY <1>2, <2>1, <2>2, StageIndexes, StatusMoves, HeadRead, RevisionSet, RunSaved,
       StepPublishes, RevisionRead, CheckPublishes, ScanPublishes DEF Worker
<1>3. ASSUME NEW u \in Tasks, BeginWork(u)
      PROVE  work'[t] = work[t] \/ (work'[t] = NoWork /\ work'[t].n = 0)
  BY <1>3, WorkBegins
<1>4. ASSUME NEW u \in Tasks,
             ResetHard(u) \/ CleanWorktree(u) \/ SaveRollback(u) \/ FailRolledBack(u)
      PROVE  UNCHANGED work
  BY <1>4 DEF ResetHard, CleanWorktree, SaveRollback, FailRolledBack, dvars
<1>5. CASE MergeBranch
  BY <1>5 DEF MergeBranch
<1> QED
  BY <1>1, <1>2, <1>3, <1>4, <1>5, CrashForgets DEF DNext, dvars

\* In a wave a row changes when its own worker starts or ends.
LEMMA OwnWorker ==
    ASSUME TypeInv, DNext, pc = "wave", NEW t \in Tasks, task'[t] # task[t]
    PROVE  BeginWork(t) \/ Worker(t)
<1>1. CASE BeginTick \/ ConsumeApproved \/ ConsumeRefused \/ ClearGate
             \/ SavePromoted \/ SaveReviewReady \/ Proceed
  BY <1>1 DEF BeginTick, ConsumeApproved, ConsumeRefused, ClearGate,
              SavePromoted, SaveReviewReady, Proceed, Goto
<1>2. CASE Loop
  BY <1>2 DEF Loop, NextWave, WithinBudget, WavesExhausted, TimeExhausted,
              MaterializeRaises, Schedule, Blocked, Finalize, Scheduling, Goto
<1>3. CASE WaveDone \/ CountRepair \/ FailuresHandled \/ SavePause \/ GatesDone
  BY <1>3 DEF WaveDone, CountRepair, FailuresHandled, SavePause, GatesDone, Goto
<1>4. ASSUME NEW u \in Tasks,
             SaveBootstrapTask(u) \/ RecoverTask(u) \/ RouteFailure(u) \/ ProcessGate(u)
      PROVE  FALSE
  <2>1. CASE SaveBootstrapTask(u) \/ RecoverTask(u) \/ ProcessGate(u)
    BY <2>1 DEF SaveBootstrapTask, RecoverTask, ProcessGate, GateAllowed, RequestApproval,
                GateDenied, NextGate
  <2>2. CASE RouteFailure(u)
    BY <2>2
       DEF RouteFailure, Retry, RetriesExhausted, TakeFallback, NoFallback, SaveRepair,
           SaveReintegrate, RepairCollides, Rewire, NoRepair, Failed, Goto
  <2> QED
    BY <1>4, <2>1, <2>2
<1>5. CASE Approver
  BY <1>5 DEF Approver, Resolve
<1>6. CASE Elsewhere
  BY <1>1, <1>2, <1>3, <1>4, <1>5, <1>6 DEF Elsewhere
<1>7. ASSUME NEW u \in Tasks, BeginWork(u)
      PROVE  u = t
  BY <1>7, SaveOne DEF BeginWork, StartTask
<1>8. ASSUME NEW u \in Tasks, Worker(u)
      PROVE  u = t
  <2>1. CASE UNCHANGED vars
    BY <2>1 DEF vars
  <2>2. CASE \E class \in FailureClass : TaskFails(u, class)
    BY <2>2, SaveOne DEF TaskFails
  <2>3. CASE WorkerReturns(u)
    BY <2>3, SaveOne DEF WorkerReturns, TaskSucceeds
  <2> QED
    BY <1>8, <2>1, <2>2, <2>3, WorkerEnds
<1>9. ASSUME NEW u \in Tasks,
             ResetHard(u) \/ CleanWorktree(u) \/ SaveRollback(u) \/ FailRolledBack(u)
      PROVE  FALSE
  BY <1>9 DEF ResetHard, CleanWorktree, SaveRollback, FailRolledBack, Rollback, RollsBack, Failed
<1>10. CASE MergeBranch \/ CrashWorkers
  BY <1>10 DEF MergeBranch, Promote, CrashWorkers, Crash, durable, Goto
<1> QED
  BY <1>6, <1>7, <1>8, <1>9, <1>10 DEF DNext

LEMMA WorkBegun ==
    ASSUME TypeInv, WaveOK, WorkspaceOK, DNext, NEW t \in Tasks,
           task[t].status # "RUNNING", task'[t].status = "RUNNING"
    PROVE  BeginWork(t) /\ work'[t] = NoWork /\ work'[t].n = 0
<1>1. [Next]_vars /\ task'[t] # task[t]
  BY DeliveryStep
<1>2. Next
  BY <1>1 DEF vars
<1>3. RowStep(t)
  BY <1>2, RowSteps
<1>4. pc = "wave"
  BY <1>1, <1>3 DEF RowStep, Kept, Created, Cleared, Requeued, Started, Ended, Routed
<1>5. BeginWork(t)
  BY <1>1, <1>4, OwnWorker, WorkerPlace
<1> QED
  BY <1>5, WorkBegins

LEMMA WorkEnded ==
    ASSUME TypeInv, WaveOK, DNext, NEW t \in Tasks,
           task[t].status # "SUCCEEDED", task'[t].status = "SUCCEEDED"
    PROVE  WorkerReturns(t) /\ UNCHANGED dvars /\ task[t].status = "RUNNING"
<1>1. [Next]_vars /\ task'[t] # task[t]
  BY DeliveryStep
<1>2. Next
  BY <1>1 DEF vars
<1>3. RowStep(t)
  BY <1>2, RowSteps
<1>4. pc = "wave"
  BY <1>1, <1>3 DEF RowStep, Kept, Created, Cleared, Requeued, Started, Ended, Routed
<1>5. ~BeginWork(t)
  <2> DEFINE row == [task[t] EXCEPT !.status = "RUNNING", !.attempts = task[t].attempts + 1]
  <2>1. task[t] \in TaskRow
    BY RowType DEF TypeInv
  <2>2. row.status = "RUNNING"
    BY <2>1 DEF TaskRow
  <2> HIDE DEF row
  <2>3. BeginWork(t) => Save(t, row)
    BY DEF BeginWork, StartTask, row
  <2> QED
    BY <2>2, <2>3, SaveOne
<1>6. Worker(t)
  BY <1>1, <1>4, <1>5, OwnWorker
<1>7. ASSUME NEW class \in FailureClass, TaskFails(t, class)
      PROVE  FALSE
  <2> DEFINE row == [task[t] EXCEPT !.status = "FAILED", !.class = class]
  <2>1. task[t] \in TaskRow
    BY RowType DEF TypeInv
  <2>2. row.status = "FAILED"
    BY <2>1 DEF TaskRow
  <2> HIDE DEF row
  <2>3. Save(t, row)
    BY <1>7 DEF TaskFails, row
  <2> QED
    BY <2>2, <2>3, SaveOne
<1>8. WorkerReturns(t)
  BY <1>1, <1>6, <1>7, WorkerEnds DEF vars
<1> QED
  BY <1>8, <1>6, WorkerPlace DEF WorkerReturns

\* What an integrator owes it owes until it has done it.
LEMMA OwesStays ==
    ASSUME TypeInv, WaveOK, WorkspaceOK, DNext, NEW k \in 0..6, NEW y \in Tasks, Owes(y, k)
    PROVE  \/ Owes(y, k)'
           \/ UNCHANGED vars /\ Worker(y) /\ work[y].n <= k /\ ~(work'[y].n <= k)
<1>0. Capability[y] = "integrate_change" /\ y \in Integrators
  BY DEF Owes, Integrators
<1>1. task'[y].status # "SUCCEEDED"
  <2>1. ASSUME task'[y].status = "SUCCEEDED"
        PROVE  FALSE
    <3>1. WorkerReturns(y) /\ task[y].status = "RUNNING"
      BY <2>1, WorkEnded DEF Owes
    <3>2. work[y].n = 8 /\ work[y].n <= k
      BY <1>0, <3>1 DEF WorkerReturns, Steps, Owes
    <3> QED
      BY <3>2
  <2> QED
    BY <2>1
<1>2. y \in PlanTasks \/ task'[y].status # "ABSENT"
  BY DeliveryStep, DependenciesGrow DEF Owes, Integrators, Tasks, vars
<1>3. CASE task'[y].status # "RUNNING"
  BY <1>0, <1>1, <1>2, <1>3 DEF Owes
<1>4. CASE task'[y].status = "RUNNING" /\ task[y].status # "RUNNING"
  BY <1>0, <1>1, <1>2, <1>4, WorkBegun DEF Owes
<1>5. CASE task'[y].status = "RUNNING" /\ task[y].status = "RUNNING"
  <2>1. work[y].n <= k
    BY <1>5 DEF Owes
  <2>2. CASE work'[y].n <= k
    BY <1>0, <1>1, <1>2, <2>2 DEF Owes
  <2>3. CASE ~(work'[y].n <= k)
    <3>1. Worker(y)
      BY <2>1, <2>3, PlacesKept
    <3>2. ~(UNCHANGED dvars)
      BY <2>1, <2>3 DEF dvars
    <3>3. UNCHANGED vars
      BY <1>0, <3>1, <3>2, IntegratorStep
    <3> QED
      BY <2>1, <2>3, <3>1, <3>3
  <2> QED
    BY <2>2, <2>3
<1> QED
  BY <1>3, <1>4, <1>5

\* Who moves the head of the branch, the revision of the run and of its row, the
\* report and the merged revision.
LEMMA DeliveryMoves ==
    ASSUME WorkspaceOK, DNext
    PROVE  /\ \/ git'.head = git.head
              \/ \E t \in Tasks : Commit(t) \/ ResetHard(t)
           /\ \/ rev' = rev
              \/ \E t \in Tasks : SetRevision(t) \/ SaveRollback(t)
              \/ CrashWorkers
           /\ \/ saved' = saved
              \/ \E t \in Tasks : SaveRun(t) \/ SaveRollback(t)
           /\ \/ art'.report = art.report
              \/ \E t \in Tasks : AssembleRelease(t)
           /\ merged' = merged \/ MergeBranch
           /\ allowed \subseteq allowed'
<1>1. CASE UNCHANGED dvars
  BY <1>1 DEF dvars
<1>2. ASSUME NEW t \in Tasks, Worker(t)
      PROVE  /\ git'.head = git.head \/ Commit(t)
             /\ rev' = rev \/ SetRevision(t)
             /\ saved' = saved \/ SaveRun(t)
             /\ art'.report = art.report \/ AssembleRelease(t)
             /\ merged' = merged /\ allowed \subseteq allowed'
  <2>1. CASE WorkerReturns(t) \/ ChecksFailed(t) \/ FailsAtOnce(t) \/ CommitFails(t)
               \/ DiffDenied(t) \/ GitFails(t) \/ CheckDenied(t) \/ WriteDenied(t)
    BY <2>1 DEF WorkerReturns, ChecksFailed, FailsAtOnce, CommitFails, DiffDenied, GitFails,
                CheckDenied, WriteDenied, dvars
  <2>2. CASE WriteFile(t)
    BY <2>2, WriteKeeps DEF WriteFile
  <2>3. CASE Stage(t) \/ Status(t)
    BY <2>3, StageIndexes, StatusMoves DEF Stage, Status
  <2>4. CASE Commit(t) \/ ReadHead(t) \/ SetRevision(t) \/ SaveRun(t)
    BY <2>4 DEF Commit, ReadHead, SetRevision, SaveRun
  <2>5. CASE DiffAllowed(t) \/ PublishPatch(t) \/ PublishChange(t) \/ AssembleRelease(t)
    BY <2>5, StepPublishes DEF DiffAllowed, PublishPatch, PublishChange, AssembleRelease
  <2>6. CASE ReadRevision(t) \/ RunCheck(t) \/ Scan(t)
    BY <2>6, RevisionRead, CheckPublishes, ScanPublishes DEF ReadRevision, RunCheck, Scan
  <2> QED
    BY <1>2, <2>1, <2>2, <2>3, <2>4, <2>5, <2>6 DEF Worker
<1>3. ASSUME NEW t \in Tasks, BeginWork(t) \/ SaveRollback(t) \/ FailRolledBack(t)
      PROVE  /\ git'.head = git.head
             /\ UNCHANGED <<rev, saved>> \/ SaveRollback(t)
             /\ art'.report = art.report /\ merged' = merged /\ allowed \subseteq allowed'
  BY <1>3 DEF BeginWork, SaveRollback, FailRolledBack, dvars
<1>4. ASSUME NEW t \in Tasks, ResetHard(t) \/ CleanWorktree(t)
      PROVE  /\ git'.head = git.head \/ ResetHard(t)
             /\ UNCHANGED <<rev, saved>> /\ art'.report = art.report
             /\ merged' = merged /\ allowed' = allowed
  BY <1>4, CleanMoves DEF ResetHard, CleanWorktree
<1>5. CASE MergeBranch \/ CrashWorkers
  BY <1>5 DEF MergeBranch, CrashWorkers
<1> QED
  BY <1>1, <1>2, <1>3, <1>4, <1>5 DEF DNext

-------------------------------------------------------------------------------
(* One integrator at a time *)

\* The engine has no repair to give, or to one task only.
OneRepaired == \A t, u \in Repairable : t = u

\* No repair has come as far as its reintegration.
NoneRepaired == \A n \in 1..MaxRepairs : task[Reintegrate[n]].status = "ABSENT"

PlanIntegrators == {y \in PlanTasks : Capability[y] = "integrate_change"}

\* Only what can be repaired waits for a reintegration.
RepairedWait ==
    \A t \in Tasks : task[t].deps \cap ReintegrateTasks # {} => t \in Repairable

\* What is about to be repaired has nothing left to wait for.
RepairReady ==
    \A t \in Repairable : task[t].status = "FAILED" =>
        /\ \A d \in task[t].deps : task[d].status = "SUCCEEDED"
        /\ \A y \in PlanIntegrators : task[y].status = "SUCCEEDED"

\* A reintegration comes after the integrators of the plan, and after the one
\* before it.
RepairTurn ==
    \A n \in 1..MaxRepairs : task[Reintegrate[n]].status # "ABSENT" =>
        /\ \A y \in PlanIntegrators : task[y].status = "SUCCEEDED"
        /\ OneRepaired => \A m \in 1..MaxRepairs :
              \/ m = n
              \/ task[Reintegrate[m]].status = "ABSENT"
              \/ "SUCCEEDED" \in {task[Reintegrate[m]].status, task[Reintegrate[n]].status}

TurnInv == RepairedWait /\ RepairReady /\ RepairTurn

LEMMA RepairedWaitStep ==
    ASSUME TypeInv, WaveOK, RepairedWait, Next
    PROVE  RepairedWait'
<1> SUFFICES ASSUME NEW t \in Tasks, NEW y \in ReintegrateTasks, y \in task'[t].deps
             PROVE  t \in Repairable
  BY DEF RepairedWait
<1>1. RowStep(t)
  BY RowSteps
<1>2. CASE task'[t].deps = task[t].deps
  BY <1>2 DEF RepairedWait
<1>3. CASE Created(t)
  <2>1. y \notin Bootstrap \cup PlanTasks \cup RepairTasks
    BY Kinds
  <2>2. BootstrapDeps[t] \subseteq Bootstrap \/ t \notin Bootstrap
    BY DEF Bootstrap, BootstrapDeps
  <2>3. SaveBootstrapTask(t) => t \in Bootstrap
    BY DEF SaveBootstrapTask, IsFirst, Missing
  <2>4. t \in PlanTasks => PlanDeps[t] \subseteq PlanTasks
    BY PlanAssumption
  <2> QED
    BY <1>3, <2>1, <2>2, <2>3, <2>4 DEF Created
<1>4. CASE Routed(t)
  BY <1>2, <1>4 DEF Routed, CanRepair
<1> QED
  BY <1>1, <1>2, <1>3, <1>4 DEF RowStep, Kept, Cleared, Requeued, Started, Ended

LEMMA RepairReadyStep ==
    ASSUME OrderInv, TypeInv', IntegratorsInTurn, RepairReady, Next
    PROVE  RepairReady'
<1> SUFFICES ASSUME NEW t \in Repairable, task'[t].status = "FAILED"
             PROVE  /\ \A d \in task'[t].deps : task'[d].status = "SUCCEEDED"
                    /\ \A y \in PlanIntegrators : task'[y].status = "SUCCEEDED"
  BY DEF RepairReady
<1>0. /\ TypeInv /\ WaveOK /\ DependenciesFirst /\ DependenciesShaped /\ RowsOfAnAdoptedPlan
      /\ t \in PlanTasks /\ t \in Tasks /\ PlanIntegrators \subseteq Tasks
  BY Kinds DEF OrderInv, SafeInv, Tasks, PlanIntegrators
<1>1. RowStep(t)
  BY <1>0, RowSteps
<1>2. ASSUME NEW d \in Tasks, task[d].status = "SUCCEEDED"
      PROVE  task'[d].status = "SUCCEEDED"
  BY <1>0, <1>2, SuccessStays
<1>3. task[t].deps \subseteq Tasks
  BY <1>0 DEF TypeInv, TypeOK, TaskRow
<1>4. task'[t].deps = task[t].deps /\ task[t].status \in {"RUNNING", "FAILED"}
  BY <1>0, <1>1
     DEF RowStep, Kept, Created, Cleared, Requeued, Started, Ended, Routed
<1>5. CASE task[t].status = "FAILED"
  BY <1>0, <1>2, <1>3, <1>4, <1>5 DEF RepairReady
<1>6. CASE task[t].status = "RUNNING"
  <2>1. \A d \in task[t].deps : task[d].status = "SUCCEEDED"
    BY <1>0, <1>6 DEF DependenciesFirst
  <2>2. ASSUME NEW y \in PlanIntegrators
        PROVE  task[y].status = "SUCCEEDED"
    <3>1. y \in PlanTasks /\ y # t /\ Leads(y, t)
      BY <2>2 DEF PlanIntegrators, IntegratorsInTurn
    <3> QED
      BY <1>0, <1>6, <3>1, LedIsDone
  <2> QED
    BY <1>0, <1>2, <1>3, <1>4, <2>1, <2>2
<1> QED
  BY <1>4, <1>5, <1>6

LEMMA RepairTurnStep ==
    ASSUME OrderInv, RepairsLinked, IntegratorsInTurn, TurnInv, Next
    PROVE  RepairTurn'
<1>0. /\ TypeInv /\ WaveOK /\ DependenciesShaped /\ Awaited
      /\ PlanIntegrators \subseteq Tasks
      /\ \A n \in 1..MaxRepairs : Reintegrate[n] \in Tasks /\ Reintegrate[n] \in ReintegrateTasks
  BY DEF OrderInv, SafeInv, RepairsLinked, Tasks, PlanIntegrators, ReintegrateTasks
<1>1. ASSUME NEW d \in Tasks, task[d].status = "SUCCEEDED"
      PROVE  task'[d].status = "SUCCEEDED"
  BY <1>0, <1>1, SuccessStays
<1>2. ASSUME NEW n \in 1..MaxRepairs, task[Reintegrate[n]].status = "ABSENT",
             task'[Reintegrate[n]].status # "ABSENT"
      PROVE  /\ n = NextRepair
             /\ \A y \in PlanIntegrators : task[y].status = "SUCCEEDED"
             /\ OneRepaired => \A m \in 1..MaxRepairs :
                   m = n \/ task[Reintegrate[m]].status \in {"ABSENT", "SUCCEEDED"}
  <2>1. ASSUME NEW t \in Tasks, SaveRepair(t)
        PROVE  Reintegrate[n] # RepairOf[t][NextRepair]
    BY <1>0, <2>1, RepairSaved, Kinds DEF RepairTasks
  <2>2. PICK t \in Tasks : SaveReintegrate(t) /\ Reintegrate[n] = Reintegrate[NextRepair]
    BY <1>0, <1>2, <2>1, NewRows, Kinds
  <2>3. t \in Repairable /\ task[t].status = "FAILED" /\ n = NextRepair
    BY <1>0, <2>2, ReintegrateSaved, NamesAssumption
  <2>4. ASSUME OneRepaired, NEW m \in 1..MaxRepairs, m # n,
               task[Reintegrate[m]].status # "ABSENT"
        PROVE  task[Reintegrate[m]].status = "SUCCEEDED"
    <3>1. PICK u \in PlanTasks : Reintegrate[m] \in task[u].deps
      BY <1>0, <2>3, <2>4 DEF Awaited
    <3>2. u \in Repairable
      BY <1>0, <3>1 DEF TurnInv, RepairedWait, Tasks
    <3>3. u = t
      BY <2>3, <2>4, <3>2 DEF OneRepaired
    <3> QED
      BY <2>3, <3>1, <3>3 DEF TurnInv, RepairReady
  <2> QED
    BY <2>3, <2>4 DEF TurnInv, RepairReady
<1> SUFFICES ASSUME NEW n \in 1..MaxRepairs, task'[Reintegrate[n]].status # "ABSENT"
             PROVE  /\ \A y \in PlanIntegrators : task'[y].status = "SUCCEEDED"
                    /\ OneRepaired => \A m \in 1..MaxRepairs :
                          \/ m = n
                          \/ task'[Reintegrate[m]].status = "ABSENT"
                          \/ "SUCCEEDED" \in {task'[Reintegrate[m]].status,
                                              task'[Reintegrate[n]].status}
  BY DEF RepairTurn
<1>3. \A y \in PlanIntegrators : task[y].status = "SUCCEEDED"
  BY <1>2 DEF TurnInv, RepairTurn
<1>4. ASSUME OneRepaired, NEW m \in 1..MaxRepairs, m # n,
             task'[Reintegrate[m]].status # "ABSENT"
      PROVE  "SUCCEEDED" \in {task'[Reintegrate[m]].status, task'[Reintegrate[n]].status}
  <2>1. CASE task[Reintegrate[n]].status = "ABSENT" \/ task[Reintegrate[m]].status = "ABSENT"
    <3>1. "SUCCEEDED" \in {task[Reintegrate[m]].status, task[Reintegrate[n]].status}
      BY <1>2, <1>4, <2>1
    <3> QED
      BY <1>0, <1>1, <3>1
  <2>2. CASE task[Reintegrate[n]].status # "ABSENT" /\ task[Reintegrate[m]].status # "ABSENT"
    <3>1. "SUCCEEDED" \in {task[Reintegrate[m]].status, task[Reintegrate[n]].status}
      BY <1>4, <2>2 DEF TurnInv, RepairTurn
    <3> QED
      BY <1>0, <1>1, <3>1
  <2> QED
    BY <2>1, <2>2
<1> QED
  BY <1>0, <1>1, <1>3, <1>4

LEMMA InitTurn == Init => TurnInv
<1> SUFFICES ASSUME Init PROVE TurnInv
  OBVIOUS
<1>1. \A t \in Tasks : task[t].status = "ABSENT" /\ task[t].deps = {}
  BY DEF Init, NoTask, NewTask
<1>2. ReintegrateTasks \subseteq Tasks /\ Repairable \subseteq Tasks
  BY Kinds DEF Tasks
<1> QED
  BY <1>1, <1>2 DEF TurnInv, RepairedWait, RepairReady, RepairTurn, ReintegrateTasks

LEMMA TurnStep ==
    ASSUME OrderInv, RepairsLinked, TurnInv, IntegratorsInTurn, [Next]_vars
    PROVE  TurnInv'
<1>1. CASE Next
  <2>1. TypeInv /\ WaveOK /\ TypeInv'
    BY <1>1, NextType DEF OrderInv, SafeInv
  <2> QED
    BY <1>1, <2>1, RepairedWaitStep, RepairReadyStep, RepairTurnStep DEF TurnInv
<1>2. CASE UNCHANGED vars
  BY <1>2 DEF vars, TurnInv, RepairedWait, RepairReady, RepairTurn
<1> QED
  BY <1>1, <1>2

LEMMA OneIntegrates ==
    ASSUME OrderInv, TurnInv, IntegratorsInTurn, OneRepaired \/ NoneRepaired,
           NEW y \in Integrators, NEW z \in Integrators,
           task[y].status = "RUNNING", task[z].status = "RUNNING"
    PROVE  y = z
<1>1. ASSUME NEW u \in PlanIntegrators, NEW w \in PlanIntegrators,
             task[u].status = "RUNNING", task[w].status = "RUNNING"
      PROVE  u = w
  <2>1. u \in PlanTasks /\ w \in PlanTasks
    BY DEF PlanIntegrators
  <2>2. u = w \/ Leads(u, w) \/ Leads(w, u)
    BY DEF PlanIntegrators, IntegratorsInTurn
  <2> QED
    BY <1>1, <2>1, <2>2, LedIsDone DEF OrderInv, SafeInv
<1>2. ASSUME NEW u \in Integrators, u \notin PlanIntegrators
      PROVE  \E n \in 1..MaxRepairs : u = Reintegrate[n]
  BY <1>2 DEF Integrators, PlanIntegrators, ReintegrateTasks
<1>3. ASSUME NEW n \in 1..MaxRepairs, task[Reintegrate[n]].status = "RUNNING"
      PROVE  OneRepaired /\ \A u \in PlanIntegrators : task[u].status = "SUCCEEDED"
  BY <1>3 DEF NoneRepaired, TurnInv, RepairTurn
<1>4. CASE y \in PlanIntegrators /\ z \in PlanIntegrators
  BY <1>1, <1>4
<1>5. CASE y \notin PlanIntegrators /\ z \notin PlanIntegrators
  <2>1. PICK m \in 1..MaxRepairs : y = Reintegrate[m]
    BY <1>2, <1>5
  <2>2. PICK n \in 1..MaxRepairs : z = Reintegrate[n]
    BY <1>2, <1>5
  <2> QED
    BY <1>3, <2>1, <2>2 DEF TurnInv, RepairTurn
<1>6. CASE y \in PlanIntegrators /\ z \notin PlanIntegrators
  <2>1. task[y].status = "SUCCEEDED"
    BY <1>2, <1>3, <1>6
  <2> QED
    BY <2>1
<1>7. CASE y \notin PlanIntegrators /\ z \in PlanIntegrators
  <2>1. task[z].status = "SUCCEEDED"
    BY <1>2, <1>3, <1>7
  <2> QED
    BY <2>1
<1> QED
  BY <1>4, <1>5, <1>6, <1>7

\* What was never repaired had not been before.
LEMMA NoneBefore ==
    ASSUME TypeInv, WaveOK, DNext, NoneRepaired'
    PROVE  NoneRepaired
<1>1. \A n \in 1..MaxRepairs : Reintegrate[n] \in Tasks
  BY DEF Tasks, ReintegrateTasks
<1>2. CASE UNCHANGED vars
  BY <1>2 DEF vars, NoneRepaired
<1>3. CASE Next
  BY <1>1, <1>3, DependenciesGrow DEF NoneRepaired
<1> QED
  BY <1>2, <1>3, DeliveryStep

-------------------------------------------------------------------------------
(* The revision, the report, what policy judged, and the merge *)

\* y has read the head and is about to give it to the run; or has done so and
\* is about to save the row.
Setting(y) == y \in Integrators /\ task[y].status = "RUNNING" /\ work[y].n = 4
Saving(y)  == y \in Integrators /\ task[y].status = "RUNNING" /\ work[y].n = 5

\* The run's revision, and its row's, are the head of the branch, or an
\* integrator is still to make them so, or a rollback is.
RevisionFollows ==
    \/ \E y \in Tasks : Owes(y, 3)
    \/ \E t \in Tasks : Midway(t)
    \/ /\ rev = git.head \/ \E y \in Tasks : Setting(y)
       /\ saved = git.head \/ \E y \in Tasks : Setting(y) \/ Saving(y)

\* Nobody commits behind who has read the head.
AtHead == \A y \in Tasks : Setting(y) => pc = "wave" /\ work[y].saw = git.head

\* Policy has let the head through, or is still to be asked, or it was reset.
HeadJudged ==
    \/ git.head \in allowed
    \/ \E y \in Tasks : Owes(y, 6)
    \/ \E t \in Tasks : RolledBack(t)

\* From the report on the run's revision stays what it says.
ReportCurrent ==
    \A r \in ReleaseTasks :
        \/ task[r].status = "RUNNING" /\ work[r].n = 1
        \/ task[r].status = "SUCCEEDED"
        => art.report.rev = rev

\* And from the merge on the head of the branch is what was merged.
MergedHead == merged # 0 => main /\ merged = git.head

LEMMA CommitterOwes ==
    ASSUME TypeInv, WorkspaceOK, ReleaseDelivers, NEW t \in Tasks, Commit(t)
    PROVE  t \in Integrators /\ task[t].status = "RUNNING" /\ Owes(t, 3)' /\ Owes(t, 6)'
<1>1. t \in Integrators /\ task[t].status = "RUNNING" /\ task'[t].status = "RUNNING"
      /\ work[t].n = 2 /\ Step(t)
  BY DEF Commit, Integrates, Runs, vars, ReleaseDelivers, Integrators, Tasks
<1>2. work'[t].n = 3
  BY <1>1, StepOne DEF WorkspaceOK
<1> QED
  BY <1>1, <1>2 DEF Owes

LEMMA ResetterLost ==
    ASSUME WorkspaceOK, NEW t \in Tasks, ResetHard(t) \/ CleanWorktree(t)
    PROVE  pc = "failures" /\ Midway(t) /\ Midway(t)' /\ RolledBack(t)'
<1>1. pc = "failures" /\ Midway(t)
  BY DEF ResetHard, CleanWorktree, RollsBack, Failed, Midway, RolledBack, Broken, IsFirst, FailedTasks
<1>2. UNCHANGED vars
  BY ResetMoves, CleanMoves
<1> QED
  BY <1>1, <1>2 DEF Midway, RolledBack, Broken, IsFirst, FailedTasks, CanRepair, DiedIn, vars

\* The integrators of a run are those of Integrators.
LEMMA WhoIntegrates ==
    ASSUME ReleaseDelivers, NEW t \in Tasks, Capability[t] = "integrate_change"
    PROVE  t \in Integrators
BY DEF ReleaseDelivers, Integrators, Tasks

\* A step is owed until the step is taken.
LEMMA OwesUntil ==
    ASSUME TypeInv, WaveOK, WorkspaceOK, DNext, NEW y \in Tasks
    PROVE  /\ Owes(y, 3) => Owes(y, 3)' \/ ReadHead(y)
           /\ Owes(y, 6) => Owes(y, 6)' \/ DiffAllowed(y)
<1>1. ASSUME NEW k \in {3, 6}, Owes(y, k), ~Owes(y, k)'
      PROVE  (k = 3 /\ ReadHead(y)) \/ (k = 6 /\ DiffAllowed(y))
  <2>1. Worker(y) /\ work[y].n <= k /\ ~(work'[y].n <= k) /\ UNCHANGED vars
    BY <1>1, OwesStays
  <2>2. Capability[y] = "integrate_change" /\ ~UNCHANGED dvars
    BY <1>1, <2>1 DEF Owes, Integrators, dvars
  <2>3. \/ Stage(y) /\ work[y].n = 0
        \/ Status(y) /\ work[y].n = 1
        \/ Commit(y) /\ work[y].n = 2
        \/ ReadHead(y) /\ work[y].n = 3
        \/ SetRevision(y) /\ work[y].n = 4
        \/ SaveRun(y) /\ work[y].n = 5
        \/ DiffAllowed(y) /\ work[y].n = 6
    BY <2>1, <2>2, IntegratorStep
  <2>4. ~(Stage(y) /\ work[y].n = 0) /\ ~(Status(y) /\ work[y].n = 1)
    BY <2>1, StageIndexes, StatusMoves
  <2>5. ~(Commit(y) /\ work[y].n = 2)
    BY <2>1, StepOne DEF Commit, WorkspaceOK
  <2>6. k = 6 => ~(ReadHead(y) /\ work[y].n = 3) /\ ~(SetRevision(y) /\ work[y].n = 4)
                    /\ ~(SaveRun(y) /\ work[y].n = 5)
    BY <2>1, HeadRead, RevisionSet, RunSaved
  <2> QED
    BY <2>1, <2>3, <2>4, <2>5, <2>6
<1> QED
  BY <1>1

LEMMA SettingUntil ==
    ASSUME TypeInv, WaveOK, WorkspaceOK, DNext, NEW y \in Tasks
    PROVE  /\ Setting(y) => Setting(y)' \/ Owes(y, 3)' \/ SetRevision(y)
           /\ Saving(y) => Saving(y)' \/ Owes(y, 3)' \/ SaveRun(y)
<1> SUFFICES ASSUME y \in Integrators, task[y].status = "RUNNING", NEW n \in {4, 5}, work[y].n = n
             PROVE  \/ task'[y].status = "RUNNING" /\ work'[y].n = n
                    \/ Owes(y, 3)'
                    \/ n = 4 /\ SetRevision(y)
                    \/ n = 5 /\ SaveRun(y)
  BY DEF Setting, Saving
<1>0. Capability[y] = "integrate_change"
  BY DEF Integrators
<1>1. CASE Worker(y)
  BY <1>0, <1>1, IntegratorStep
<1>2. CASE ~Worker(y)
  <2>1. work'[y] = work[y] \/ work'[y].n = 0
    BY <1>2, PlacesKept
  <2>2. [Next]_vars
    BY DeliveryStep
  <2>3. CASE pc = "wave"
    <3>1. task'[y] = task[y] \/ BeginWork(y)
      BY <1>2, <2>3, OwnWorker
    <3>2. ~BeginWork(y)
      BY DEF BeginWork, StartTask, Taken, WaveOK
    <3> QED
      BY <2>1, <3>1, <3>2 DEF Owes
  <2>4. CASE pc # "wave"
    <3>1. CASE Next
      <4>1. RowStep(y)
        BY <3>1, RowSteps
      <4>2. task'[y].status = "RUNNING" \/ task'[y].status = "PENDING"
        BY <2>4, <4>1 DEF RowStep, Kept, Created, Cleared, Requeued, Started, Ended, Routed
      <4> QED
        BY <2>1, <4>2 DEF Owes
    <3>2. CASE UNCHANGED vars
      BY <2>1, <3>2 DEF Owes, vars
    <3> QED
      BY <2>2, <3>1, <3>2
  <2> QED
    BY <2>3, <2>4
<1> QED
  BY <1>1, <1>2

\* A wave goes on as long as somebody works, unless the process dies.
LEMMA WaveGoesOn ==
    ASSUME TypeInv, DNext, pc = "wave", NEW t \in Tasks, task[t].status = "RUNNING"
    PROVE  pc' = "wave" \/ CrashWorkers
<1>1. CASE BeginTick \/ ConsumeApproved \/ ConsumeRefused \/ ClearGate
             \/ SavePromoted \/ SaveReviewReady \/ Proceed
  BY <1>1 DEF BeginTick, ConsumeApproved, ConsumeRefused, ClearGate,
              SavePromoted, SaveReviewReady, Proceed, Goto
<1>2. CASE Loop
  BY <1>2 DEF Loop, NextWave, WithinBudget, WavesExhausted, TimeExhausted,
              MaterializeRaises, Schedule, Blocked, Finalize, Scheduling, Goto
<1>3. CASE WaveDone \/ CountRepair \/ FailuresHandled \/ SavePause \/ GatesDone
  <2>1. t \in RunningTasks(task)
    BY DEF RunningTasks, TypeInv, TypeOK
  <2> QED
    BY <1>3, <2>1 DEF WaveDone, CountRepair, FailuresHandled, SavePause, GatesDone, Goto
<1>4. ASSUME NEW u \in Tasks,
             SaveBootstrapTask(u) \/ RecoverTask(u) \/ RouteFailure(u) \/ ProcessGate(u)
      PROVE  FALSE
  <2>1. CASE SaveBootstrapTask(u) \/ RecoverTask(u) \/ ProcessGate(u)
    BY <2>1 DEF SaveBootstrapTask, RecoverTask, ProcessGate, GateAllowed, RequestApproval,
                GateDenied, NextGate
  <2>2. CASE RouteFailure(u)
    BY <2>2
       DEF RouteFailure, Retry, RetriesExhausted, TakeFallback, NoFallback, SaveRepair,
           SaveReintegrate, RepairCollides, Rewire, NoRepair, Failed, Goto
  <2> QED
    BY <1>4, <2>1, <2>2
<1>5. CASE Approver
  BY <1>5 DEF Approver, Resolve
<1>6. CASE Elsewhere
  BY <1>1, <1>2, <1>3, <1>4, <1>5, <1>6 DEF Elsewhere
<1>7. ASSUME NEW u \in Tasks, BeginWork(u) \/ Worker(u)
      PROVE  pc' = pc
  BY <1>7, WorkerEnds DEF BeginWork, StartTask, TaskFails, WorkerReturns, TaskSucceeds, vars
<1>8. ASSUME NEW u \in Tasks,
             ResetHard(u) \/ CleanWorktree(u) \/ SaveRollback(u) \/ FailRolledBack(u)
      PROVE  FALSE
  BY <1>8 DEF ResetHard, CleanWorktree, SaveRollback, FailRolledBack, Rollback, RollsBack, Failed
<1>9. ~MergeBranch
  BY DEF MergeBranch, Promote, Goto
<1> QED
  BY <1>6, <1>7, <1>8, <1>9 DEF DNext

\* The integrators take turns.
InTurn == OneRepaired \/ NoneRepaired

\* Who is about to give the run a revision has just read it, or is still about to.
LEMMA SettingMoves ==
    ASSUME TypeInv, WaveOK, WorkspaceOK, DNext, NEW y \in Tasks, Setting(y)'
    PROVE  \/ ReadHead(y) /\ UNCHANGED vars
           \/ Setting(y) /\ work'[y] = work[y] /\ ~Worker(y) /\ ~CrashWorkers
<1>0. /\ y \in Integrators /\ Capability[y] = "integrate_change"
      /\ task'[y].status = "RUNNING" /\ work'[y].n = 4
  BY DEF Setting, Integrators
<1>1. task[y].status = "RUNNING"
  BY <1>0, WorkBegun
<1>2. CASE Worker(y)
  <2>1. ~(UNCHANGED dvars /\ work[y].n \notin {4, 5}) /\ ~(UNCHANGED dvars /\ work[y].n = 8)
    BY <1>0 DEF dvars
  <2>2. ~(Stage(y) /\ work[y].n = 0) /\ ~(Status(y) /\ work[y].n = 1)
    BY <1>0, StageIndexes, StatusMoves
  <2>3. ~(Commit(y) /\ work[y].n = 2)
    BY <1>0, StepOne DEF Commit, WorkspaceOK
  <2>4. ~(SetRevision(y) /\ work[y].n = 4) /\ ~(SaveRun(y) /\ work[y].n = 5)
    BY <1>0, RevisionSet, RunSaved
  <2>5. ~(DiffAllowed(y) /\ work[y].n = 6) /\ ~(PublishChange(y) /\ work[y].n = 7)
    BY <1>0, StepPublishes DEF PublishChange
  <2> QED
    BY <1>0, <1>2, <2>1, <2>2, <2>3, <2>4, <2>5, IntegratorStep
<1>3. CASE ~Worker(y)
  <2>1. work'[y] = work[y]
    BY <1>0, <1>3, PlacesKept
  <2>2. ~CrashWorkers
    BY <1>0, CrashForgets
  <2> QED
    BY <1>0, <1>1, <1>3, <2>1, <2>2 DEF Setting
<1> QED
  BY <1>2, <1>3

LEMMA AtHeadStep ==
    ASSUME OrderInv, TurnInv, WorkspaceOK, ReleaseDelivers, IntegratorsInTurn, InTurn,
           AtHead, DNext
    PROVE  AtHead'
<1> SUFFICES ASSUME NEW y \in Tasks, Setting(y)'
             PROVE  pc' = "wave" /\ work'[y].saw = git'.head
  BY DEF AtHead
<1>0. /\ TypeInv /\ WaveOK /\ y \in Integrators /\ Capability[y] = "integrate_change"
      /\ task'[y].status = "RUNNING" /\ work'[y].n = 4
  BY DEF OrderInv, SafeInv, Setting, Integrators
<1>1. CASE ReadHead(y) /\ UNCHANGED vars
  <2>1. pc = "wave"
    BY <1>1 DEF ReadHead, Integrates, Runs
  <2> QED
    BY <1>1, <2>1, HeadRead DEF vars
<1>2. CASE Setting(y) /\ work'[y] = work[y] /\ ~Worker(y) /\ ~CrashWorkers
  <2>1. pc = "wave" /\ work[y].saw = git.head /\ task[y].status = "RUNNING"
    BY <1>2 DEF AtHead, Setting
  <2>2. pc' = "wave"
    BY <1>0, <1>2, <2>1, WaveGoesOn
  <2>3. ASSUME NEW t \in Tasks, Commit(t)
        PROVE  FALSE
    <3>1. t = y
      BY <1>0, <2>1, <2>3, CommitterOwes, OneIntegrates DEF InTurn
    <3> QED
      BY <1>2, <2>3, <3>1 DEF Worker
  <2>4. git'.head = git.head
    BY <2>1, <2>3, DeliveryMoves, ResetterLost
  <2> QED
    BY <1>2, <2>1, <2>2, <2>4
<1> QED
  BY <1>0, <1>1, <1>2, SettingMoves

LEMMA FollowsStep ==
    ASSUME OrderInv, TurnInv, WorkspaceOK, ReleaseDelivers, IntegratorsInTurn, InTurn,
           RevisionFollows, AtHead, DNext
    PROVE  RevisionFollows'
<1>0. TypeInv /\ WaveOK
  BY DEF OrderInv, SafeInv
<1>1. ASSUME NEW y \in Tasks, Owes(y, 3)
      PROVE  RevisionFollows'
  <2>1. CASE ReadHead(y)
    <3>1. /\ y \in Integrators /\ task[y].status = "RUNNING" /\ work[y].n = 3
          /\ UNCHANGED vars
      BY <1>1, <2>1 DEF Owes, ReadHead, Integrates, Runs
    <3>2. work'[y].n = 4
      BY <2>1, <3>1, HeadRead
    <3>3. Setting(y)'
      BY <3>1, <3>2 DEF Setting, vars
    <3> QED
      BY <3>3 DEF RevisionFollows
  <2> QED
    BY <1>0, <1>1, <2>1, OwesUntil DEF RevisionFollows
<1>2. ASSUME NEW t \in Tasks, Midway(t)
      PROVE  RevisionFollows'
  BY <1>0, <1>2, MidwayStays DEF RevisionFollows, AtBase
<1>3. ASSUME rev = git.head \/ \E y \in Tasks : Setting(y),
             saved = git.head \/ \E y \in Tasks : Setting(y) \/ Saving(y)
      PROVE  RevisionFollows'
  <2>1. ASSUME NEW t \in Tasks, Commit(t) \/ ResetHard(t) \/ CleanWorktree(t)
        PROVE  RevisionFollows'
    BY <1>0, <2>1, CommitterOwes, ResetterLost DEF RevisionFollows
  <2>2. ASSUME NEW t \in Tasks, SaveRollback(t)
        PROVE  RevisionFollows'
    BY <2>2 DEF SaveRollback, AtBase, RevisionFollows
  <2>3. CASE CrashWorkers
    <3>1. UNCHANGED <<git, saved, task>> /\ rev' = saved
      BY <2>3, CrashForgets
    <3>2. ASSUME NEW y \in Tasks, Setting(y) \/ Saving(y)
          PROVE  Owes(y, 3)'
      <4>1. y \in Integrators /\ task'[y].status = "RUNNING" /\ work'[y].n = 0
        BY <2>3, <3>1, <3>2, CrashForgets DEF Setting, Saving
      <4> QED
        BY <4>1 DEF Owes
    <3> QED
      BY <1>3, <3>1, <3>2 DEF RevisionFollows
  <2>4. ASSUME NEW t \in Tasks, SetRevision(t)
        PROVE  RevisionFollows'
    <3>1. Setting(t) /\ UNCHANGED vars
      BY <2>4, WhoIntegrates DEF SetRevision, Integrates, Runs, Setting
    <3>2. rev' = git'.head /\ work'[t].n = 5
      BY <2>4, <3>1, RevisionSet DEF AtHead, Setting
    <3>3. Saving(t)'
      BY <3>1, <3>2 DEF Setting, Saving, vars
    <3> QED
      BY <3>2, <3>3 DEF RevisionFollows
  <2>5. ASSUME NEW t \in Tasks, SaveRun(t)
        PROVE  RevisionFollows'
    <3>1. t \in Integrators /\ task[t].status = "RUNNING" /\ work[t].n = 5
      BY <2>5, WhoIntegrates DEF SaveRun, Integrates, Runs
    <3>2. ASSUME NEW y \in Tasks
          PROVE  ~Setting(y)
      BY <3>1, OneIntegrates DEF Setting, InTurn
    <3>3. rev = git.head /\ UNCHANGED <<git, rev>> /\ saved' = rev
      BY <1>3, <2>5, <3>2, RunSaved
    <3> QED
      BY <3>3 DEF RevisionFollows
  <2>6. ASSUME git'.head = git.head, rev' = rev, saved' = saved,
               \A t \in Tasks : ~SetRevision(t) /\ ~SaveRun(t)
        PROVE  RevisionFollows'
    <3>1. CASE \E y \in Tasks : Owes(y, 3)'
      BY <3>1 DEF RevisionFollows
    <3>2. CASE ~\E y \in Tasks : Owes(y, 3)'
      <4>1. ASSUME NEW y \in Tasks
            PROVE  (Setting(y) => Setting(y)') /\ (Saving(y) => Saving(y)')
        BY <1>0, <2>6, <3>2, SettingUntil
      <4> QED
        BY <1>3, <2>6, <4>1 DEF RevisionFollows
    <3> QED
      BY <3>1, <3>2
  <2> QED
    BY <2>1, <2>2, <2>3, <2>4, <2>5, <2>6, DeliveryMoves
<1> QED
  BY <1>1, <1>2, <1>3 DEF RevisionFollows

LEMMA JudgedStep ==
    ASSUME TypeInv, WaveOK, WorkspaceOK, ReleaseDelivers, HeadJudged, DNext
    PROVE  HeadJudged'
<1>1. ASSUME NEW t \in Tasks, Commit(t) \/ ResetHard(t) \/ DiffAllowed(t)
      PROVE  HeadJudged'
  <2>1. CASE DiffAllowed(t)
    BY <2>1 DEF DiffAllowed, HeadJudged
  <2> QED
    BY <1>1, <2>1, CommitterOwes, ResetterLost DEF HeadJudged
<1>2. ASSUME git'.head = git.head, \A t \in Tasks : ~DiffAllowed(t)
      PROVE  HeadJudged'
  <2>1. allowed \subseteq allowed'
    BY DeliveryMoves
  <2> QED
    BY <1>2, <2>1, OwesUntil, LostStays DEF HeadJudged
<1> QED
  BY <1>1, <1>2, DeliveryMoves

\* Once the release is at work or over, everything else is over.
AllDone(r) ==
    /\ \A t \in (Bootstrap \cup PlanTasks) \ {r} : task[t].status = "SUCCEEDED"
    /\ \A y \in ReintegrateTasks : task[y].status \in {"ABSENT", "SUCCEEDED"}

LEMMA ReleaseAfterAll ==
    ASSUME OrderInv, Awaited, ReleaseDelivers, NEW r \in ReleaseTasks,
           task[r].status \in {"RUNNING", "SUCCEEDED"}
    PROVE  AllDone(r)
<1>0. r \in PlanTasks
  BY PlanAssumption
<1>1. ASSUME NEW t \in (Bootstrap \cup PlanTasks) \ {r}
      PROVE  task[t].status = "SUCCEEDED"
  BY <1>0, <1>1, LedIsDone DEF OrderInv, SafeInv, ReleaseDelivers, ReleaseIsLast
<1>2. \A t \in PlanTasks : task[t].status \in {"RUNNING", "SUCCEEDED"}
  BY <1>1
<1> QED
  BY <1>1, <1>2, AwaitedIsDone DEF AllDone, OrderInv, SafeInv

\* Then no integrator owes anything and nothing is to be rolled back.
LEMMA NothingOwed ==
    ASSUME NEW r \in ReleaseTasks, Capability[r] = "assemble_release",
           task[r].status \in {"RUNNING", "SUCCEEDED"}, AllDone(r)
    PROVE  /\ \A y \in Tasks, k \in Nat : ~Owes(y, k)
           /\ \A t \in Tasks : ~RolledBack(t) /\ ~Midway(t)
           /\ \A y \in Tasks : ~Setting(y) /\ ~Saving(y)
<1>1. \A t \in PlanTasks : task[t].status \in {"RUNNING", "SUCCEEDED"}
  BY DEF AllDone
<1>2. \A t \in Tasks : ~RolledBack(t) /\ ~Midway(t)
  BY <1>1, PlanAssumption DEF RolledBack, Midway, Broken
<1>3. ASSUME NEW y \in Tasks, NEW k \in Nat, Owes(y, k)
      PROVE  FALSE
  <2>1. y \in PlanTasks \cup ReintegrateTasks /\ Capability[y] = "integrate_change"
    BY <1>3 DEF Owes, Integrators
  <2> QED
    BY <1>3, <2>1 DEF Owes, AllDone
<1>4. ASSUME NEW y \in Tasks, Setting(y) \/ Saving(y)
      PROVE  FALSE
  BY <1>4 DEF Setting, Saving, Integrators, AllDone
<1> QED
  BY <1>2, <1>3, <1>4

\* Nobody gives the run a revision, saves it or resets the branch then.
LEMMA RevisionRests ==
    ASSUME OrderInv, Awaited, WorkspaceOK, ReleaseDelivers, NEW r \in ReleaseTasks,
           task[r].status \in {"RUNNING", "SUCCEEDED"}, NEW t \in Tasks
    PROVE  /\ ~Commit(t) /\ ~SetRevision(t) /\ ~SaveRun(t)
           /\ ~ResetHard(t) /\ ~CleanWorktree(t) /\ ~SaveRollback(t)
<1>0. AllDone(r) /\ Capability[r] = "assemble_release"
  BY ReleaseAfterAll DEF ReleaseDelivers
<1>1. ASSUME Commit(t) \/ SetRevision(t) \/ SaveRun(t)
      PROVE  FALSE
  <2>1. Capability[t] = "integrate_change" /\ task[t].status = "RUNNING"
    BY <1>1 DEF Commit, SetRevision, SaveRun, Integrates, Runs
  <2>2. t \in PlanTasks \cup ReintegrateTasks
    BY <2>1 DEF ReleaseDelivers, Tasks
  <2> QED
    BY <1>0, <2>1, <2>2 DEF AllDone
<1>2. ASSUME ResetHard(t) \/ CleanWorktree(t) \/ SaveRollback(t)
      PROVE  FALSE
  <2>1. t \in PlanTasks /\ task[t].status = "FAILED"
    BY <1>2, PlanAssumption DEF ResetHard, CleanWorktree, SaveRollback, RollsBack, Failed,
                                IsFirst, FailedTasks
  <2> QED
    BY <1>0, <2>1 DEF AllDone
<1> QED
  BY <1>1, <1>2

\* The run and its row have the head then.
LEMMA RevisionSettled ==
    ASSUME OrderInv, Awaited, ReleaseDelivers, RevisionFollows, NEW r \in ReleaseTasks,
           task[r].status \in {"RUNNING", "SUCCEEDED"}
    PROVE  rev = git.head /\ saved = git.head
<1>1. AllDone(r) /\ Capability[r] = "assemble_release"
  BY ReleaseAfterAll DEF ReleaseDelivers
<1>2. /\ \A y \in Tasks : ~Owes(y, 3) /\ ~Setting(y) /\ ~Saving(y)
      /\ \A t \in Tasks : ~Midway(t)
  BY <1>1, NothingOwed
<1> QED
  BY <1>2 DEF RevisionFollows

LEMMA ReportStep ==
    ASSUME OrderInv, Awaited, WorkspaceOK, ReleaseDelivers, RevisionFollows, ReportCurrent, DNext
    PROVE  ReportCurrent'
<1> SUFFICES ASSUME NEW r \in ReleaseTasks,
                    \/ task'[r].status = "RUNNING" /\ work'[r].n = 1
                    \/ task'[r].status = "SUCCEEDED"
             PROVE  art'.report.rev = rev'
  BY DEF ReportCurrent
<1>0. /\ TypeInv /\ WaveOK /\ r \in Tasks /\ Capability[r] = "assemble_release"
      /\ r \in PlanTasks
  BY PlanAssumption DEF OrderInv, SafeInv, ReleaseDelivers, Tasks
<1>1. CASE \E t \in Tasks : AssembleRelease(t)
  BY <1>1, StepPublishes
<1>2. CASE ~\E t \in Tasks : AssembleRelease(t)
  <2>1. art'.report = art.report
    BY <1>2, DeliveryMoves
  <2>2. \/ task[r].status = "RUNNING" /\ work[r].n = 1
        \/ task[r].status = "SUCCEEDED"
    <3>1. CASE task'[r].status = "SUCCEEDED" /\ task[r].status # "SUCCEEDED"
      <4>1. WorkerReturns(r) /\ task[r].status = "RUNNING"
        BY <1>0, <3>1, WorkEnded
      <4>2. work[r].n = 1
        BY <1>0, <4>1 DEF WorkerReturns, Steps
      <4> QED
        BY <4>1, <4>2
    <3>2. CASE task'[r].status = "RUNNING" /\ work'[r].n = 1 /\ task[r].status # "SUCCEEDED"
      <4>1. task[r].status = "RUNNING"
        BY <1>0, <3>2, WorkBegun
      <4>2. ~Worker(r) \/ UNCHANGED work
        <5>1. ~(WriteFile(r) \/ PublishPatch(r) \/ Stage(r) \/ Status(r) \/ Commit(r)
                 \/ ReadHead(r) \/ SetRevision(r) \/ SaveRun(r) \/ DiffAllowed(r)
                 \/ PublishChange(r) \/ ReadRevision(r) \/ RunCheck(r) \/ Scan(r))
          BY <1>0 DEF WriteFile, Writing, PublishPatch, Stage, Status, Commit, ReadHead,
                      SetRevision, SaveRun, DiffAllowed, PublishChange, Integrates, TurnsTo,
                      ReadRevision, RunCheck, Scan, Runs
        <5> QED
          BY <1>0, <1>2, <5>1 DEF Worker, WriteDenied, CommitFails, DiffDenied, GitFails,
                      CheckDenied, WorkerReturns, ChecksFailed, FailsAtOnce, dvars
      <4>3. work'[r] = work[r]
        BY <1>0, <3>2, <4>2, PlacesKept
      <4> QED
        BY <3>2, <4>1, <4>3
    <3> QED
      BY <3>1, <3>2
  <2>3. rev' = rev
    <3>1. rev = saved
      BY <2>2, RevisionSettled
    <3>2. CrashWorkers => rev' = saved
      BY DEF CrashWorkers
    <3> QED
      BY <2>2, <3>1, <3>2, RevisionRests, DeliveryMoves
  <2> QED
    BY <2>1, <2>2, <2>3 DEF ReportCurrent
<1> QED
  BY <1>1, <1>2

LEMMA MergedStep ==
    ASSUME OrderInv, Awaited, WorkspaceOK, ReleaseDelivers, MergedHead, DNext
    PROVE  MergedHead'
<1>1. CASE MergeBranch
  BY <1>1 DEF MergeBranch, Promote, MergedHead
<1>2. CASE merged' = merged /\ merged # 0
  <2>1. main /\ merged = git.head
    BY <1>2 DEF MergedHead
  <2>2. PICK r \in ReleaseTasks : task[r].status = "SUCCEEDED"
    BY <2>1 DEF OrderInv, SafeInv, MainlineAuthority
  <2>3. git'.head = git.head
    BY <2>2, RevisionRests, DeliveryMoves
  <2>4. main'
    BY <2>1, DeliveryStep, OnlyPromoteMerges DEF Promote, OrderInv, SafeInv, vars
  <2> QED
    BY <1>2, <2>1, <2>3, <2>4 DEF MergedHead
<1>3. CASE merged' = merged /\ merged = 0
  BY <1>3 DEF MergedHead
<1> QED
  BY <1>1, <1>2, <1>3, DeliveryMoves

\* What holds of every plan that delivers, and what holds as long as integrators
\* take turns.
JudgeInv == HeadJudged /\ MergedHead
FollowInv == InTurn => RevisionFollows /\ AtHead /\ ReportCurrent

LEMMA InitJudge == DInit /\ ReleaseDelivers => JudgeInv
<1> SUFFICES ASSUME DInit, ReleaseDelivers PROVE JudgeInv
  OBVIOUS
<1>0. \A t \in Tasks : task[t].status = "ABSENT"
  BY DEF DInit, Init, NoTask, NewTask
<1>1. merged = 0
  BY DEF DInit
<1>2. PICK y \in PlanTasks : Capability[y] = "integrate_change"
  BY DEF ReleaseDelivers
<1>3. y \in Tasks /\ Owes(y, 6)
  BY <1>0, <1>2 DEF Owes, Integrators, Tasks
<1> QED
  BY <1>1, <1>3 DEF JudgeInv, HeadJudged, MergedHead

LEMMA InitFollow == DInit => FollowInv
<1> SUFFICES ASSUME DInit PROVE FollowInv
  OBVIOUS
<1>0. \A t \in Tasks : task[t].status = "ABSENT"
  BY DEF DInit, Init, NoTask, NewTask
<1>1. rev = git.head /\ saved = git.head
  BY DEF DInit
<1>2. ReleaseTasks \subseteq Tasks
  BY PlanAssumption DEF Tasks
<1> QED
  BY <1>0, <1>1, <1>2 DEF FollowInv, RevisionFollows, AtHead, Setting, ReportCurrent

LEMMA JudgeInvStep ==
    ASSUME OrderInv, RepairsLinked, WorkspaceOK, JudgeInv, ReleaseDelivers,
           [DNext]_<<vars, dvars>>
    PROVE  JudgeInv'
<1>1. CASE UNCHANGED <<vars, dvars>>
  <2>1. UNCHANGED <<run, task, main, git, work, merged, allowed>>
    BY <1>1 DEF vars, dvars
  <2> QED
    BY <2>1 DEF JudgeInv, HeadJudged, MergedHead, Owes, RolledBack, Broken, CanRepair
<1>2. CASE DNext
  BY <1>2, JudgedStep, MergedStep DEF JudgeInv, OrderInv, SafeInv, RepairsLinked
<1> QED
  BY <1>1, <1>2

LEMMA FollowInvStep ==
    ASSUME OrderInv, RepairsLinked, TurnInv, WorkspaceOK, FollowInv, ReleaseDelivers,
           IntegratorsInTurn, [DNext]_<<vars, dvars>>
    PROVE  FollowInv'
<1>1. CASE UNCHANGED <<vars, dvars>>
  <2>1. UNCHANGED <<run, task, pc, died, git, rev, saved, art, work>>
    BY <1>1 DEF vars, dvars
  <2> QED
    BY <2>1 DEF FollowInv, InTurn, NoneRepaired, RevisionFollows, AtHead, ReportCurrent, Owes,
                Setting, Saving, Midway, RolledBack, Broken, CanRepair, IsFirst, FailedTasks,
                DiedIn
<1>2. CASE DNext
  <2> SUFFICES ASSUME InTurn' PROVE RevisionFollows' /\ AtHead' /\ ReportCurrent'
    BY DEF FollowInv
  <2>1. InTurn
    BY <1>2, NoneBefore DEF InTurn, OrderInv, SafeInv
  <2> QED
    BY <1>2, <2>1, FollowsStep, AtHeadStep, ReportStep DEF FollowInv, RepairsLinked
<1> QED
  BY <1>1, <1>2

LEMMA AlwaysOrdered == DSpec => [](OrderInv /\ RepairsLinked /\ WorkspaceOK)
BY DeliveryIsEngine, AlwaysInOrder, AlwaysLinked, AlwaysWorkspace, PTL

LEMMA AlwaysJudged ==
    ASSUME ReleaseDelivers
    PROVE  DSpec => []JudgeInv
<1>1. DInit => JudgeInv
  BY InitJudge
<1>2. OrderInv /\ RepairsLinked /\ WorkspaceOK /\ JudgeInv /\ [DNext]_<<vars, dvars>> => JudgeInv'
  BY JudgeInvStep
<1> QED
  BY <1>1, <1>2, AlwaysOrdered, PTL DEF DSpec

LEMMA AlwaysFollows ==
    ASSUME ReleaseDelivers, IntegratorsInTurn
    PROVE  DSpec => [](TurnInv /\ FollowInv)
<1>1. DInit => TurnInv /\ FollowInv
  BY InitTurn, InitFollow DEF DInit
<1>2. OrderInv /\ RepairsLinked /\ WorkspaceOK /\ TurnInv /\ FollowInv /\ [DNext]_<<vars, dvars>>
        => (TurnInv /\ FollowInv)'
  BY DeliveryStep, TurnStep, FollowInvStep
<1> QED
  BY <1>1, <1>2, AlwaysOrdered, PTL DEF DSpec

\* What has been merged is the head, and nobody is to touch it any more.
LEMMA MergeIsLast ==
    ASSUME OrderInv, RepairsLinked, JudgeInv, ReleaseDelivers, merged # 0
    PROVE  /\ merged = git.head /\ git.head \in allowed
           /\ \E r \in ReleaseTasks : task[r].status = "SUCCEEDED" /\ AllDone(r)
<1>1. main /\ merged = git.head
  BY DEF JudgeInv, MergedHead
<1>2. PICK r \in ReleaseTasks : task[r].status = "SUCCEEDED"
  BY <1>1 DEF OrderInv, SafeInv, MainlineAuthority
<1>3. AllDone(r) /\ Capability[r] = "assemble_release"
  BY <1>2, ReleaseAfterAll DEF RepairsLinked, ReleaseDelivers
<1>4. /\ \A y \in Tasks : ~Owes(y, 6)
      /\ \A t \in Tasks : ~RolledBack(t)
  BY <1>2, <1>3, NothingOwed
<1> QED
  BY <1>1, <1>2, <1>3, <1>4 DEF JudgeInv, HeadJudged

LEMMA ReportIsHead ==
    ASSUME OrderInv, RepairsLinked, JudgeInv, FollowInv, ReleaseDelivers, InTurn, merged # 0
    PROVE  art.report.rev = merged
<1>1. merged = git.head
  BY MergeIsLast
<1>2. PICK r \in ReleaseTasks : task[r].status = "SUCCEEDED"
  BY MergeIsLast
<1>3. rev = git.head
  BY <1>2, RevisionSettled DEF FollowInv, RepairsLinked
<1> QED
  BY <1>1, <1>2, <1>3 DEF FollowInv, ReportCurrent

\* Workload main receives the revision that the approved report names, through
\* every crash between a commit and its bookkeeping, in every plan that
\* integrates something before its release and whose integrators wait for each
\* other: in every run if one task at most is repaired, and until the first
\* repair otherwise, for two repairs may integrate side by side.
THEOREM MergeFollowsReport ==
    ASSUME ReleaseDelivers, IntegratorsInTurn
    PROVE  /\ OneRepaired => (DSpec => []MergedAsReported)
           /\ DSpec => [](NoneRepaired => MergedAsReported)
<1>1. OrderInv /\ RepairsLinked /\ JudgeInv /\ FollowInv /\ InTurn => MergedAsReported
  BY ReportIsHead DEF MergedAsReported
<1>2. DSpec => []JudgeInv
  BY AlwaysJudged
<1>3. DSpec => [](TurnInv /\ FollowInv)
  BY AlwaysFollows
<1>4. OneRepaired => (DSpec => []MergedAsReported)
  <2> SUFFICES ASSUME OneRepaired PROVE DSpec => []MergedAsReported
    OBVIOUS
  <2>1. OrderInv /\ RepairsLinked /\ JudgeInv /\ FollowInv => MergedAsReported
    BY <1>1 DEF InTurn
  <2> QED
    BY <1>2, <1>3, <2>1, AlwaysOrdered, PTL
<1>5. OrderInv /\ RepairsLinked /\ JudgeInv /\ FollowInv => (NoneRepaired => MergedAsReported)
  BY <1>1 DEF InTurn
<1>6. DSpec => [](NoneRepaired => MergedAsReported)
  BY <1>2, <1>3, <1>5, AlwaysOrdered, PTL
<1> QED
  BY <1>4, <1>6

\* In such a plan policy has judged the diff of the very revision that reaches
\* workload main (change.integrate, in integrate_change), although whoever asked
\* it may not have made the commit.
THEOREM MergeWasJudged ==
    ASSUME ReleaseDelivers
    PROVE  DSpec => []PolicySawTheMerge
<1>1. OrderInv /\ RepairsLinked /\ JudgeInv => PolicySawTheMerge
  BY MergeIsLast DEF PolicySawTheMerge
<1>2. DSpec => []JudgeInv
  BY AlwaysJudged
<1> QED
  BY <1>1, <1>2, AlwaysOrdered, PTL

-------------------------------------------------------------------------------
(* What the checks see *)

\* The worktree and the index are what the head says, or an integrator is still
\* to stage the tree, or has staged it and is about to commit it, or a rollback
\* is under way.
TreeFollows ==
    \/ git.tree = HeadTree /\ git.index = HeadTree
    \/ \E y \in Tasks : Owes(y, 0)
    \/ /\ git.index = git.tree
       /\ \E y \in Integrators : task[y].status = "RUNNING" /\ work[y].n \in {1, 2}
    \/ \E t \in Tasks : Midway(t)

\* Between the revision that a check read and its verdict.
Reads(t) ==
    Capability[t] = "run_checks" /\ task[t].status = "RUNNING" /\ work[t].n % 2 = 1

\* Whoever has read a revision with no repair under way sees the tree of it.
ReadingOne(t) ==
    work[t].quiet => Quiescent /\ git.tree = git.commits[work[t].saw]

\* Revisions that are filed, or are going to be, exist.
RevisionsKnown ==
    /\ rev \in DOMAIN git.commits /\ saved \in DOMAIN git.commits
    /\ \A t \in Tasks : Setting(t) => work[t].saw \in DOMAIN git.commits
    /\ \A e \in art.evidence : e.rev \in DOMAIN git.commits
    /\ \A t \in Tasks : Reads(t) => pc = "wave" /\ work[t].saw \in DOMAIN git.commits

\* Nobody writes or integrates while a check of the plan runs, unless it is for
\* a repair.
LEMMA WritersDone ==
    ASSUME OrderInv, ChecksFollow, NEW t \in Tasks,
           Capability[t] \in {"run_checks", "security_scan"},
           task[t].status \in {"RUNNING", "SUCCEEDED"}, NEW u \in PlanTasks,
           Capability[u] \in {"apply_seed", "integrate_change"}
    PROVE  task[u].status = "SUCCEEDED"
<1>1. t \in PlanTasks /\ Leads(u, t) /\ u # t
  BY DEF ChecksFollow
<1> QED
  BY <1>1, LedIsDone DEF OrderInv, SafeInv

LEMMA IntegratorsDone ==
    ASSUME OrderInv, ChecksFollow, NEW t \in Tasks,
           Capability[t] \in {"run_checks", "security_scan"},
           task[t].status \in {"RUNNING", "SUCCEEDED"},
           \A y \in ReintegrateTasks : task[y].status \in {"ABSENT", "SUCCEEDED"}
    PROVE  /\ \A y \in Integrators : task[y].status \in {"ABSENT", "SUCCEEDED"}
           /\ \A y \in Tasks, k \in Nat : ~Owes(y, k)
           /\ \A y \in Tasks : ~Setting(y) /\ ~Saving(y)
<1>1. \A y \in Integrators : task[y].status \in {"ABSENT", "SUCCEEDED"}
  BY WritersDone DEF Integrators
<1>2. \A y \in Integrators : y \in PlanTasks => task[y].status = "SUCCEEDED"
  BY WritersDone DEF Integrators
<1> QED
  BY <1>1, <1>2 DEF Owes, Setting, Saving

LEMMA CheckedTree ==
    ASSUME OrderInv, ChecksFollow, TreeFollows, NEW t \in Tasks,
           Capability[t] \in {"run_checks", "security_scan"},
           task[t].status \in {"RUNNING", "SUCCEEDED"},
           \A y \in ReintegrateTasks : task[y].status \in {"ABSENT", "SUCCEEDED"}
    PROVE  git.tree = HeadTree \/ \E u \in Tasks : Midway(u)
BY IntegratorsDone DEF TreeFollows

\* What a task writes somebody integrates afterwards.
LEMMA WriterOwed ==
    ASSUME OrderInv, ChecksFollow, Reintegrated, pc = "wave", NEW t \in Tasks,
           Capability[t] = "apply_seed", task[t].status = "RUNNING"
    PROVE  \E y \in Tasks : Owes(y, 0)
<1>1. CASE t \in RepairTasks
  <2>1. PICK u \in Repairable, n \in 1..MaxRepairs : t = RepairOf[u][n]
    BY <1>1 DEF RepairTasks
  <2>2. task[Reintegrate[n]].status # "ABSENT" /\ t \in task[Reintegrate[n]].deps
    BY <2>1 DEF Reintegrated
  <2>3. Reintegrate[n] \in ReintegrateTasks /\ Reintegrate[n] \in Tasks
    BY DEF ReintegrateTasks, Tasks
  <2>4. task[Reintegrate[n]].status \notin {"RUNNING", "SUCCEEDED"}
    BY <2>2, <2>3 DEF OrderInv, SafeInv, DependenciesFirst
  <2> QED
    BY <2>2, <2>3, <2>4 DEF Owes, Integrators, ChecksFollow
<1>2. CASE t \notin RepairTasks
  <2>1. PICK u \in PlanTasks : t \in PlanTasks /\ Capability[u] = "integrate_change" /\ Leads(t, u)
    BY <1>2 DEF ChecksFollow
  <2>2. u \in Tasks /\ task[u].status \notin {"RUNNING", "SUCCEEDED"}
    BY <2>1, LedIsDone DEF OrderInv, SafeInv, Tasks
  <2> QED
    BY <2>1, <2>2 DEF Owes, Integrators
<1> QED
  BY <1>1, <1>2

\* Who changes the tree and the index.
LEMMA TreeMoves ==
    ASSUME WorkspaceOK, DNext
    PROVE  \/ git'.tree = git.tree /\ git'.index = git.index
              /\ git'.head = git.head /\ git'.commits = git.commits
           \/ \E t \in Tasks : \/ WriteFile(t) \/ Stage(t) \/ Commit(t)
                               \/ ResetHard(t) \/ CleanWorktree(t)
<1>1. CASE UNCHANGED git
  BY <1>1
<1>2. ASSUME NEW t \in Tasks, Worker(t)
      PROVE  UNCHANGED git \/ WriteFile(t) \/ Stage(t) \/ Commit(t)
  BY <1>2 DEF Worker, WriteDenied, PublishPatch, Status, CommitFails, ReadHead, SetRevision,
              SaveRun, DiffAllowed, DiffDenied, PublishChange, GitFails, CheckDenied,
              ReadRevision, RunCheck, Scan, AssembleRelease, WorkerReturns, ChecksFailed,
              FailsAtOnce, dvars
<1>3. ASSUME NEW t \in Tasks, BeginWork(t) \/ SaveRollback(t) \/ FailRolledBack(t)
      PROVE  UNCHANGED git
  BY <1>3 DEF BeginWork, SaveRollback, FailRolledBack, dvars
<1>4. CASE MergeBranch \/ CrashWorkers
  BY <1>4 DEF MergeBranch, CrashWorkers
<1> QED
  BY <1>1, <1>2, <1>3, <1>4 DEF DNext, dvars

\* An integrator about to commit.
Committing(y) ==
    y \in Integrators /\ task[y].status = "RUNNING" /\ work[y].n \in {1, 2}

LEMMA CommittingStays ==
    ASSUME TypeInv, WaveOK, WorkspaceOK, DNext, NEW y \in Tasks, Committing(y)
    PROVE  Committing(y)' \/ Owes(y, 0)' \/ Commit(y)
           \/ (Status(y) /\ git.tree = HeadTree /\ git.index = HeadTree)
<1>1. Owes(y, 2)
  BY DEF Committing, Owes
<1>2. Capability[y] = "integrate_change" /\ y \in Integrators /\ task[y].status = "RUNNING"
  BY DEF Committing, Integrators
<1>3. CASE Owes(y, 2)'
  <2>1. CASE task'[y].status # "RUNNING"
    BY <1>3, <2>1 DEF Owes
  <2>2. CASE task'[y].status = "RUNNING" /\ (work'[y] = work[y] \/ work'[y].n = 0)
    BY <1>3, <2>2 DEF Owes, Committing
  <2>3. CASE Worker(y) /\ ~UNCHANGED dvars
    <3>1. UNCHANGED vars /\ (Status(y) \/ Commit(y))
      BY <1>2, <2>3, IntegratorStep DEF Committing
    <3> QED
      BY <1>2, <3>1, StatusMoves DEF Committing, vars
  <2> QED
    BY <2>1, <2>2, <2>3, PlacesKept DEF dvars
<1>4. CASE ~Owes(y, 2)'
  <2>1. UNCHANGED vars /\ Worker(y) /\ work'[y].n # work[y].n
    BY <1>1, <1>4, OwesStays
  <2>2. Status(y) \/ Commit(y)
    BY <1>2, <2>1, IntegratorStep DEF Committing, dvars
  <2> QED
    BY <1>2, <2>1, <2>2, StatusMoves DEF Committing, vars
<1> QED
  BY <1>3, <1>4

\* Steps that leave the engine and a worker alone leave what it owes.
LEMMA OwedBy ==
    ASSUME UNCHANGED vars, NEW y \in Tasks, work'[y] = work[y]
    PROVE  /\ \A k \in Nat : Owes(y, k) => Owes(y, k)'
           /\ Committing(y) => Committing(y)'
BY DEF vars, Owes, Committing

LEMMA TreeKept ==
    ASSUME OrderInv, Reintegrated, ChecksFollow, WorkspaceOK, TreeFollows, DNext
    PROVE  TreeFollows'
<1>0. TypeInv /\ WaveOK
  BY DEF OrderInv, SafeInv
<1>1. ASSUME NEW t \in Tasks, Midway(t)
      PROVE  TreeFollows'
  <2>1. git'.commits[1] = Base
    BY WorkspaceStep DEF WorkspaceOK
  <2> QED
    BY <1>0, <1>1, <2>1, MidwayStays DEF TreeFollows, HeadTree, AtBase
<1>2. ASSUME NEW t \in Tasks, WriteFile(t)
      PROVE  TreeFollows'
  <2>1. /\ pc = "wave" /\ Capability[t] = "apply_seed" /\ task[t].status = "RUNNING"
        /\ UNCHANGED vars /\ Step(t)
    BY <1>2 DEF WriteFile, Writing, Runs
  <2>2. PICK y \in Tasks : Owes(y, 0)
    BY <2>1, WriterOwed
  <2>3. y # t
    BY <2>1, <2>2 DEF Owes, Integrators
  <2> QED
    BY <2>1, <2>2, <2>3, StepOne, OwedBy DEF TreeFollows, WorkspaceOK
<1>3. ASSUME NEW t \in Tasks, Stage(t)
      PROVE  TreeFollows'
  <2>1. /\ UNCHANGED vars /\ work[t].n = 0 /\ task[t].status = "RUNNING"
        /\ Capability[t] = "integrate_change"
    BY <1>3 DEF Stage, Integrates, Runs
  <2>2. /\ git'.index = git'.tree /\ git'.tree = git.tree /\ HeadTree' = HeadTree
        /\ work'[t].n = 1 /\ \A u \in Tasks \ {t} : work'[u] = work[u]
    BY <1>3, <2>1, StageIndexes DEF HeadTree
  <2>3. ASSUME NEW y \in Tasks, Owes(y, 0)
        PROVE  TreeFollows'
    <3>1. CASE y = t
      BY <2>1, <2>2, <2>3, <3>1 DEF TreeFollows, Owes, vars
    <3>2. CASE y # t
      BY <2>1, <2>2, <2>3, <3>2, OwedBy DEF TreeFollows
    <3> QED
      BY <3>1, <3>2
  <2>4. ASSUME NEW y \in Integrators, task[y].status = "RUNNING", work[y].n \in {1, 2}
        PROVE  TreeFollows'
    <3>1. y \in Tasks /\ y # t
      BY <2>1, <2>4 DEF Integrators, Tasks
    <3> QED
      BY <2>1, <2>2, <2>4, <3>1 DEF TreeFollows, vars
  <2> QED
    BY <1>1, <2>2, <2>3, <2>4 DEF TreeFollows
<1>4. ASSUME NEW t \in Tasks, Commit(t)
      PROVE  TreeFollows'
  <2>1. /\ UNCHANGED vars /\ work[t].n = 2 /\ task[t].status = "RUNNING" /\ Step(t)
        /\ git.index # HeadTree
    BY <1>4 DEF Commit, Integrates, Runs
  <2>2. git'.tree = git.tree /\ git'.index = git.index /\ HeadTree' = git.index
    BY <1>4, CommitAppends DEF HeadTree
  <2>3. ASSUME NEW y \in Tasks, Owes(y, 0)
        PROVE  TreeFollows'
    <3>1. y # t
      BY <2>1, <2>3 DEF Owes
    <3> QED
      BY <2>1, <2>3, <3>1, StepOne, OwedBy DEF TreeFollows, WorkspaceOK
  <2> QED
    BY <1>1, <2>1, <2>2, <2>3 DEF TreeFollows
<1>5. ASSUME NEW t \in Tasks, ResetHard(t) \/ CleanWorktree(t)
      PROVE  TreeFollows'
  BY <1>1, <1>5, ResetterLost
<1>6. ASSUME git'.tree = git.tree, git'.index = git.index, HeadTree' = HeadTree,
             \A t \in Tasks : ~Stage(t) /\ ~Commit(t)
      PROVE  TreeFollows'
  <2>1. ASSUME NEW y \in Tasks, Owes(y, 0)
        PROVE  Owes(y, 0)'
    <3>1. ASSUME Worker(y), ~(work'[y].n <= 0), work[y].n <= 0
          PROVE  FALSE
      <4>1. Capability[y] = "integrate_change" /\ ~UNCHANGED dvars
        BY <2>1, <3>1 DEF Owes, Integrators, dvars
      <4>2. work[y].n = 0
        BY <3>1, PlaceType DEF WorkspaceOK
      <4>3. ~UNCHANGED vars
        BY <1>6, <3>1, <4>1, <4>2, IntegratorStep
      <4> QED
        BY <1>6, <3>1, <4>1, <4>2, <4>3, IntegratorStep
    <3> QED
      BY <1>0, <2>1, <3>1, OwesStays
  <2>2. ASSUME NEW y \in Integrators, task[y].status = "RUNNING", work[y].n \in {1, 2},
               ~(git.tree = HeadTree /\ git.index = HeadTree)
        PROVE  Committing(y)' \/ Owes(y, 0)'
    <3>1. y \in Tasks /\ Committing(y)
      BY <2>2 DEF Committing, Integrators, Tasks
    <3> QED
      BY <1>0, <1>6, <2>2, <3>1, CommittingStays
  <2>3. Integrators \subseteq Tasks
    BY DEF Integrators, Tasks
  <2> QED
    BY <1>1, <1>6, <2>1, <2>2, <2>3 DEF TreeFollows, Committing
<1> QED
  BY <1>2, <1>3, <1>4, <1>5, <1>6, TreeMoves DEF HeadTree

LEMMA TreeStep ==
    ASSUME OrderInv, DiedIn(RepairWindow) \/ Reintegrated, ChecksFollow, WorkspaceOK,
           DiedIn(RepairWindow) \/ TreeFollows, DNext
    PROVE  (DiedIn(RepairWindow) \/ TreeFollows)'
BY DeathsStay, TreeKept DEF OrderInv, SafeInv

\* Commits stay.
LEMMA CommitsGrow ==
    ASSUME WorkspaceOK, DNext
    PROVE  \A i \in DOMAIN git.commits : i \in DOMAIN git'.commits
                                          /\ git'.commits[i] = git.commits[i]
BY TreeMoves, WriteKeeps, StageIndexes, CommitAppends, ResetMoves, CleanMoves

\* Who files evidence.
LEMMA EvidenceMoves ==
    ASSUME WorkspaceOK, DNext
    PROVE  art'.evidence = art.evidence \/ \E t \in Tasks : RunCheck(t) \/ Scan(t)
<1>1. CASE UNCHANGED art
  BY <1>1
<1>2. ASSUME NEW t \in Tasks, Worker(t)
      PROVE  art'.evidence = art.evidence \/ RunCheck(t) \/ Scan(t)
  <2>1. CASE PublishPatch(t) \/ PublishChange(t) \/ AssembleRelease(t)
    BY <2>1, StepPublishes
  <2> QED
    BY <1>1, <1>2, <2>1
       DEF Worker, WriteFile, WriteDenied, Stage, Status, Commit, CommitFails, ReadHead,
           SetRevision, SaveRun, DiffAllowed, DiffDenied, GitFails, CheckDenied, ReadRevision,
           WorkerReturns, ChecksFailed, FailsAtOnce, dvars
<1>3. ASSUME NEW t \in Tasks, \/ BeginWork(t) \/ ResetHard(t) \/ CleanWorktree(t)
                             \/ SaveRollback(t) \/ FailRolledBack(t)
      PROVE  UNCHANGED art
  BY <1>3 DEF BeginWork, ResetHard, CleanWorktree, SaveRollback, FailRolledBack, dvars
<1>4. CASE MergeBranch \/ CrashWorkers
  BY <1>4 DEF MergeBranch, CrashWorkers
<1> QED
  BY <1>1, <1>2, <1>3, <1>4 DEF DNext, dvars

LEMMA Halves ==
    ASSUME NEW n \in Nat
    PROVE  /\ n % 2 = 1 => (n + 1) % 2 # 1 /\ (n + 1) \div 2 = n \div 2 + 1
           /\ n % 2 = 0 => (n + 1) % 2 = 1 /\ (n + 1) \div 2 = n \div 2
           /\ n % 2 \in {0, 1} /\ n \div 2 \in Nat
           /\ 0 % 2 # 1 /\ 0 \div 2 = 0 /\ (2 * n) \div 2 = n
OBVIOUS

LEMMA CheckerStep ==
    ASSUME NEW t \in Tasks, Capability[t] \in {"run_checks", "security_scan"}, Worker(t)
    PROVE  \/ ReadRevision(t) \/ RunCheck(t) \/ Scan(t)
           \/ UNCHANGED dvars
<1>1. ~(WriteFile(t) \/ WriteDenied(t) \/ PublishPatch(t) \/ Stage(t) \/ Status(t) \/ Commit(t)
          \/ CommitFails(t) \/ ReadHead(t) \/ SetRevision(t) \/ SaveRun(t) \/ DiffAllowed(t)
          \/ DiffDenied(t) \/ PublishChange(t) \/ AssembleRelease(t))
  BY DEF WriteFile, WriteDenied, Writing, PublishPatch, Stage, Status, Commit, CommitFails,
         ReadHead, SetRevision, SaveRun, DiffAllowed, DiffDenied, PublishChange,
         Integrates, AssembleRelease, Runs
<1> QED
  BY <1>1 DEF Worker, GitFails, CheckDenied, WorkerReturns, ChecksFailed, FailsAtOnce

\* A check that reads has read just now or has done so before.
LEMMA ReadsMoves ==
    ASSUME TypeInv, WaveOK, WorkspaceOK, DNext, NEW t \in Tasks, Reads(t)'
    PROVE  \/ ReadRevision(t)
           \/ Reads(t) /\ work'[t] = work[t] /\ ~CrashWorkers
<1>1. Capability[t] = "run_checks" /\ task'[t].status = "RUNNING" /\ work'[t].n % 2 = 1
  BY DEF Reads
<1>2. work'[t].n # 0
  BY <1>1, Halves
<1>3. task[t].status = "RUNNING"
  BY <1>1, <1>2, WorkBegun
<1>4. ~CrashWorkers
  BY <1>2, CrashForgets
<1>5. CASE work'[t] = work[t]
  BY <1>1, <1>3, <1>4, <1>5 DEF Reads
<1>6. CASE Worker(t) /\ work'[t] # work[t]
  <2>1. ~RunCheck(t)
    <3>1. RunCheck(t) => work[t].n % 2 = 1 /\ work'[t].n = work[t].n + 1
      BY CheckPublishes DEF RunCheck
    <3>2. work[t].n \in Nat
      BY PlaceType DEF WorkspaceOK
    <3> QED
      BY <1>1, <3>1, <3>2, Halves
  <2>2. ~Scan(t)
    BY <1>1 DEF Scan, Runs
  <2> QED
    BY <1>1, <1>6, <2>1, <2>2, CheckerStep DEF dvars
<1> QED
  BY <1>2, <1>5, <1>6, PlacesKept

LEMMA KnownRevisionsStep ==
    ASSUME TypeInv, WaveOK, WorkspaceOK, ReleaseDelivers, RevisionsKnown, DNext
    PROVE  RevisionsKnown'
<1>0. git'.head \in DOMAIN git'.commits /\ git.head \in DOMAIN git.commits
      /\ 1 \in DOMAIN git'.commits
  BY WorkspaceStep DEF WorkspaceOK, GitRow
<1>1. rev' \in DOMAIN git'.commits /\ saved' \in DOMAIN git'.commits
  <2>1. ASSUME NEW t \in Tasks, SetRevision(t)
        PROVE  rev' \in DOMAIN git.commits /\ saved' = saved
    <3>1. Setting(t)
      BY <2>1, WhoIntegrates DEF SetRevision, Integrates, Runs, Setting
    <3> QED
      BY <2>1, <3>1, RevisionSet DEF RevisionsKnown
  <2>2. ASSUME NEW t \in Tasks, SaveRun(t) \/ SaveRollback(t)
        PROVE  rev' \in {rev, 1} /\ saved' \in {rev, 1}
    BY <2>2, RunSaved DEF SaveRollback
  <2>3. CrashWorkers => rev' = saved /\ saved' = saved
    BY DEF CrashWorkers
  <2> QED
    BY <1>0, <2>1, <2>2, <2>3, DeliveryMoves, CommitsGrow DEF RevisionsKnown
<1>2. ASSUME NEW e \in art'.evidence
      PROVE  e.rev \in DOMAIN git'.commits
  <2>1. CASE e \in art.evidence
    BY <2>1, CommitsGrow DEF RevisionsKnown
  <2>2. ASSUME NEW t \in Tasks, RunCheck(t), e \notin art.evidence
        PROVE  e.rev \in DOMAIN git.commits
    <3>1. e.rev = work[t].saw
      BY <1>2, <2>2, CheckPublishes DEF Evidence
    <3>2. Reads(t)
      BY <2>2 DEF RunCheck, Runs, Reads
    <3> QED
      BY <3>1, <3>2 DEF RevisionsKnown
  <2>3. ASSUME NEW t \in Tasks, Scan(t), e \notin art.evidence
        PROVE  e.rev \in DOMAIN git.commits
    BY <1>2, <2>3, ScanPublishes DEF Evidence, RevisionsKnown
  <2> QED
    BY <1>2, <2>1, <2>2, <2>3, EvidenceMoves, CommitsGrow
<1>3. ASSUME NEW t \in Tasks, Reads(t)'
      PROVE  pc' = "wave" /\ work'[t].saw \in DOMAIN git'.commits
  <2>1. CASE ReadRevision(t)
    <3>1. work'[t].saw = git.head /\ pc = "wave" /\ UNCHANGED vars
      BY <2>1, RevisionRead DEF ReadRevision, TurnsTo, Runs
    <3> QED
      BY <1>0, <3>1, CommitsGrow DEF vars
  <2>2. CASE Reads(t) /\ work'[t] = work[t] /\ ~CrashWorkers
    BY <2>2, WaveGoesOn, CommitsGrow DEF RevisionsKnown, Reads
  <2> QED
    BY <1>3, <2>1, <2>2, ReadsMoves
<1>4. ASSUME NEW t \in Tasks, Setting(t)'
      PROVE  work'[t].saw \in DOMAIN git'.commits
  <2>1. CASE ReadHead(t)
    BY <1>0, <2>1, HeadRead, CommitsGrow
  <2>2. CASE Setting(t) /\ work'[t] = work[t]
    BY <2>2, CommitsGrow DEF RevisionsKnown
  <2> QED
    BY <1>4, <2>1, <2>2, SettingMoves
<1> QED
  BY <1>1, <1>2, <1>3, <1>4 DEF RevisionsKnown

Reading == \A t \in Tasks : Reads(t) => ReadingOne(t)

RollbackWindow == {"failures"} \cup RepairWindow

TreeInv == DiedIn(RepairWindow) \/ TreeFollows

SeenInv ==
    /\ RevisionsKnown
    /\ DiedIn(RollbackWindow) \/ Reading
    /\ InTurn => CheckedAsCommitted

\* With no repair under way nobody writes while a check runs.
LEMMA NobodyWrites ==
    ASSUME OrderInv, ChecksFollow, Quiescent, NEW t \in Tasks,
           Capability[t] \in {"run_checks", "security_scan"}, task[t].status = "RUNNING",
           NEW w \in Tasks
    PROVE  ~WriteFile(w)
<1> SUFFICES ASSUME WriteFile(w) PROVE FALSE
  OBVIOUS
<1>1. Capability[w] = "apply_seed" /\ task[w].status = "RUNNING"
  BY DEF WriteFile, Writing, Runs
<1>2. w \notin RepairTasks
  BY <1>1 DEF Quiescent
<1>3. w \in PlanTasks
  BY <1>1, <1>2 DEF ChecksFollow
<1> QED
  BY <1>1, <1>3, WritersDone

LEMMA QuietWave ==
    ASSUME TypeInv, WaveOK, DNext, pc = "wave", Quiescent
    PROVE  Quiescent'
<1> SUFFICES ASSUME NEW r \in RepairTasks \cup ReintegrateTasks
             PROVE  task'[r].status \in {"ABSENT", "SUCCEEDED"}
  BY DEF Quiescent
<1>1. r \in Tasks /\ task[r].status \in {"ABSENT", "SUCCEEDED"}
  BY DEF Tasks, Quiescent
<1>2. ~BeginWork(r)
  BY <1>1 DEF BeginWork, StartTask, Taken, WaveOK
<1> QED
  BY <1>1, <1>2, OwnWorker, WorkerPlace

LEMMA ReadingStep ==
    ASSUME OrderInv, ChecksFollow, WorkspaceOK, RevisionsKnown, TreeFollows, Reading, DNext,
           ~DiedIn({"failures"})
    PROVE  Reading'
<1> SUFFICES ASSUME NEW t \in Tasks, Reads(t)', work'[t].quiet
             PROVE  Quiescent' /\ git'.tree = git'.commits[work'[t].saw]
  BY DEF Reading, ReadingOne
<1>0. TypeInv /\ WaveOK
  BY DEF OrderInv, SafeInv
<1>1. CASE ReadRevision(t)
  <2>1. /\ Quiescent /\ work'[t].saw = git.head /\ UNCHANGED <<git, task>>
        /\ Capability[t] = "run_checks" /\ task[t].status = "RUNNING" /\ pc = "wave"
    BY <1>1, RevisionRead DEF ReadRevision, TurnsTo, Runs, vars
  <2>2. git.tree = HeadTree
    BY <2>1, CheckedTree DEF Quiescent, Midway
  <2> QED
    BY <2>1, <2>2 DEF Quiescent, HeadTree
<1>2. CASE Reads(t) /\ work'[t] = work[t] /\ ~CrashWorkers
  <2>1. /\ pc = "wave" /\ work[t].saw \in DOMAIN git.commits
        /\ Quiescent /\ git.tree = git.commits[work[t].saw]
        /\ Capability[t] = "run_checks" /\ task[t].status = "RUNNING"
    BY <1>2 DEF RevisionsKnown, Reading, ReadingOne, Reads
  <2>2. Quiescent'
    BY <1>0, <2>1, QuietWave
  <2>3. git'.tree = git.tree
    <3>1. ASSUME NEW w \in Tasks
          PROVE  ~WriteFile(w) /\ ~ResetHard(w) /\ ~CleanWorktree(w)
      BY <2>1, NobodyWrites, ResetterLost
    <3> QED
      BY <3>1, TreeMoves, StageIndexes, CommitAppends
  <2>4. git'.commits[work[t].saw] = git.commits[work[t].saw]
    BY <2>1, CommitsGrow
  <2> QED
    BY <1>2, <2>1, <2>2, <2>3, <2>4
<1> QED
  BY <1>0, <1>1, <1>2, ReadsMoves

\* A death in a window is a death in a wider one.
LEMMA DeathsWiden ==
    ASSUME NEW V, NEW W, V \subseteq W, DiedIn(V)
    PROVE  DiedIn(W)
BY DEF DiedIn

\* In a plan whose integrators are all waited for the scan files its verdict
\* under the head.
LEMMA RevisionIsHead ==
    ASSUME OrderInv, ChecksFollow, RevisionFollows, NEW t \in Tasks,
           Capability[t] \in {"run_checks", "security_scan"}, task[t].status = "RUNNING",
           \A y \in ReintegrateTasks : task[y].status \in {"ABSENT", "SUCCEEDED"}
    PROVE  rev = git.head \/ \E u \in Tasks : Midway(u)
<1>1. \A y \in Tasks : ~Owes(y, 3) /\ ~Setting(y) /\ ~Saving(y)
  BY IntegratorsDone
<1> QED
  BY <1>1 DEF RevisionFollows

LEMMA CheckedStep ==
    ASSUME OrderInv, ChecksFollow, WorkspaceOK, RevisionFollows, TreeInv, SeenInv, InTurn, DNext
    PROVE  CheckedAsCommitted'
<1> SUFFICES ASSUME NEW e \in art'.evidence, e.quiet, ~DiedIn(RollbackWindow)'
             PROVE  e.on = git'.commits[e.rev]
  BY DEF CheckedAsCommitted, RollbackWindow
<1>0. TypeInv /\ WaveOK
  BY DEF OrderInv, SafeInv
<1>1. ~DiedIn(RollbackWindow) /\ ~DiedIn(RepairWindow) /\ ~DiedIn({"failures"})
  <2>1. ~DiedIn(RollbackWindow)
    BY <1>0, DeathsStay
  <2> QED
    BY <2>1, DeathsWiden DEF RollbackWindow
<1>2. RevisionsKnown /\ TreeFollows /\ Reading /\ CheckedAsCommitted
  BY <1>1 DEF SeenInv, TreeInv
<1>3. CASE e \in art.evidence
  <2>1. e.on = git.commits[e.rev] /\ e.rev \in DOMAIN git.commits
    BY <1>1, <1>2, <1>3 DEF CheckedAsCommitted, RevisionsKnown, RollbackWindow
  <2> QED
    BY <2>1, CommitsGrow
<1>4. ASSUME NEW t \in Tasks, RunCheck(t), e \notin art.evidence
      PROVE  e.on = git'.commits[e.rev]
  <2>1. /\ e.rev = work[t].saw /\ e.on = git.tree /\ e.quiet = work[t].quiet
        /\ UNCHANGED git
    <3> DEFINE check == NextCheck(t)
    <3>1. PICK passed : art'.evidence =
                  art.evidence \cup {Evidence(check, passed, work[t].saw, work[t].quiet)}
      BY <1>4, CheckPublishes
    <3> HIDE DEF check
    <3>2. e = Evidence(check, passed, work[t].saw, work[t].quiet)
      BY <1>4, <3>1
    <3>3. UNCHANGED git
      BY <1>4 DEF RunCheck
    <3> QED
      BY <3>2, <3>3 DEF Evidence
  <2>2. Reads(t)
    BY <1>4 DEF RunCheck, Runs, Reads
  <2> QED
    BY <1>2, <2>1, <2>2 DEF Reading, ReadingOne
<1>5. ASSUME NEW t \in Tasks, Scan(t), e \notin art.evidence
      PROVE  e.on = git'.commits[e.rev]
  <2>1. e.rev = rev /\ e.on = git.tree /\ Quiescent /\ UNCHANGED git
    BY <1>5, ScanPublishes DEF Evidence
  <2>2. pc = "wave" /\ Capability[t] = "security_scan" /\ task[t].status = "RUNNING"
    BY <1>5 DEF Scan, Runs
  <2>3. git.tree = HeadTree
    BY <1>1, <1>2, <2>1, <2>2, CheckedTree DEF Quiescent, Midway
  <2>4. rev = git.head
    BY <1>1, <1>2, <2>1, <2>2, RevisionIsHead DEF Quiescent, Midway
  <2> QED
    BY <2>1, <2>3, <2>4 DEF HeadTree
<1> QED
  BY <1>3, <1>4, <1>5, EvidenceMoves

LEMMA SeenStep ==
    ASSUME OrderInv, RepairsLinked, ReleaseDelivers, ChecksFollow, WorkspaceOK, FollowInv,
           TreeInv, SeenInv, [DNext]_<<vars, dvars>>
    PROVE  SeenInv'
<1>0. TypeInv /\ WaveOK
  BY DEF OrderInv, SafeInv
<1>1. CASE UNCHANGED <<vars, dvars>>
  <2>1. UNCHANGED <<task, pc, died, git, rev, saved, art, work>>
    BY <1>1 DEF vars, dvars
  <2> QED
    BY <2>1 DEF SeenInv, RevisionsKnown, Setting, Reads, Reading, ReadingOne, Quiescent,
                InTurn, NoneRepaired, CheckedAsCommitted, DiedIn
<1>2. CASE DNext
  <2>1. RevisionsKnown'
    BY <1>0, <1>2, KnownRevisionsStep DEF SeenInv
  <2>2. InTurn' => CheckedAsCommitted'
    BY <1>0, <1>2, NoneBefore, CheckedStep DEF InTurn, FollowInv
  <2>3. CASE DiedIn(RollbackWindow)
    BY <1>0, <1>2, <2>1, <2>2, <2>3, DeathsStay DEF SeenInv
  <2>4. CASE ~DiedIn(RollbackWindow)
    <3>1. ~DiedIn(RepairWindow) /\ ~DiedIn({"failures"})
      BY <2>4, DeathsWiden DEF RollbackWindow
    <3>2. Reading'
      BY <1>2, <2>4, <3>1, ReadingStep DEF SeenInv, TreeInv
    <3> QED
      BY <2>1, <2>2, <3>2 DEF SeenInv
  <2> QED
    BY <2>3, <2>4
<1> QED
  BY <1>1, <1>2

LEMMA InitTree == DInit => TreeFollows
<1> SUFFICES ASSUME DInit PROVE TreeFollows
  OBVIOUS
<1>1. git.tree = Base /\ git.index = Base /\ git.commits = <<Base>> /\ git.head = 1
  BY DEF DInit
<1> QED
  BY <1>1 DEF TreeFollows, HeadTree

LEMMA InitSeen == DInit => SeenInv
<1> SUFFICES ASSUME DInit PROVE SeenInv
  OBVIOUS
<1>1. \A t \in Tasks : task[t].status = "ABSENT"
  BY DEF DInit, Init, NoTask, NewTask
<1>2. git.commits = <<Base>> /\ rev = 1 /\ saved = 1 /\ art.evidence = {}
  BY DEF DInit
<1> QED
  BY <1>1, <1>2 DEF SeenInv, RevisionsKnown, Setting, Reads, Reading, CheckedAsCommitted

LEMMA AlwaysFollowed ==
    ASSUME ChecksFollow
    PROVE  DSpec => []TreeInv
<1>1. OrderInv /\ RepairsLinked /\ WorkspaceOK /\ TreeInv /\ [DNext]_<<vars, dvars>>
        => TreeInv'
  <2> SUFFICES ASSUME OrderInv, RepairsLinked, WorkspaceOK, TreeInv, [DNext]_<<vars, dvars>>
               PROVE  TreeInv'
    OBVIOUS
  <2>1. CASE UNCHANGED <<vars, dvars>>
    <3>1. UNCHANGED <<run, task, pc, died, git, work>>
      BY <2>1 DEF vars, dvars
    <3> QED
      BY <3>1 DEF TreeInv, TreeFollows, HeadTree, Owes, Midway, RolledBack, Broken, CanRepair,
                  IsFirst, FailedTasks, DiedIn
  <2>2. CASE DNext
    BY <2>2, TreeStep DEF TreeInv, RepairsLinked
  <2> QED
    BY <2>1, <2>2
<1>2. DInit => TreeInv
  BY InitTree DEF TreeInv
<1> QED
  BY <1>1, <1>2, AlwaysOrdered, PTL DEF DSpec

LEMMA AlwaysSeen ==
    ASSUME ReleaseDelivers, IntegratorsInTurn, ChecksFollow
    PROVE  DSpec => []SeenInv
<1>1. OrderInv /\ RepairsLinked /\ WorkspaceOK /\ TurnInv /\ FollowInv /\ TreeInv /\ SeenInv
        /\ [DNext]_<<vars, dvars>> => SeenInv'
  BY SeenStep
<1>2. DSpec => [](TurnInv /\ FollowInv)
  BY AlwaysFollows
<1>3. DSpec => []TreeInv
  BY AlwaysFollowed
<1> QED
  BY <1>1, <1>2, <1>3, InitSeen, AlwaysOrdered, PTL DEF DSpec

\* Evidence is bound to the revision whose tree was looked at, in every plan
\* whose integrators wait for each other and whose checks wait for its writers
\* and integrators: unless it was gathered while a repair was under way, or
\* tick() was cut short in a rollback or within a repair; of a run with several
\* tasks to repair it is said until the first repair.
THEOREM ChecksSeeCommits ==
    ASSUME ReleaseDelivers, IntegratorsInTurn, ChecksFollow
    PROVE  /\ OneRepaired => (DSpec => []CheckedAsCommitted)
           /\ DSpec => [](NoneRepaired => CheckedAsCommitted)
<1>1. DSpec => []SeenInv
  BY AlwaysSeen
<1>2. OneRepaired => (DSpec => []CheckedAsCommitted)
  <2> SUFFICES ASSUME OneRepaired PROVE DSpec => []CheckedAsCommitted
    OBVIOUS
  <2>1. SeenInv => CheckedAsCommitted
    BY DEF SeenInv, InTurn
  <2> QED
    BY <1>1, <2>1, PTL
<1>3. SeenInv => (NoneRepaired => CheckedAsCommitted)
  BY DEF SeenInv, InTurn
<1>4. DSpec => [](NoneRepaired => CheckedAsCommitted)
  BY <1>1, <1>3, PTL
<1> QED
  BY <1>2, <1>4

-------------------------------------------------------------------------------
(* The fallback of a task *)

\* The rows that keep their fallback, which says what their task is told to
\* write or check: all but the one whose fallback is taken.
Denied(t) == task[t].status = "FAILED" /\ task[t].class = "policy_denied"

FallbackKept(t) ==
    task[t].status = "ABSENT" \/ Denied(t) \/ task'[t].fallback = task[t].fallback

LEMMA SavedFallback ==
    ASSUME TypeInv, NEW t \in Tasks, NEW u \in Tasks, NEW row, Save(u, row),
           task[u].status = "ABSENT" \/ Denied(u) \/ row.fallback = task[u].fallback
    PROVE  FallbackKept(t)
BY SaveOne DEF FallbackKept

\* The other updates of a row leave its fallback alone.
LEMMA FallbackField ==
    ASSUME TypeInv, NEW u \in Tasks
    PROVE  /\ [task[u] EXCEPT !.cleared = TRUE].fallback = task[u].fallback
           /\ [task[u] EXCEPT !.status = "PENDING"].fallback = task[u].fallback
           /\ [task[u] EXCEPT !.status = "PENDING",
                              !.attempts = Refunded(task[u].attempts)].fallback = task[u].fallback
           /\ [task[u] EXCEPT !.status = "RUNNING",
                              !.attempts = task[u].attempts + 1].fallback = task[u].fallback
           /\ [task[u] EXCEPT !.status = "SUCCEEDED", !.class = "none"].fallback = task[u].fallback
           /\ \A class : [task[u] EXCEPT !.status = "FAILED",
                                         !.class = class].fallback = task[u].fallback
           /\ \A again : [task[u] EXCEPT !.status = "PENDING", !.attempts = 0, !.class = "none",
                              !.deps = task[u].deps \cup {again}].fallback = task[u].fallback
<1>1. task[u] \in TaskRow
  BY RowType DEF TypeInv
<1> QED
  BY <1>1 DEF TaskRow

LEMMA FallbackMoves ==
    ASSUME TypeInv, Next, NEW t \in Tasks
    PROVE  FallbackKept(t)
<1>1. ASSUME UNCHANGED task
      PROVE  FallbackKept(t)
  BY <1>1 DEF FallbackKept
<1>2. ASSUME task' = Materialized
      PROVE  FallbackKept(t)
  BY <1>2 DEF Materialized, FallbackKept
<1>3. CASE BeginTick \/ Resume
  <2>1. CASE ClearGate
    <3> DEFINE u == approvals[hand].task
               new == [task[u] EXCEPT !.cleared = TRUE]
    <3>1. u \in Tasks
      BY <2>1, ApprovalRow DEF ClearGate, Goto, TypeInv, TypeOK, PlaceOK
    <3>2. Save(u, new)
      BY <2>1 DEF ClearGate
    <3>3. new.fallback = task[u].fallback
      BY <3>1, FallbackField
    <3> HIDE DEF u, new
    <3> QED
      BY <3>1, <3>2, <3>3, SavedFallback
  <2> QED
    BY <1>1, <1>3, <2>1
       DEF BeginTick, Resume, ConsumeApproved, ConsumeRefused, Promote,
           SavePromoted, SaveReviewReady, Proceed
<1>4. CASE Loop
  <2>1. CASE Schedule \/ Blocked \/ Finalize
    BY <1>2, <2>1 DEF Schedule, Blocked, Finalize, Scheduling, NothingReady
  <2> QED
    BY <1>1, <1>4, <2>1
       DEF Loop, NextWave, WithinBudget, WavesExhausted, TimeExhausted, MaterializeRaises
<1>5. CASE WaveDone \/ CountRepair \/ FailuresHandled \/ SavePause \/ GatesDone
  BY <1>1, <1>2, <1>5 DEF WaveDone, CountRepair, FailuresHandled, SavePause, GatesDone
<1>6. ASSUME NEW u \in Tasks, SaveBootstrapTask(u) \/ RecoverTask(u)
      PROVE  FallbackKept(t)
  <2>1. CASE SaveBootstrapTask(u)
    BY <2>1, SavedFallback DEF SaveBootstrapTask, IsFirst, Missing
  <2>2. CASE RecoverTask(u)
    BY <2>2, SavedFallback, FallbackField DEF RecoverTask
  <2> QED
    BY <1>6, <2>1, <2>2
<1>7. ASSUME NEW u \in Tasks, Execute(u)
      PROVE  FallbackKept(t)
  <2>1. CASE StartTask(u)
    BY <2>1, SavedFallback, FallbackField DEF StartTask
  <2>2. CASE TaskSucceeds(u)
    BY <2>2, SavedFallback, FallbackField DEF TaskSucceeds
  <2>3. CASE \E class \in FailureClass : TaskFails(u, class)
    BY <2>3, SavedFallback, FallbackField DEF TaskFails
  <2> QED
    BY <1>7, <2>1, <2>2, <2>3 DEF Execute
<1>8. ASSUME NEW u \in Tasks, HandleFailure(u)
      PROVE  FallbackKept(t)
  <2>1. CASE Retry(u)
    BY <2>1, SavedFallback, FallbackField DEF Retry
  <2>2. CASE TakeFallback(u)
    BY <2>2, SavedFallback DEF TakeFallback, Failed, IsFirst, FailedTasks, Denied
  <2>3. CASE SaveRepair(u)
    BY <2>3, SavedFallback, RepairNumber, RepairNames DEF SaveRepair, CanRepair, TypeInv
  <2>4. CASE SaveReintegrate(u)
    <3>1. Reintegrate[NextRepair] \in Tasks
      BY <2>4, RepairNumber, RepairNames
         DEF SaveReintegrate, CanRepair, TypeInv, PlaceOK, Goto
    <3> QED
      BY <2>4, <3>1, SavedFallback DEF SaveReintegrate
  <2>5. CASE Rewire(u)
    BY <2>5, SavedFallback, FallbackField DEF Rewire
  <2> QED
    BY <1>1, <1>8, <2>1, <2>2, <2>3, <2>4, <2>5
       DEF HandleFailure, RetriesExhausted, NoFallback, RepairCollides, Rollback, NoRepair
<1>9. ASSUME NEW u \in Tasks, ProcessGate(u)
      PROVE  FallbackKept(t)
  BY <1>1, <1>9, SavedFallback, FallbackField DEF ProcessGate, RequestApproval, GateDenied, GateAllowed
<1>10. CASE Approver \/ Crash
  BY <1>1, <1>10 DEF Approver, Resolve, Crash, durable
<1> QED
  BY <1>3, <1>4, <1>5, <1>6, <1>7, <1>8, <1>9, <1>10 DEF Next, Process

\* What a task at work, or done with it, is told to check stays the same.
LEMMA SameChecks ==
    ASSUME TypeInv, DNext, NEW t \in Tasks, task[t].status \in {"RUNNING", "SUCCEEDED"}
    PROVE  CheckList(t)' = CheckList(t) /\ RequiredOf(t)' = RequiredOf(t)
<1>1. task'[t].fallback = task[t].fallback
  <2>1. CASE UNCHANGED vars
    BY <2>1 DEF vars
  <2>2. CASE Next
    BY <2>2, FallbackMoves DEF FallbackKept, Denied
  <2> QED
    BY <2>1, <2>2, DeliveryStep
<1> QED
  BY <1>1 DEF CheckList, RequiredOf

-------------------------------------------------------------------------------
(* What the evidence of a run without repairs is about *)

Passed(check) ==
    \E e \in art.evidence : e.check = check /\ e.passed /\ e.rev = git.head

\* Nothing has been, or is to be, repaired or rolled back.
NothingRepaired ==
    /\ \A n \in 1..MaxRepairs : task[Reintegrate[n]].status = "ABSENT"
    /\ \A t \in Tasks : ~RolledBack(t)

\* A check that is not required counts for nothing.
Holds(check) == check \in Optional \/ Passed(check)

\* What t has found out it has found out about the head.
VerdictsCount(t) ==
    /\ task[t].status = "SUCCEEDED" => \A check \in RequiredOf(t) : Passed(check)
    /\ Reads(t) => work[t].saw = git.head
    /\ Capability[t] = "run_checks" /\ task[t].status = "RUNNING" =>
          work[t].bad \/ \A i \in 1..(work[t].n \div 2) : Holds(CheckList(t)[i])
    /\ Capability[t] = "security_scan" /\ task[t].status = "RUNNING" /\ work[t].n = 1 =>
          work[t].bad \/ Passed("security_scan")

FirstVerdicts == NothingRepaired => \A t \in Checkers : VerdictsCount(t)

LEMMA RepairedStays ==
    ASSUME TypeInv, WaveOK, DNext, NothingRepaired'
    PROVE  NothingRepaired /\ \A y \in ReintegrateTasks : task[y].status = "ABSENT"
<1>1. ASSUME NEW n \in 1..MaxRepairs
      PROVE  task[Reintegrate[n]].status = "ABSENT"
  <2>1. Reintegrate[n] \in Tasks
    BY DEF Tasks, ReintegrateTasks
  <2>2. CASE Next
    BY <2>1, <2>2, DependenciesGrow DEF NothingRepaired
  <2>3. CASE UNCHANGED vars
    BY <2>3 DEF NothingRepaired, vars
  <2> QED
    BY <2>2, <2>3, DeliveryStep
<1>2. \A t \in Tasks : ~RolledBack(t)
  BY LostStays DEF NothingRepaired
<1> QED
  BY <1>1, <1>2 DEF NothingRepaired, ReintegrateTasks

LEMMA EvidenceGrows ==
    ASSUME WorkspaceOK, DNext
    PROVE  art.evidence \subseteq art'.evidence
BY EvidenceMoves, CheckPublishes, ScanPublishes

\* The verdict of one check.
LEMMA CheckCounts ==
    ASSUME WorkspaceOK, NEW t \in Tasks, RunCheck(t), VerdictsCount(t)
    PROVE  work'[t].bad \/ \A i \in 1..(work'[t].n \div 2) : Holds(CheckList(t)[i])'
<1> DEFINE n == work[t].n
           check == NextCheck(t)
<1>0. CheckList(t)' = CheckList(t) /\ check = CheckList(t)[n \div 2 + 1]
  BY DEF RunCheck, CheckList, NextCheck, vars
<1> HIDE DEF check
<1>1. PICK passed :
        /\ art'.evidence = art.evidence \cup {Evidence(check, passed, work[t].saw, work[t].quiet)}
        /\ work'[t].bad = (work[t].bad \/ (~passed /\ check \notin Optional))
  BY CheckPublishes DEF check
<1>2. /\ work'[t].n = n + 1 /\ n % 2 = 1 /\ Reads(t) /\ UNCHANGED git
      /\ Capability[t] = "run_checks" /\ task[t].status = "RUNNING"
  BY CheckPublishes DEF RunCheck, Runs, Reads
<1>3. n \in Nat /\ work[t].saw = git.head
  BY <1>2, PlaceType DEF WorkspaceOK, VerdictsCount
<1>4. work'[t].n \div 2 = n \div 2 + 1 /\ n \div 2 \in Nat
  BY <1>2, <1>3, Halves
<1> SUFFICES ASSUME ~work'[t].bad, NEW i \in 1..(work'[t].n \div 2)
             PROVE  Holds(CheckList(t)[i])'
  OBVIOUS
<1>5. CASE i \in 1..(n \div 2)
  <2>1. Holds(CheckList(t)[i])
    BY <1>1, <1>2, <1>5 DEF VerdictsCount
  <2> QED
    BY <1>0, <1>1, <1>2, <2>1 DEF Holds, Passed
<1>6. CASE i = n \div 2 + 1
  <2>0. CheckList(t)'[i] = check
    BY <1>0, <1>6
  <2>1. CASE check \in Optional
    BY <2>0, <2>1 DEF Holds
  <2>2. CASE check \notin Optional
    <3> DEFINE e == Evidence(check, passed, work[t].saw, work[t].quiet)
    <3>1. e.check = check /\ e.rev = git.head /\ e.passed = passed
      BY <1>3 DEF Evidence
    <3>2. passed
      BY <1>1, <2>2
    <3>3. e \in art'.evidence /\ git'.head = git.head
      BY <1>1, <1>2
    <3>4. e.passed
      BY <3>1, <3>2
    <3> HIDE DEF e
    <3> QED
      BY <2>0, <3>1, <3>3, <3>4 DEF Holds, Passed
  <2> QED
    BY <2>1, <2>2
<1> QED
  BY <1>4, <1>5, <1>6

LEMMA ScanCounts ==
    ASSUME WorkspaceOK, NEW t \in Tasks, Scan(t), rev = git.head
    PROVE  work'[t].bad \/ Passed("security_scan")'
<1>1. PICK passed :
        /\ art'.evidence = art.evidence \cup {Evidence("security_scan", passed, rev, Quiescent)}
        /\ work'[t].bad = ~passed
  BY ScanPublishes
<1>2. UNCHANGED git
  BY DEF Scan
<1> SUFFICES ASSUME ~work'[t].bad PROVE Passed("security_scan")'
  OBVIOUS
<1> DEFINE e == Evidence("security_scan", passed, rev, Quiescent)
<1>3. e.check = "security_scan" /\ e.rev = git.head /\ e.passed = passed
  BY DEF Evidence
<1>4. passed
  BY <1>1
<1>5. e \in art'.evidence /\ git'.head = git.head
  BY <1>1, <1>2
<1>6. e.passed
  BY <1>3, <1>4
<1> HIDE DEF e
<1> QED
  BY <1>3, <1>5, <1>6 DEF Passed

\* A worker that returns has all its verdicts.
LEMMA ReturnsPassed ==
    ASSUME NEW t \in Checkers, VerdictsCount(t), WorkerReturns(t), task[t].status = "RUNNING"
    PROVE  \A check \in RequiredOf(t) : Passed(check)
<1>1. ~work[t].bad /\ work[t].n = Steps(t)
  BY DEF WorkerReturns
<1>2. CASE Capability[t] = "security_scan"
  <2>1. work[t].n = 1
    BY <1>1, <1>2 DEF Steps
  <2> QED
    BY <1>1, <1>2, <2>1 DEF VerdictsCount, RequiredOf
<1>3. CASE Capability[t] = "run_checks"
  <2>1. t \in Tasks
    BY DEF Checkers, Tasks
  <2>2. CheckList(t) \in Seq(STRING)
    BY <1>3, <2>1, WorkspaceAssumption DEF CheckList
  <2>3. Len(CheckList(t)) \in Nat /\ DOMAIN CheckList(t) = 1..Len(CheckList(t))
    BY <2>2
  <2>4. work[t].n = 2 * Len(CheckList(t))
    BY <1>1, <1>3 DEF Steps
  <2>5. work[t].n \div 2 = Len(CheckList(t))
    BY <2>3, <2>4, Halves
  <2>6. \A i \in DOMAIN CheckList(t) : Holds(CheckList(t)[i])
    BY <1>1, <1>3, <2>3, <2>5 DEF VerdictsCount
  <2>7. RequiredOf(t) = {CheckList(t)[i] : i \in DOMAIN CheckList(t)} \ Optional
    BY <1>3 DEF RequiredOf
  <2> QED
    BY <2>6, <2>7 DEF Holds
<1> QED
  BY <1>2, <1>3 DEF Checkers

\* The head moves only while no check has said anything yet.
LEMMA HeadRests ==
    ASSUME OrderInv, ReleaseDelivers, ChecksFollow, WorkspaceOK, DNext,
           \A y \in ReintegrateTasks : task[y].status = "ABSENT",
           \A u \in Tasks : ~RolledBack(u)', NEW t \in Checkers,
           task'[t].status \in {"RUNNING", "SUCCEEDED"}
    PROVE  git'.head = git.head
<1>1. ASSUME NEW u \in Tasks, Commit(u)
      PROVE  FALSE
  <2>1. /\ UNCHANGED vars /\ task[u].status = "RUNNING" /\ u \in Integrators
    BY <1>1 DEF Commit, Integrates, Runs, ReleaseDelivers, Integrators, Tasks
  <2>2. /\ t \in Tasks /\ Capability[t] \in {"run_checks", "security_scan"}
        /\ task[t].status \in {"RUNNING", "SUCCEEDED"}
    BY <2>1 DEF Checkers, Tasks, vars
  <2> QED
    BY <2>1, <2>2, IntegratorsDone
<1>2. \A u \in Tasks : ~ResetHard(u)
  BY ResetterLost
<1> QED
  BY <1>1, <1>2, DeliveryMoves

LEMMA VerdictsStep ==
    ASSUME OrderInv, ReleaseDelivers, ChecksFollow, WorkspaceOK, FollowInv, FirstVerdicts,
           DNext
    PROVE  FirstVerdicts'
<1> SUFFICES ASSUME NothingRepaired', NEW t \in Checkers
             PROVE  VerdictsCount(t)'
  BY DEF FirstVerdicts, Checkers
<1>0. /\ TypeInv /\ WaveOK /\ t \in Tasks
      /\ Capability[t] \in {"run_checks", "security_scan"}
  BY DEF OrderInv, SafeInv, Checkers, Tasks
<1>1. /\ VerdictsCount(t) /\ \A y \in ReintegrateTasks : task[y].status = "ABSENT"
      /\ \A u \in Tasks : ~RolledBack(u) /\ ~RolledBack(u)'
      /\ RevisionFollows
  BY <1>0, RepairedStays
     DEF FirstVerdicts, NothingRepaired, FollowInv, InTurn, NoneRepaired
<1>2. CASE task'[t].status \notin {"RUNNING", "SUCCEEDED"}
  BY <1>2 DEF VerdictsCount, Reads
<1>3. CASE task'[t].status \in {"RUNNING", "SUCCEEDED"}
  <2>0. git'.head = git.head
    BY <1>1, <1>3, HeadRests
  <2>1. \A check : Passed(check) => Passed(check)'
    BY <2>0, EvidenceGrows DEF Passed
  <2>2. task'[t].status = "SUCCEEDED" => \A check \in RequiredOf(t)' : Passed(check)'
    <3>1. CASE task[t].status = "SUCCEEDED"
      <4>1. RequiredOf(t)' = RequiredOf(t)
        BY <1>0, <3>1, SameChecks
      <4> QED
        BY <1>1, <2>1, <3>1, <4>1 DEF VerdictsCount
    <3>2. CASE task[t].status # "SUCCEEDED" /\ task'[t].status = "SUCCEEDED"
      <4>1. WorkerReturns(t) /\ task[t].status = "RUNNING"
        BY <1>0, <3>2, WorkEnded
      <4>2. RequiredOf(t)' = RequiredOf(t)
        BY <1>0, <4>1, SameChecks
      <4> QED
        BY <1>1, <2>1, <4>1, <4>2, ReturnsPassed
    <3> QED
      BY <3>1, <3>2
  <2>3. Reads(t)' => work'[t].saw = git'.head
    <3>1. ReadRevision(t) => work'[t].saw = git.head
      BY <1>0, RevisionRead
    <3>2. Reads(t) /\ work'[t] = work[t] => work'[t].saw = git.head
      BY <1>1 DEF VerdictsCount
    <3> QED
      BY <1>0, <2>0, <3>1, <3>2, ReadsMoves
  <2>4. ASSUME Capability[t] = "run_checks", task'[t].status = "RUNNING"
        PROVE  work'[t].bad \/ \A i \in 1..(work'[t].n \div 2) : Holds(CheckList(t)[i])'
    <3>0. /\ \A check : Holds(check) => Holds(check)'
          /\ task[t].status = "RUNNING" => CheckList(t)' = CheckList(t)
      BY <1>0, <2>1, SameChecks DEF Holds
    <3>1. CASE work'[t].n = 0
      <4>1. work'[t].n \div 2 = 0
        BY <3>1, Halves
      <4> QED
        BY <4>1
    <3>2. CASE task[t].status = "RUNNING" /\ work'[t] = work[t]
      BY <1>1, <2>4, <3>0, <3>2 DEF VerdictsCount
    <3>3. CASE task[t].status = "RUNNING" /\ ReadRevision(t)
      <4>1. /\ work'[t].n = work[t].n + 1 /\ work'[t].bad = work[t].bad /\ work[t].n % 2 = 0
        BY <1>0, <3>3, RevisionRead DEF ReadRevision, TurnsTo
      <4>2. work[t].n \in Nat
        BY <1>0, PlaceType DEF WorkspaceOK
      <4>3. work'[t].n \div 2 = work[t].n \div 2
        BY <4>1, <4>2, Halves
      <4> QED
        BY <1>1, <2>4, <3>0, <3>3, <4>1, <4>3 DEF VerdictsCount
    <3>4. CASE RunCheck(t)
      BY <1>0, <1>1, <3>4, CheckCounts
    <3>5. CASE task[t].status # "RUNNING"
      BY <1>0, <2>4, <3>1, <3>5, WorkBegun
    <3>6. ~Scan(t)
      BY <2>4 DEF Scan, Runs
    <3> QED
      BY <1>0, <3>1, <3>2, <3>3, <3>4, <3>5, <3>6, PlacesKept, CheckerStep DEF dvars
  <2>5. ASSUME Capability[t] = "security_scan", task'[t].status = "RUNNING", work'[t].n = 1
        PROVE  work'[t].bad \/ Passed("security_scan")'
    <3>1. task[t].status = "RUNNING"
      BY <1>0, <2>5, WorkBegun
    <3>2. CASE work'[t] = work[t]
      BY <1>1, <2>1, <2>5, <3>1, <3>2 DEF VerdictsCount
    <3>3. CASE Scan(t)
      <4>1. rev = git.head
        BY <1>0, <1>1, <3>1, RevisionIsHead DEF Midway
      <4> QED
        BY <1>0, <3>3, <4>1, ScanCounts
    <3>4. ~ReadRevision(t) /\ ~RunCheck(t)
      BY <2>5 DEF ReadRevision, TurnsTo, RunCheck, Runs
    <3> QED
      BY <1>0, <2>5, <3>1, <3>2, <3>3, <3>4, PlacesKept, CheckerStep DEF dvars
  <2> QED
    BY <2>2, <2>3, <2>4, <2>5 DEF VerdictsCount
<1> QED
  BY <1>2, <1>3

LEMMA AlwaysVerdicts ==
    ASSUME ReleaseDelivers, IntegratorsInTurn, ChecksFollow
    PROVE  DSpec => []FirstVerdicts
<1>1. DInit => FirstVerdicts
  <2> SUFFICES ASSUME DInit, NEW t \in Checkers PROVE VerdictsCount(t)
    BY DEF FirstVerdicts
  <2>1. task[t].status = "ABSENT"
    BY DEF DInit, Init, NoTask, NewTask, Checkers, Tasks
  <2> QED
    BY <2>1 DEF VerdictsCount, Reads
<1>2. OrderInv /\ RepairsLinked /\ WorkspaceOK /\ FollowInv /\ FirstVerdicts
        /\ [DNext]_<<vars, dvars>> => FirstVerdicts'
  <2> SUFFICES ASSUME OrderInv, WorkspaceOK, FollowInv, FirstVerdicts, [DNext]_<<vars, dvars>>
               PROVE  FirstVerdicts'
    OBVIOUS
  <2>1. CASE DNext
    BY <2>1, VerdictsStep
  <2>2. CASE UNCHANGED <<vars, dvars>>
    <3>1. UNCHANGED <<run, task, git, art, work>>
      BY <2>2 DEF vars, dvars
    <3>2. NothingRepaired' => NothingRepaired
      BY <3>1 DEF NothingRepaired, RolledBack, Broken, CanRepair
    <3>3. \A check : Passed(check) => Passed(check)'
      BY <3>1 DEF Passed
    <3>4. ASSUME NEW t \in Checkers, VerdictsCount(t)
          PROVE  VerdictsCount(t)'
      BY <3>1, <3>3, <3>4 DEF VerdictsCount, Holds, Reads, RequiredOf, CheckList
    <3> QED
      BY <3>2, <3>4 DEF FirstVerdicts, Checkers
  <2> QED
    BY <2>1, <2>2
<1>3. DSpec => [](TurnInv /\ FollowInv)
  BY AlwaysFollows
<1> QED
  BY <1>1, <1>2, <1>3, AlwaysOrdered, PTL DEF DSpec

\* In a run in which nothing had to be repaired every required check of such a
\* plan has passed on the revision that reaches workload main.
THEOREM MergeWasChecked ==
    ASSUME ReleaseDelivers, IntegratorsInTurn, ChecksFollow
    PROVE  DSpec => []FirstEvidenceCounts
<1>1. ASSUME OrderInv, RepairsLinked, JudgeInv, FirstVerdicts
      PROVE  FirstEvidenceCounts
  <2> SUFFICES ASSUME \A n \in 1..MaxRepairs : task[Reintegrate[n]].status = "ABSENT",
                      merged # 0, NEW t \in Checkers, NEW check \in RequiredOf(t)
               PROVE  \E e \in art.evidence : e.check = check /\ e.passed /\ e.rev = merged
    BY DEF FirstEvidenceCounts, EvidenceOfTheMerge
  <2>1. merged = git.head
    BY <1>1, MergeIsLast
  <2>2. PICK r \in ReleaseTasks : task[r].status = "SUCCEEDED" /\ AllDone(r)
    BY <1>1, MergeIsLast
  <2>3. Capability[r] = "assemble_release"
    BY DEF ReleaseDelivers
  <2>4. task[t].status = "SUCCEEDED"
    BY <2>2, <2>3 DEF AllDone, Checkers
  <2>5. \A u \in Tasks : ~RolledBack(u)
    BY <2>2, <2>3, NothingOwed
  <2>6. VerdictsCount(t)
    BY <1>1, <2>5 DEF FirstVerdicts, NothingRepaired
  <2> QED
    BY <2>1, <2>4, <2>6 DEF VerdictsCount, Passed
<1>2. OrderInv /\ RepairsLinked /\ JudgeInv /\ FirstVerdicts => FirstEvidenceCounts
  BY <1>1
<1>3. DSpec => []JudgeInv
  BY AlwaysJudged
<1> QED
  BY <1>2, <1>3, AlwaysVerdicts, AlwaysOrdered, PTL

-------------------------------------------------------------------------------
(* What writers write *)

\* Only policy denies a writer, and it does so before a file.
LEMMA DeniedBy ==
    ASSUME TypeInv, WaveOK, DNext, NEW t \in Writers, ~Denied(t), Denied(t)'
    PROVE  WriteDenied(t)
<1>0. t \in Tasks /\ Capability[t] = "apply_seed" /\ task[t] \in TaskRow
  BY RowType DEF Writers, TypeInv
<1>1. task'[t] # task[t]
  BY DEF Denied
<1>2. Next
  BY <1>0, <1>1, DeliveryStep DEF vars
<1>3. RowStep(t)
  BY <1>0, <1>2, RowSteps
<1>4. pc = "wave" /\ task[t].status = "RUNNING"
  BY <1>3 DEF Denied, RowStep, Kept, Created, Cleared, Requeued, Started, Ended, Routed
<1>5. Worker(t)
  BY <1>0, <1>1, <1>4, OwnWorker DEF BeginWork, StartTask, Taken, WaveOK
<1>6. ASSUME NEW class, class # "policy_denied"
      PROVE  ~TaskFails(t, class)
  <2> DEFINE row == [task[t] EXCEPT !.status = "FAILED", !.class = class]
  <2>1. row.class = class
    BY <1>0 DEF TaskRow
  <2> HIDE DEF row
  <2>2. TaskFails(t, class) => Save(t, row)
    BY DEF TaskFails, row
  <2> QED
    BY <1>0, <1>6, <2>1, <2>2, SaveOne DEF Denied
<1>7. ~TaskSucceeds(t)
  <2> DEFINE row == [task[t] EXCEPT !.status = "SUCCEEDED", !.class = "none"]
  <2>1. row.status = "SUCCEEDED"
    BY <1>0 DEF TaskRow
  <2> HIDE DEF row
  <2>2. TaskSucceeds(t) => Save(t, row)
    BY DEF TaskSucceeds, row
  <2> QED
    BY <1>0, <2>1, <2>2, SaveOne DEF Denied
<1>8. ~(WorkerReturns(t) \/ ChecksFailed(t) \/ FailsAtOnce(t) \/ CommitFails(t) \/ GitFails(t))
  <2>1. ~TaskFails(t, "transient") /\ ~TaskFails(t, "deterministic")
    BY <1>6
  <2> QED
    BY <1>7, <2>1 DEF WorkerReturns, ChecksFailed, FailsAtOnce, CommitFails, GitFails
<1>9. ~DiffDenied(t) /\ ~CheckDenied(t)
  BY <1>0 DEF DiffDenied, CheckDenied, TurnsTo, Integrates, Runs
<1>10. ~UNCHANGED vars
  BY <1>1 DEF vars
<1> QED
  BY <1>5, <1>8, <1>9, <1>10
     DEF Worker, WriteFile, PublishPatch, Stage, Status, Commit, ReadHead, SetRevision, SaveRun,
         DiffAllowed, PublishChange, ReadRevision, RunCheck, Scan, AssembleRelease

\* The entries of a seed.
LEMMA EntryType ==
    ASSUME NEW t \in Writers
    PROVE  /\ Len(SeedOf(t)) \in Nat /\ DOMAIN SeedOf(t) = 1..Len(SeedOf(t))
           /\ \A i \in DOMAIN SeedOf(t) :
                 /\ SeedOf(t)[i].file \in Files
                 /\ SeedOf(t)[i] = [file |-> SeedOf(t)[i].file, content |-> SeedOf(t)[i].content]
           /\ SeedOf(t) \in SeedsOf(t)
<1>1. SeedOf(t) \in Writes
  BY SeedType DEF Writers
<1>2. SeedOf(t) \in SeedsOf(t)
  BY DEF SeedOf, SeedsOf
<1> DEFINE Entry == [file : Files, content : Contents]
<1>3. PICK s : s = SeedOf(t)
  OBVIOUS
<1>4. s \in Seq(Entry)
  BY <1>1, <1>3 DEF Writes
<1>5. ASSUME NEW e \in Entry
      PROVE  e.file \in Files /\ e = [file |-> e.file, content |-> e.content]
  OBVIOUS
<1> HIDE DEF Entry
<1>6. Len(s) \in Nat /\ DOMAIN s = 1..Len(s) /\ \A i \in DOMAIN s : s[i] \in Entry
  BY <1>4
<1> QED
  BY <1>2, <1>3, <1>5, <1>6

\* What a writer may write before policy stops it.
May(t) ==
    {i \in DOMAIN SeedOf(t) :
        \A j \in 1..i : Enforced("workspace.write", SeedOf(t)[j].file, 0)}

\* A writer at work is told the same all the time.
LEMMA SameSeed ==
    ASSUME TypeInv, DNext, NEW t \in Writers, task[t].status # "ABSENT", ~Denied(t)
    PROVE  SeedOf(t)' = SeedOf(t) /\ May(t)' = May(t)
<1>1. t \in Tasks
  BY DEF Writers
<1>2. task'[t].fallback = task[t].fallback
  BY <1>1, DeliveryStep, FallbackMoves DEF FallbackKept, vars
<1>3. SeedOf(t)' = SeedOf(t)
  BY <1>2 DEF SeedOf
<1> QED
  BY <1>3 DEF May

\* Who changes the list of patches, and what stays refused.
LEMMA ProposalMoves ==
    ASSUME WorkspaceOK, DNext
    PROVE  /\ art'.proposed = art.proposed \/ \E t \in Tasks : PublishPatch(t)
           /\ refused \subseteq refused'
<1>1. CASE UNCHANGED dvars
  BY <1>1 DEF dvars
<1>2. ASSUME NEW t \in Tasks, Worker(t)
      PROVE  /\ art'.proposed = art.proposed \/ PublishPatch(t)
             /\ refused \subseteq refused'
  <2>1. CASE WorkerReturns(t) \/ ChecksFailed(t) \/ FailsAtOnce(t) \/ CommitFails(t)
               \/ DiffDenied(t) \/ GitFails(t) \/ WriteDenied(t) \/ CheckDenied(t)
    BY <2>1 DEF WorkerReturns, ChecksFailed, FailsAtOnce, CommitFails, DiffDenied, GitFails,
                WriteDenied, CheckDenied, dvars
  <2>2. CASE WriteFile(t) \/ Stage(t) \/ Status(t) \/ Commit(t) \/ ReadHead(t)
               \/ SetRevision(t) \/ SaveRun(t) \/ DiffAllowed(t) \/ ReadRevision(t)
    BY <2>2 DEF WriteFile, Stage, Status, Commit, ReadHead, SetRevision, SaveRun, DiffAllowed,
                ReadRevision
  <2>3. CASE PublishPatch(t)
    BY <2>3 DEF PublishPatch
  <2>4. CASE PublishChange(t) \/ AssembleRelease(t)
    BY <2>4 DEF PublishChange, AssembleRelease, WorkspaceOK
  <2>5. CASE RunCheck(t) \/ Scan(t)
    BY <2>5 DEF RunCheck, Scan, WorkspaceOK
  <2> QED
    BY <1>2, <2>1, <2>2, <2>3, <2>4, <2>5 DEF Worker
<1>3. ASSUME NEW t \in Tasks, \/ BeginWork(t) \/ ResetHard(t) \/ CleanWorktree(t)
                             \/ SaveRollback(t) \/ FailRolledBack(t)
      PROVE  art' = art /\ refused' = refused
  BY <1>3 DEF BeginWork, ResetHard, CleanWorktree, SaveRollback, FailRolledBack, dvars
<1>4. CASE MergeBranch \/ CrashWorkers
  BY <1>4 DEF MergeBranch, CrashWorkers
<1> QED
  BY <1>1, <1>2, <1>3, <1>4 DEF DNext, dvars

\* From the first failure of a check on every writer of the plan is done.
PlanWritten ==
    \/ \E c \in Checkers : task[c].status = "FAILED"
    \/ \E r \in RepairTasks : task[r].status # "ABSENT"
    => \A u \in PlanTasks \cap Writers : task[u].status = "SUCCEEDED"

LEMMA PlanWrittenStep ==
    ASSUME OrderInv, ChecksFollow, WritersInTurn, PlanWritten, DNext
    PROVE  PlanWritten'
<1> SUFFICES ASSUME \/ \E c \in Checkers : task'[c].status = "FAILED"
                    \/ \E r \in RepairTasks : task'[r].status # "ABSENT",
                    NEW u \in PlanTasks \cap Writers
             PROVE  task'[u].status = "SUCCEEDED"
  BY DEF PlanWritten
<1>0. TypeInv /\ WaveOK /\ u \in Tasks /\ Capability[u] = "apply_seed"
  BY DEF OrderInv, SafeInv, Tasks, Writers
<1>1. CASE UNCHANGED task
  BY <1>1 DEF PlanWritten
<1>2. CASE Next
  <2>1. ASSUME NEW c \in Checkers, task'[c].status = "FAILED"
        PROVE  task[c].status \in {"RUNNING", "FAILED"}
    <3>1. RowStep(c)
      BY <1>0, <1>2, RowSteps DEF Checkers, Tasks
    <3> QED
      BY <2>1, <3>1 DEF RowStep, Kept, Created, Cleared, Requeued, Started, Ended, Routed
  <2>2. ASSUME NEW r \in RepairTasks, task'[r].status # "ABSENT", task[r].status = "ABSENT"
        PROVE  \E c \in Checkers : task[c].status = "FAILED"
    <3>1. r \in Tasks
      BY DEF Tasks
    <3>2. PICK c \in Tasks : SaveRepair(c)
      <4>1. r \notin Bootstrap /\ r \notin PlanTasks /\ r \notin ReintegrateTasks
        BY NamesAssumption
      <4>2. ASSUME NEW x \in Tasks, SaveReintegrate(x)
            PROVE  Reintegrate[NextRepair] \in ReintegrateTasks
        BY <1>0, <4>2, RepairNumber
           DEF SaveReintegrate, CanRepair, TypeInv, PlaceOK, Goto, ReintegrateTasks
      <4> QED
        BY <1>0, <1>2, <2>2, <3>1, <4>1, <4>2, NewRows
    <3> QED
      BY <1>0, <3>2, RepairSaved DEF WritersInTurn, Broken
  <2>3. task[u].status = "SUCCEEDED"
    <3>1. ASSUME NEW c \in Checkers, task[c].status = "RUNNING"
          PROVE  task[u].status = "SUCCEEDED"
      BY <1>0, <3>1, WritersDone DEF Checkers, Tasks
    <3> QED
      BY <2>1, <2>2, <3>1 DEF PlanWritten
  <2> QED
    BY <1>0, <1>2, <2>3, SuccessStays
<1> QED
  BY <1>1, <1>2, DeliveryStep DEF vars

\* Two writers at work at once agree on the files they share.
LEMMA RunningAgree ==
    ASSUME OrderInv, ChecksFollow, WritersInTurn, PlanWritten,
           NEW t \in Writers, NEW u \in Writers, t # u,
           task[t].status = "RUNNING", task[u].status = "RUNNING",
           NEW i \in DOMAIN SeedOf(t), NEW j \in DOMAIN SeedOf(u),
           SeedOf(t)[i].file = SeedOf(u)[j].file
    PROVE  SeedOf(t)[i] = SeedOf(u)[j]
<1>1. SeedOf(t) \in SeedsOf(t) /\ SeedOf(u) \in SeedsOf(u)
  BY EntryType
<1>2. \/ {t, u} \subseteq PlanTasks /\ (Leads(t, u) \/ Leads(u, t))
      \/ {t, u} \subseteq RepairTasks /\ SeedOf(t)[i] = SeedOf(u)[j]
      \/ t \in PlanTasks /\ u \in RepairTasks
      \/ u \in PlanTasks /\ t \in RepairTasks
  BY <1>1 DEF WritersInTurn
<1>3. CASE {t, u} \subseteq PlanTasks /\ (Leads(t, u) \/ Leads(u, t))
  BY <1>3, LedIsDone DEF OrderInv, SafeInv
<1>4. CASE t \in PlanTasks /\ u \in RepairTasks
  BY <1>4 DEF PlanWritten
<1>5. CASE u \in PlanTasks /\ t \in RepairTasks
  BY <1>5 DEF PlanWritten
<1> QED
  BY <1>2, <1>3, <1>4, <1>5

LEMMA FileWritten ==
    ASSUME WorkspaceOK, NEW t \in Tasks, WriteFile(t)
    PROVE  LET n == work[t].n + 1 IN
           /\ t \in Writers /\ pc = "wave" /\ task[t].status = "RUNNING"
           /\ n \in DOMAIN SeedOf(t) /\ Enforced("workspace.write", SeedOf(t)[n].file, 0)
           /\ git'.tree[SeedOf(t)[n].file] = SeedOf(t)[n].content
           /\ \A f \in Files : f # SeedOf(t)[n].file => git'.tree[f] = git.tree[f]
           /\ UNCHANGED <<vars, art, refused>>
           /\ work'[t].n = n /\ \A u \in Tasks \ {t} : work'[u] = work[u]
<1> DEFINE n == work[t].n + 1
           f == SeedOf(t)[n].file
<1>1. t \in Writers /\ pc = "wave" /\ task[t].status = "RUNNING"
  BY DEF WriteFile, Writing, Runs, Writers
<1>2. work[t].n \in Nat
  BY PlaceType DEF WorkspaceOK
<1>3. n \in DOMAIN SeedOf(t) /\ f \in Files
  BY <1>1, <1>2, EntryType DEF WriteFile, Writing
<1>4. /\ Enforced("workspace.write", f, 0)
      /\ git' = [git EXCEPT !.tree[f] = SeedOf(t)[n].content]
      /\ Step(t) /\ UNCHANGED <<vars, art, refused>>
  BY DEF WriteFile, NextFile
<1>5. git.tree \in [Files -> Contents] /\ git \in GitRow
  BY DEF WorkspaceOK, GitRow, Trees
<1>6. git'.tree = [git.tree EXCEPT ![f] = SeedOf(t)[n].content]
  <2> HIDE DEF f, n
  <2> QED
    BY <1>4, <1>5 DEF GitRow
<1>7. work'[t].n = n /\ \A u \in Tasks \ {t} : work'[u] = work[u]
  BY <1>4, StepOne DEF WorkspaceOK
<1> HIDE DEF f
<1>8. git'.tree[f] = SeedOf(t)[n].content /\ \A g \in Files : g # f => git'.tree[g] = git.tree[g]
  BY <1>3, <1>5, <1>6
<1> QED
  BY <1>1, <1>3, <1>4, <1>7, <1>8 DEF f

\* A patch lists what the seed says, whatever the order of its files.
LEMMA PatchListed ==
    ASSUME WorkspaceOK, WritersInTurn, NEW t \in Tasks, PublishPatch(t)
    PROVE  /\ t \in Writers /\ pc = "wave" /\ task[t].status = "RUNNING"
           /\ work[t].n = Len(SeedOf(t))
           /\ \A i \in DOMAIN SeedOf(t) :
                 art'.proposed[SeedOf(t)[i].file] = SeedOf(t)[i].content
           /\ \A f \in Files : (\A i \in DOMAIN SeedOf(t) : SeedOf(t)[i].file # f)
                                   => art'.proposed[f] = art.proposed[f]
           /\ UNCHANGED <<vars, git, refused>>
           /\ work'[t].n = work[t].n + 1 /\ \A u \in Tasks \ {t} : work'[u] = work[u]
<1>1. /\ t \in Writers /\ pc = "wave" /\ task[t].status = "RUNNING"
      /\ work[t].n = Len(SeedOf(t)) /\ UNCHANGED <<vars, git, refused>>
  BY DEF PublishPatch, Runs, Writers
<1>2. work'[t].n = work[t].n + 1 /\ \A u \in Tasks \ {t} : work'[u] = work[u]
  BY StepPublishes
<1>3. \A f \in Files : art'.proposed[f] = Latest(t, f)
  <2> DEFINE listed == [f \in Files |-> Latest(t, f)]
  <2>1. art' = [art EXCEPT !.proposed = listed]
    BY DEF PublishPatch
  <2> HIDE DEF listed
  <2>2. art'.proposed = listed
    BY <2>1 DEF WorkspaceOK
  <2> QED
    BY <2>2 DEF listed
<1>4. ASSUME NEW i \in DOMAIN SeedOf(t)
      PROVE  art'.proposed[SeedOf(t)[i].file] = SeedOf(t)[i].content
  <2>1. SeedOf(t)[i].file \in Files /\ i \in Nat /\ SeedOf(t) \in SeedsOf(t)
    BY <1>1, EntryType
  <2>2. {j \in DOMAIN SeedOf(t) : SeedOf(t)[j].file = SeedOf(t)[i].file} = {i}
    BY <1>1, <2>1 DEF WritersInTurn
  <2>3. Max({i}) = i
    BY <2>1 DEF Max
  <2> QED
    BY <1>3, <2>1, <2>2, <2>3 DEF Latest
<1>5. ASSUME NEW f \in Files, \A i \in DOMAIN SeedOf(t) : SeedOf(t)[i].file # f
      PROVE  art'.proposed[f] = art.proposed[f]
  BY <1>3, <1>5 DEF Latest
<1> QED
  BY <1>1, <1>2, <1>4, <1>5

\* What t has written is in the tree, and what it has published is listed.
Written(t) ==
    \A i \in DOMAIN SeedOf(t) : i <= work[t].n =>
        /\ i \in May(t)
        /\ git.tree[SeedOf(t)[i].file] = SeedOf(t)[i].content
        /\ work[t].n > Len(SeedOf(t)) =>
              art.proposed[SeedOf(t)[i].file] = SeedOf(t)[i].content

WrittenOK ==
    \A t \in Writers :
        task[t].status = "RUNNING" /\ work[t].n > 0 => pc = "wave" /\ Written(t)

\* The steps of a writer on its own files.
LEMMA WriterStep ==
    ASSUME OrderInv, WorkspaceOK, WritersInTurn, WrittenOK, DNext,
           NEW t \in Writers, WriteFile(t) \/ PublishPatch(t)
    PROVE  Written(t)'
<1>0. /\ t \in Tasks /\ work[t].n \in Nat
      /\ Len(SeedOf(t)) \in Nat /\ DOMAIN SeedOf(t) = 1..Len(SeedOf(t))
      /\ \A i \in DOMAIN SeedOf(t) : SeedOf(t)[i].file \in Files
      /\ SeedOf(t) \in SeedsOf(t)
  BY EntryType, PlaceType DEF Writers, WorkspaceOK
<1>1. task[t].status = "RUNNING" /\ UNCHANGED vars
  BY <1>0, FileWritten, PatchListed
<1>2. SeedOf(t)' = SeedOf(t) /\ May(t)' = May(t)
  BY <1>1 DEF SeedOf, May, vars
<1>3. \A i \in DOMAIN SeedOf(t) : i <= work[t].n =>
          i \in May(t) /\ git.tree[SeedOf(t)[i].file] = SeedOf(t)[i].content
  BY <1>0, <1>1 DEF WrittenOK, Written
<1>4. CASE WriteFile(t)
  <2> DEFINE n == work[t].n + 1
  <2>1. /\ n \in DOMAIN SeedOf(t) /\ Enforced("workspace.write", SeedOf(t)[n].file, 0)
        /\ git'.tree[SeedOf(t)[n].file] = SeedOf(t)[n].content
        /\ \A f \in Files : f # SeedOf(t)[n].file => git'.tree[f] = git.tree[f]
        /\ work'[t].n = n
    BY <1>0, <1>4, FileWritten
  <2>2. n \in May(t)
    <3>1. ASSUME NEW j \in 1..n
          PROVE  Enforced("workspace.write", SeedOf(t)[j].file, 0)
      <4>1. CASE j = n
        BY <2>1, <4>1
      <4>2. CASE j <= work[t].n
        <5>1. j \in DOMAIN SeedOf(t) /\ j \in 1..j
          BY <1>0, <2>1, <4>2
        <5> QED
          BY <1>3, <4>2, <5>1 DEF May
      <4> QED
        BY <1>0, <4>1, <4>2
    <3> QED
      BY <2>1, <3>1 DEF May
  <2>3. ASSUME NEW i \in DOMAIN SeedOf(t), i <= n
        PROVE  i \in May(t) /\ git'.tree[SeedOf(t)[i].file] = SeedOf(t)[i].content
    <3>1. CASE i = n
      BY <2>1, <2>2, <3>1
    <3>2. CASE i # n
      <4>1. i <= work[t].n
        BY <1>0, <2>3, <3>2
      <4>2. SeedOf(t)[i].file # SeedOf(t)[n].file
        BY <1>0, <2>1, <3>2 DEF WritersInTurn
      <4> QED
        BY <1>0, <1>3, <2>1, <4>1, <4>2
    <3> QED
      BY <3>1, <3>2
  <2>4. ~(work'[t].n > Len(SeedOf(t)))
    BY <1>0, <2>1
  <2> QED
    BY <1>2, <2>1, <2>3, <2>4 DEF Written
<1>5. CASE PublishPatch(t)
  <2>1. /\ work[t].n = Len(SeedOf(t)) /\ git' = git
        /\ \A i \in DOMAIN SeedOf(t) :
              art'.proposed[SeedOf(t)[i].file] = SeedOf(t)[i].content
    BY <1>0, <1>5, PatchListed
  <2> QED
    BY <1>0, <1>2, <1>3, <2>1 DEF Written
<1> QED
  BY <1>4, <1>5

\* The steps of the others leave them alone.
LEMMA OthersLeave ==
    ASSUME OrderInv, ChecksFollow, WorkspaceOK, WritersInTurn, PlanWritten, DNext,
           NEW t \in Writers, task[t].status = "RUNNING", pc = "wave", Written(t),
           work'[t] = work[t]
    PROVE  Written(t)'
<1>0. /\ t \in Tasks /\ work[t].n \in Nat /\ TypeInv
      /\ Len(SeedOf(t)) \in Nat /\ DOMAIN SeedOf(t) = 1..Len(SeedOf(t))
      /\ \A i \in DOMAIN SeedOf(t) : SeedOf(t)[i].file \in Files
  BY EntryType, PlaceType DEF Writers, WorkspaceOK, OrderInv, SafeInv
<1>1. SeedOf(t)' = SeedOf(t) /\ May(t)' = May(t)
  BY <1>0, SameSeed DEF Denied
<1>2. ASSUME NEW i \in DOMAIN SeedOf(t),
             git.tree[SeedOf(t)[i].file] = SeedOf(t)[i].content
      PROVE  git'.tree[SeedOf(t)[i].file] = SeedOf(t)[i].content
  <2>1. ASSUME NEW u \in Tasks, WriteFile(u)
        PROVE  git'.tree[SeedOf(t)[i].file] = SeedOf(t)[i].content
    <3> DEFINE n == work[u].n + 1
    <3>1. /\ u \in Writers /\ task[u].status = "RUNNING" /\ n \in DOMAIN SeedOf(u)
          /\ git'.tree[SeedOf(u)[n].file] = SeedOf(u)[n].content
          /\ \A f \in Files : f # SeedOf(u)[n].file => git'.tree[f] = git.tree[f]
          /\ work'[u].n = n
      BY <2>1, FileWritten
    <3>2. u # t
      BY <1>0, <3>1
    <3> HIDE DEF n
    <3>3. SeedOf(t)[i].file = SeedOf(u)[n].file => SeedOf(t)[i] = SeedOf(u)[n]
      BY <3>1, <3>2, RunningAgree
    <3> QED
      BY <1>0, <1>2, <3>1, <3>3
  <2>2. \A u \in Tasks : ~ResetHard(u) /\ ~CleanWorktree(u)
    BY DEF ResetHard, CleanWorktree, RollsBack, Failed
  <2> QED
    BY <1>2, <2>1, <2>2, TreeMoves, StageIndexes, CommitAppends
<1>3. ASSUME NEW i \in DOMAIN SeedOf(t),
             art.proposed[SeedOf(t)[i].file] = SeedOf(t)[i].content
      PROVE  art'.proposed[SeedOf(t)[i].file] = SeedOf(t)[i].content
  <2>1. ASSUME NEW u \in Tasks, PublishPatch(u)
        PROVE  art'.proposed[SeedOf(t)[i].file] = SeedOf(t)[i].content
    <3>1. /\ u \in Writers /\ task[u].status = "RUNNING"
          /\ \A j \in DOMAIN SeedOf(u) :
                art'.proposed[SeedOf(u)[j].file] = SeedOf(u)[j].content
          /\ \A f \in Files : (\A j \in DOMAIN SeedOf(u) : SeedOf(u)[j].file # f)
                                  => art'.proposed[f] = art.proposed[f]
          /\ work'[u].n = work[u].n + 1
      BY <2>1, PatchListed
    <3>2. u # t
      BY <1>0, <3>1
    <3>3. ASSUME NEW j \in DOMAIN SeedOf(u), SeedOf(t)[i].file = SeedOf(u)[j].file
          PROVE  SeedOf(t)[i] = SeedOf(u)[j]
      BY <3>1, <3>2, <3>3, RunningAgree
    <3>4. CASE \E j \in DOMAIN SeedOf(u) : SeedOf(t)[i].file = SeedOf(u)[j].file
      BY <3>1, <3>3, <3>4
    <3> QED
      BY <1>0, <1>3, <3>1, <3>4
  <2> QED
    BY <1>3, <2>1, ProposalMoves
<1> QED
  BY <1>1, <1>2, <1>3 DEF Written

LEMMA WrittenStep ==
    ASSUME OrderInv, ChecksFollow, WorkspaceOK, WritersInTurn, PlanWritten, WrittenOK, DNext
    PROVE  WrittenOK'
<1> SUFFICES ASSUME NEW t \in Writers, task'[t].status = "RUNNING", work'[t].n > 0
             PROVE  pc' = "wave" /\ Written(t)'
  BY DEF WrittenOK, Writers
<1>0. TypeInv /\ WaveOK /\ t \in Tasks /\ Capability[t] = "apply_seed" /\ ~(0 > 0)
  BY DEF OrderInv, SafeInv, Writers
<1>1. task[t].status = "RUNNING" /\ ~CrashWorkers
  BY <1>0, WorkBegun, CrashForgets
<1>2. CASE Worker(t)
  <2>1. pc = "wave" /\ pc' = "wave"
    BY <1>0, <1>1, <1>2, WorkerPlace, WaveGoesOn
  <2>2. CASE WriteFile(t) \/ PublishPatch(t)
    BY <2>1, <2>2, WriterStep
  <2>3. CASE ~(WriteFile(t) \/ PublishPatch(t))
    <3>1. ~(Stage(t) \/ Status(t) \/ Commit(t) \/ CommitFails(t) \/ ReadHead(t)
              \/ SetRevision(t) \/ SaveRun(t) \/ DiffAllowed(t) \/ DiffDenied(t)
              \/ PublishChange(t) \/ GitFails(t) \/ CheckDenied(t) \/ ReadRevision(t)
              \/ RunCheck(t) \/ Scan(t) \/ AssembleRelease(t))
      BY <1>0 DEF Stage, Status, Commit, CommitFails, ReadHead, SetRevision, SaveRun,
                  DiffAllowed, DiffDenied, PublishChange, GitFails, Integrates, TurnsTo,
                  CheckDenied, ReadRevision, RunCheck, Scan, AssembleRelease, Runs
    <3>2. UNCHANGED work
      BY <1>2, <2>3, <3>1
         DEF Worker, WriteDenied, WorkerReturns, ChecksFailed, FailsAtOnce, dvars
    <3>3. Written(t)
      BY <1>1, <3>2 DEF WrittenOK
    <3> QED
      BY <1>1, <2>1, <3>2, <3>3, OthersLeave
  <2> QED
    BY <2>1, <2>2, <2>3
<1>3. CASE work'[t] = work[t]
  <2>1. pc = "wave" /\ Written(t)
    BY <1>1, <1>3 DEF WrittenOK
  <2>2. pc' = "wave"
    BY <1>0, <1>1, <2>1, WaveGoesOn
  <2> QED
    BY <1>1, <1>3, <2>1, <2>2, OthersLeave
<1> QED
  BY <1>0, <1>2, <1>3, PlacesKept

\* t is told to write c to f, may, and has not finished.
Offers(t, f, c) ==
    /\ t \in Writers /\ task[t].status \notin {"ABSENT", "SUCCEEDED"} /\ ~Denied(t)
    /\ \E i \in May(t) : SeedOf(t)[i] = [file |-> f, content |-> c]

\* What the tree says of f is proposed, refused, or still to be published.
Accounted(f) ==
    \/ git.tree[f] = art.proposed[f]
    \/ [file |-> f, content |-> git.tree[f]] \in refused
    \/ \E t \in Tasks : Offers(t, f, git.tree[f])

TreeProposed == (\E t \in Tasks : RolledBack(t)) \/ \A f \in Files : Accounted(f)

ProposedInv == WrittenOK /\ PlanWritten /\ TreeProposed

\* An offer stands until it is published or refused.
LEMMA OffersKept ==
    ASSUME OrderInv, WorkspaceOK, WrittenOK, DNext, NEW t \in Tasks, NEW f, NEW c,
           Offers(t, f, c)
    PROVE  \/ Offers(t, f, c)'
           \/ art.proposed[f] = c
           \/ [file |-> f, content |-> c] \in refused'
<1>0. /\ TypeInv /\ WaveOK /\ t \in Writers /\ Capability[t] = "apply_seed"
      /\ work[t].n \in Nat /\ Len(SeedOf(t)) \in Nat /\ DOMAIN SeedOf(t) = 1..Len(SeedOf(t))
  BY EntryType, PlaceType DEF Offers, Writers, WorkspaceOK, OrderInv, SafeInv
<1>1. PICK i \in May(t) : SeedOf(t)[i] = [file |-> f, content |-> c]
  BY DEF Offers
<1>2. i \in DOMAIN SeedOf(t) /\ SeedOf(t)[i].file = f /\ SeedOf(t)[i].content = c
  BY <1>1 DEF May
<1>3. task'[t].status # "ABSENT"
  BY <1>0, DeliveryStep, DependenciesGrow DEF Offers, vars
<1>4. CASE task'[t].status = "SUCCEEDED"
  <2>1. WorkerReturns(t) /\ task[t].status = "RUNNING"
    BY <1>0, <1>4, WorkEnded DEF Offers
  <2>2. work[t].n = Len(SeedOf(t)) + 1
    BY <1>0, <2>1 DEF WorkerReturns, Steps
  <2>3. work[t].n > 0 /\ work[t].n > Len(SeedOf(t)) /\ i <= work[t].n
    BY <1>0, <1>2, <2>2
  <2>4. Written(t)
    BY <1>0, <2>1, <2>3 DEF WrittenOK
  <2> QED
    BY <1>2, <2>3, <2>4 DEF Written
<1>5. CASE Denied(t)'
  <2>1. WriteDenied(t)
    BY <1>0, <1>5, DeniedBy DEF Offers
  <2>2. ~Enforced("workspace.write", SeedOf(t)[work[t].n + 1].file, 0)
    BY <2>1 DEF WriteDenied, NextFile
  <2>3. i \in 1..work[t].n
    BY <1>0, <1>1, <1>2, <2>2 DEF May
  <2> QED
    BY <1>1, <2>1, <2>3 DEF WriteDenied
<1>6. CASE ~Denied(t)' /\ task'[t].status # "SUCCEEDED"
  <2>1. SeedOf(t)' = SeedOf(t) /\ May(t)' = May(t)
    BY <1>0, SameSeed DEF Offers
  <2> QED
    BY <1>0, <1>1, <1>3, <1>6, <2>1 DEF Offers, Writers
<1> QED
  BY <1>4, <1>5, <1>6

LEMMA AccountedStep ==
    ASSUME OrderInv, WorkspaceOK, WritersInTurn, WrittenOK, DNext,
           NEW f \in Files, Accounted(f),
           \A t \in Tasks : ~ResetHard(t) /\ ~CleanWorktree(t)
    PROVE  Accounted(f)'
<1>0. TypeInv /\ WaveOK
  BY DEF OrderInv, SafeInv
<1>1. PICK c : c = git.tree[f]
  OBVIOUS
<1>2. refused \subseteq refused'
  BY ProposalMoves
<1>3. CASE git'.tree[f] = c /\ art'.proposed[f] = art.proposed[f]
  <2>1. \/ c = art.proposed[f]
        \/ [file |-> f, content |-> c] \in refused
        \/ \E t \in Tasks : Offers(t, f, c)
    BY <1>1 DEF Accounted
  <2>2. \/ c = art.proposed[f]
        \/ [file |-> f, content |-> c] \in refused'
        \/ \E t \in Tasks : Offers(t, f, c)'
    BY <1>2, <2>1, OffersKept
  <2>3. ASSUME NEW t \in Tasks, Offers(t, f, c)'
        PROVE  Offers(t, f, git.tree[f])'
    BY <1>3, <2>3 DEF Offers
  <2> QED
    BY <1>3, <2>2, <2>3 DEF Accounted
<1>4. ASSUME NEW t \in Tasks, WriteFile(t)
      PROVE  Accounted(f)'
  <2> DEFINE n == work[t].n + 1
  <2>1. /\ t \in Writers /\ task[t].status = "RUNNING" /\ n \in DOMAIN SeedOf(t)
        /\ git'.tree[SeedOf(t)[n].file] = SeedOf(t)[n].content
        /\ \A g \in Files : g # SeedOf(t)[n].file => git'.tree[g] = git.tree[g]
        /\ UNCHANGED <<vars, art, refused>> /\ work'[t].n = n
    BY <1>4, FileWritten
  <2>2. CASE f # SeedOf(t)[n].file
    BY <1>1, <1>3, <2>1, <2>2
  <2>3. CASE f = SeedOf(t)[n].file
    <3>1. SeedOf(t)' = SeedOf(t) /\ UNCHANGED task
      BY <2>1 DEF SeedOf, vars
    <3>2. n \in May(t)'
      BY <1>4, <2>1, <3>1, WriterStep, EntryType DEF Written
    <3>3. SeedOf(t)[n] = [file |-> f, content |-> git'.tree[f]]
      BY <2>1, <2>3, EntryType
    <3>4. Offers(t, f, git.tree[f])'
      BY <2>1, <3>1, <3>2, <3>3 DEF Offers, Denied, Writers
    <3> QED
      BY <3>4 DEF Accounted
  <2> QED
    BY <2>2, <2>3
<1>5. ASSUME NEW t \in Tasks, PublishPatch(t)
      PROVE  Accounted(f)'
  <2>1. /\ t \in Writers /\ work[t].n = Len(SeedOf(t)) /\ UNCHANGED <<vars, git, refused>>
        /\ \A i \in DOMAIN SeedOf(t) :
              art'.proposed[SeedOf(t)[i].file] = SeedOf(t)[i].content
        /\ (\A i \in DOMAIN SeedOf(t) : SeedOf(t)[i].file # f)
              => art'.proposed[f] = art.proposed[f]
        /\ work'[t].n = work[t].n + 1
    BY <1>5, PatchListed
  <2>2. ASSUME NEW i \in DOMAIN SeedOf(t), SeedOf(t)[i].file = f
        PROVE  git'.tree[f] = art'.proposed[f]
    <3>1. SeedOf(t)' = SeedOf(t)
      BY <2>1 DEF SeedOf, vars
    <3>2. i <= work'[t].n
      BY <2>1, EntryType
    <3>3. Written(t)'
      BY <1>5, <2>1, WriterStep
    <3>4. git'.tree[SeedOf(t)[i].file] = SeedOf(t)[i].content
      BY <3>1, <3>2, <3>3 DEF Written
    <3> QED
      BY <2>1, <2>2, <3>4
  <2> QED
    BY <1>1, <1>3, <2>1, <2>2 DEF Accounted
<1>6. \/ git'.tree = git.tree /\ art'.proposed = art.proposed
      \/ \E t \in Tasks : WriteFile(t) \/ PublishPatch(t)
  <2>1. \/ git'.tree = git.tree \/ \E t \in Tasks : WriteFile(t)
    BY TreeMoves, StageIndexes, CommitAppends
  <2> QED
    BY <2>1, ProposalMoves
<1> QED
  BY <1>1, <1>3, <1>4, <1>5, <1>6

LEMMA ProposedStep ==
    ASSUME OrderInv, WorkspaceOK, ChecksFollow, WritersInTurn, ProposedInv,
           [DNext]_<<vars, dvars>>
    PROVE  ProposedInv'
<1>0. TypeInv /\ WaveOK
  BY DEF OrderInv, SafeInv
<1>1. CASE DNext
  <2>1. WrittenOK' /\ PlanWritten'
    BY <1>1, WrittenStep, PlanWrittenStep DEF ProposedInv
  <2>2. ASSUME NEW t \in Tasks, ResetHard(t) \/ CleanWorktree(t) \/ RolledBack(t)
        PROVE  RolledBack(t)'
    BY <1>0, <1>1, <2>2, ResetterLost, LostStays
  <2>3. (\A t \in Tasks : ~RolledBack(t)') => \A f \in Files : Accounted(f)'
    BY <1>1, <2>2, AccountedStep DEF ProposedInv, TreeProposed
  <2> QED
    BY <2>1, <2>3 DEF ProposedInv, TreeProposed
<1>2. CASE UNCHANGED <<vars, dvars>>
  <2>1. UNCHANGED <<run, task, pc, git, art, work, refused>>
    BY <1>2 DEF vars, dvars
  <2>2. \A t : SeedOf(t)' = SeedOf(t) /\ May(t)' = May(t)
    BY <2>1 DEF SeedOf, May
  <2>3. WrittenOK'
    BY <2>1, <2>2 DEF ProposedInv, WrittenOK, Written
  <2>4. PlanWritten'
    BY <2>1 DEF ProposedInv, PlanWritten
  <2>5. ASSUME NEW f \in Files, Accounted(f)
        PROVE  Accounted(f)'
    BY <2>1, <2>2, <2>5 DEF Accounted, Offers, Denied
  <2>6. \A t \in Tasks : RolledBack(t)' <=> RolledBack(t)
    BY <2>1 DEF RolledBack, Broken, CanRepair
  <2> QED
    BY <2>3, <2>4, <2>5, <2>6 DEF ProposedInv, TreeProposed
<1> QED
  BY <1>1, <1>2

LEMMA AlwaysProposed ==
    ASSUME ChecksFollow, WritersInTurn
    PROVE  DSpec => []ProposedInv
<1>1. DInit => ProposedInv
  <2> SUFFICES ASSUME DInit PROVE ProposedInv
    OBVIOUS
  <2>1. \A t \in Tasks : task[t].status = "ABSENT"
    BY DEF DInit, Init, NoTask, NewTask
  <2>2. git.tree = art.proposed
    BY DEF DInit
  <2>3. Checkers \subseteq Tasks /\ RepairTasks \subseteq Tasks /\ Writers \subseteq Tasks
    BY DEF Checkers, Writers, Tasks
  <2> QED
    BY <2>1, <2>2, <2>3 DEF ProposedInv, WrittenOK, PlanWritten, TreeProposed, Accounted
<1>2. OrderInv /\ RepairsLinked /\ WorkspaceOK /\ ProposedInv /\ [DNext]_<<vars, dvars>>
        => ProposedInv'
  BY ProposedStep
<1> QED
  BY <1>1, <1>2, AlwaysOrdered, PTL DEF DSpec

\* When all is done every writer is.
LEMMA WritersFinish ==
    ASSUME OrderInv, ReleaseDelivers, ChecksFollow, WritersInTurn, Reintegrated,
           NEW r \in ReleaseTasks, task[r].status = "SUCCEEDED", AllDone(r),
           NEW t \in Writers
    PROVE  task[t].status \in {"ABSENT", "SUCCEEDED"}
<1>0. t \in Tasks /\ Capability[t] = "apply_seed"
  BY DEF Writers
<1>1. \A u \in PlanTasks : task[u].status = "SUCCEEDED"
  BY DEF AllDone
<1>2. CASE t \notin RepairTasks
  BY <1>0, <1>1, <1>2 DEF ChecksFollow
<1>3. CASE t \in RepairTasks /\ task[t].status # "ABSENT"
  <2>1. PICK u \in Repairable, n \in 1..MaxRepairs : t = RepairOf[u][n]
    BY <1>3 DEF RepairTasks
  <2>2. task[u].status = "SUCCEEDED"
    BY <1>1 DEF WritersInTurn, Checkers
  <2>3. task[Reintegrate[n]].status # "ABSENT" /\ t \in task[Reintegrate[n]].deps
    BY <1>3, <2>1, <2>2 DEF Reintegrated, IsFirst, FailedTasks
  <2>4. Reintegrate[n] \in ReintegrateTasks /\ Reintegrate[n] \in Tasks
    BY DEF ReintegrateTasks, Tasks
  <2>5. task[Reintegrate[n]].status = "SUCCEEDED"
    BY <2>3, <2>4 DEF AllDone
  <2> QED
    BY <2>3, <2>4, <2>5 DEF OrderInv, SafeInv, DependenciesFirst
<1> QED
  BY <1>2, <1>3

\* What the merge needs to know of its tree.
LEMMA MergeTree ==
    ASSUME OrderInv, RepairsLinked, JudgeInv, ReleaseDelivers, ChecksFollow, WritersInTurn,
           ProposedInv, Reintegrated, TreeFollows
    PROVE  MergedIsProposed
<1> SUFFICES ASSUME merged # 0, NEW f \in Files
             PROVE  \/ Merged[f] = art.proposed[f]
                    \/ [file |-> f, content |-> Merged[f]] \in refused
  BY DEF MergedIsProposed
<1>1. merged = git.head /\ \E r \in ReleaseTasks : task[r].status = "SUCCEEDED" /\ AllDone(r)
  BY MergeIsLast
<1>2. PICK r \in ReleaseTasks : task[r].status = "SUCCEEDED" /\ AllDone(r)
  BY <1>1
<1>3. Capability[r] = "assemble_release"
  BY DEF ReleaseDelivers
<1>4. /\ \A y \in Tasks, k \in Nat : ~Owes(y, k)
      /\ \A t \in Tasks : ~RolledBack(t) /\ ~Midway(t)
  BY <1>2, <1>3, NothingOwed
<1>5. \A y \in Integrators : task[y].status # "RUNNING"
  BY <1>2, <1>3 DEF AllDone, Integrators
<1>6. git.tree = HeadTree
  BY <1>4, <1>5 DEF TreeFollows
<1>7. Merged = git.tree
  BY <1>1, <1>6 DEF Merged, HeadTree
<1>8. Accounted(f)
  BY <1>4 DEF ProposedInv, TreeProposed
<1>9. ASSUME NEW t \in Tasks
      PROVE  ~Offers(t, f, git.tree[f])
  BY <1>2, WritersFinish DEF Offers
<1> QED
  BY <1>7, <1>8, <1>9 DEF Accounted

\* A half-made repair whose process died: its task stays broken, for the name of
\* the next repair is taken.
Orphaned ==
    /\ pc \notin RepairWindow
    /\ \E t \in Repairable : Broken(t) /\ task[RepairOf[t][NextRepair]].status # "ABSENT"
    /\ NextRepair \in 1..MaxRepairs

LEMMA OrphanedStays ==
    ASSUME TypeInv, WaveOK, OneRepaired, Next, Orphaned
    PROVE  Orphaned'
<1>0. PICK t \in Repairable : Broken(t) /\ task[RepairOf[t][NextRepair]].status # "ABSENT"
  BY DEF Orphaned
<1>1. /\ t \in Tasks /\ NextRepair \in 1..MaxRepairs /\ RepairOf[t][NextRepair] \in Tasks
      /\ pc \notin {"repair", "rewire", "count"}
  BY PlanAssumption DEF Orphaned, RepairWindow, RepairTasks, Tasks
<1>2. Broken(t)'
  BY <1>0, <1>1, BrokenStays
<1>3. \A u \in Tasks : ~SaveRepair(u)
  BY <1>0, RepairSaved DEF OneRepaired
<1>4. \A u \in Tasks : ~SaveReintegrate(u) /\ ~Rewire(u)
  BY <1>1 DEF SaveReintegrate, Rewire, Goto
<1>5. pc' \notin RepairWindow
  BY <1>1, <1>3, <1>4, RepairPlaces, CountPlaces DEF RepairWindow
<1>6. run'.repairs = run.repairs
  BY <1>1, <1>3, <1>4, RepairMoves DEF CountRepair, Goto
<1>7. task'[RepairOf[t][NextRepair]].status # "ABSENT"
  BY <1>0, <1>1, DependenciesGrow
<1> QED
  BY <1>1, <1>2, <1>5, <1>6, <1>7 DEF Orphaned, NextRepair

LEMMA LinkedOrOrphaned ==
    ASSUME TypeInv, WaveOK, Repairing, OneRepaired, Next, Orphaned \/ Reintegrated
    PROVE  (Orphaned \/ Reintegrated)'
<1> SUFFICES ASSUME ~Orphaned', NEW t \in Repairable, NEW n \in 1..MaxRepairs,
                    task'[RepairOf[t][n]].status # "ABSENT"
             PROVE  \/ /\ task'[Reintegrate[n]].status # "ABSENT"
                       /\ RepairOf[t][n] \in task'[Reintegrate[n]].deps
                    \/ pc' = "repair" /\ n = NextRepair' /\ IsFirst(t, FailedTasks)'
  BY DEF Reintegrated
<1>0. /\ RepairOf[t][n] \in Tasks /\ RepairOf[t][n] \in RepairTasks
      /\ Reintegrate[n] \in Tasks /\ Reintegrate[n] \in ReintegrateTasks
      /\ t \in Tasks
  BY PlanAssumption DEF RepairTasks, ReintegrateTasks, Tasks
<1>1. Reintegrated
  BY OrphanedStays
<1>2. CASE task[RepairOf[t][n]].status = "ABSENT"
  <2>1. ASSUME NEW u \in Tasks, SaveReintegrate(u)
        PROVE  RepairOf[t][n] # Reintegrate[NextRepair]
    BY <1>0, <2>1, ReintegrateSaved, Kinds DEF ReintegrateTasks
  <2>2. PICK u \in Tasks : SaveRepair(u) /\ RepairOf[t][n] = RepairOf[u][NextRepair]
    BY <1>0, <1>2, <2>1, NewRows, Kinds
  <2>3. /\ u \in Repairable /\ IsFirst(u, FailedTasks) /\ FailedTasks' = FailedTasks
        /\ pc' = "repair" /\ NextRepair' = NextRepair /\ NextRepair \in 1..MaxRepairs
    BY <2>2, RepairSaved DEF NextRepair
  <2>4. u = t /\ n = NextRepair
    BY <2>2, <2>3, NamesAssumption
  <2> QED
    BY <2>3, <2>4 DEF IsFirst
<1>3. CASE task[Reintegrate[n]].status # "ABSENT" /\ RepairOf[t][n] \in task[Reintegrate[n]].deps
  BY <1>0, <1>3, DependenciesGrow
<1>4. CASE pc = "repair" /\ n = NextRepair /\ IsFirst(t, FailedTasks)
              /\ task[RepairOf[t][n]].status # "ABSENT"
  <2>1. Broken(t)
    BY <1>0, <1>4 DEF Repairing
  <2>2. ASSUME NEW u \in Tasks, SaveReintegrate(u)
        PROVE  /\ task'[Reintegrate[n]].status # "ABSENT"
               /\ RepairOf[t][n] \in task'[Reintegrate[n]].deps
    <3>1. IsFirst(u, FailedTasks) /\ FailedTasks \in SUBSET Tasks
      BY <2>2, ReintegrateSaved DEF FailedTasks
    <3>2. u = t
      BY <1>0, <1>4, <3>1, FirstUnique
    <3> QED
      BY <1>4, <2>2, <3>2, ReintegrateSaved
  <2>3. ASSUME NEW u \in Tasks
        PROVE  ~SaveRepair(u)
    BY <1>4, RepairSaved
  <2>4. ~CountRepair
    BY <1>4 DEF CountRepair, Goto
  <2>5. CASE pc' = "idle" /\ UNCHANGED <<run, task>>
    BY <1>4, <2>1, <2>5 DEF Orphaned, RepairWindow, Broken, NextRepair
  <2>6. CASE pc' = "repair" /\ \A u \in Tasks : ~SaveRepair(u) /\ ~SaveReintegrate(u)
    <3>1. UNCHANGED <<run, task>>
      BY <2>6, RepairPlaces
    <3> QED
      BY <1>4, <2>6, <3>1 DEF NextRepair, IsFirst, FailedTasks
  <2> QED
    BY <1>4, <2>2, <2>3, <2>4, <2>5, <2>6, RepairMoves DEF Crash, durable
<1>5. CASE ~(task[RepairOf[t][n]].status = "ABSENT")
  BY <1>1, <1>3, <1>4, <1>5 DEF Reintegrated
<1> QED
  BY <1>2, <1>5

\* With one task to repair nothing is lost unless the release is.
OrphanInv == (Orphaned \/ Reintegrated) /\ (Orphaned \/ TreeFollows)

LEMMA AlwaysLinkedOrOrphaned ==
    ASSUME ChecksFollow, OneRepaired
    PROVE  DSpec => []OrphanInv
<1>1. DInit => OrphanInv
  <2> SUFFICES ASSUME DInit PROVE OrphanInv
    OBVIOUS
  <2>1. \A t \in Tasks : task[t].status = "ABSENT"
    BY DEF DInit, Init, NoTask, NewTask
  <2>2. git.tree = Base /\ git.index = Base /\ git.commits = <<Base>> /\ git.head = 1
    BY DEF DInit
  <2>3. TreeFollows
    BY <2>2 DEF TreeFollows, HeadTree
  <2>4. Reintegrated
    BY <2>1 DEF Reintegrated, RepairTasks, Tasks
  <2> QED
    BY <2>3, <2>4 DEF OrphanInv
<1>2. OrderInv /\ RepairsLinked /\ WorkspaceOK /\ OrphanInv /\ [DNext]_<<vars, dvars>>
        => OrphanInv'
  <2> SUFFICES ASSUME OrderInv, RepairsLinked, WorkspaceOK, OrphanInv, [DNext]_<<vars, dvars>>
               PROVE  OrphanInv'
    OBVIOUS
  <2>0. TypeInv /\ WaveOK /\ Repairing
    BY DEF OrderInv, SafeInv, RepairsLinked
  <2>1. CASE UNCHANGED vars
    <3>1. (Orphaned' <=> Orphaned) /\ (Reintegrated' <=> Reintegrated)
      BY <2>1 DEF vars, Orphaned, Reintegrated, Broken, NextRepair, IsFirst, FailedTasks
    <3>2. CASE UNCHANGED dvars
      <4>1. TreeFollows' <=> TreeFollows
        BY <2>1, <3>2 DEF vars, dvars, TreeFollows, HeadTree, Owes, Midway, RolledBack, Broken,
                             CanRepair, IsFirst, FailedTasks, DiedIn
      <4> QED
        BY <3>1, <4>1 DEF OrphanInv
    <3>3. CASE DNext
      BY <3>1, <3>3, TreeKept DEF OrphanInv
    <3> QED
      BY <2>1, <3>2, <3>3
  <2>2. CASE DNext /\ Next
    <3>1. Orphaned => Orphaned'
      BY <2>0, <2>2, OrphanedStays
    <3>2. (Orphaned \/ Reintegrated)'
      BY <2>0, <2>2, LinkedOrOrphaned DEF OrphanInv
    <3>3. (Orphaned \/ TreeFollows)'
      BY <2>2, <3>1, TreeKept DEF OrphanInv
    <3> QED
      BY <3>2, <3>3 DEF OrphanInv
  <2> QED
    BY <2>1, <2>2, DeliveryStep
<1> QED
  BY <1>1, <1>2, AlwaysOrdered, PTL DEF DSpec

LEMMA OrphanNeverMerged ==
    ASSUME OrderInv, RepairsLinked, JudgeInv, ReleaseDelivers, merged # 0
    PROVE  ~Orphaned
<1>1. PICK r \in ReleaseTasks : task[r].status = "SUCCEEDED" /\ AllDone(r)
  BY MergeIsLast
<1>2. \A t \in PlanTasks : task[t].status = "SUCCEEDED"
  BY <1>1 DEF AllDone
<1> QED
  BY <1>2, PlanAssumption DEF Orphaned, Broken

\* Every file of what reaches workload main is what the last patch says of it,
\* but for what an attempt had written when policy denied it, in every plan
\* whose writers do not write over each other and in which one task is repaired.
\* With more of them the process must not have died within a repair: its row may
\* be retried without its integration, and another repair frees its task.
THEOREM MergeIsProposal ==
    ASSUME ReleaseDelivers, ChecksFollow, WritersInTurn
    PROVE  /\ OneRepaired => (DSpec => []MergedIsProposed)
           /\ DSpec => [](DiedIn(RepairWindow) \/ MergedIsProposed)
<1>1. OrderInv /\ RepairsLinked /\ JudgeInv /\ TreeInv /\ ProposedInv
        => DiedIn(RepairWindow) \/ MergedIsProposed
  BY MergeTree DEF TreeInv, RepairsLinked
<1>2. OrderInv /\ RepairsLinked /\ JudgeInv /\ OrphanInv /\ ProposedInv => MergedIsProposed
  BY MergeTree, OrphanNeverMerged DEF OrphanInv, MergedIsProposed
<1>3. DSpec => []JudgeInv
  BY AlwaysJudged
<1>4. DSpec => []TreeInv
  BY AlwaysFollowed
<1>5. DSpec => []ProposedInv
  BY AlwaysProposed
<1>6. OneRepaired => (DSpec => []MergedIsProposed)
  <2> SUFFICES ASSUME OneRepaired PROVE DSpec => []MergedIsProposed
    OBVIOUS
  <2>1. DSpec => []OrphanInv
    BY AlwaysLinkedOrOrphaned
  <2> QED
    BY <1>2, <1>3, <1>5, <2>1, AlwaysOrdered, PTL
<1>7. DSpec => [](DiedIn(RepairWindow) \/ MergedIsProposed)
  BY <1>1, <1>3, <1>4, <1>5, AlwaysOrdered, PTL
<1> QED
  BY <1>6, <1>7
===============================================================================
