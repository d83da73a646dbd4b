-------------------------- MODULE EngineOrderProofs --------------------------
(***************************************************************************)
(* What Engine promises of repairs, questions and rows across crashes, for *)
(* every plan, every policy and every budget.                              *)
(***************************************************************************)
EXTENDS EngineSafetyProofs

-------------------------------------------------------------------------------
(* Places *)

\* What the status of the run and the hand say of the place the process is at.
PlacesInv ==
    /\ run.status = "awaiting_approval" => pc \in {"idle"} \cup ConsumeWindow
    /\ run.status \in Terminal => pc = "idle"
    /\ pc \in ConsumeWindow => run.pending = 0
    /\ pc = "request" => hand # 0

LEMMA PlacesStep ==
    ASSUME TypeInv, PlacesInv, Next
    PROVE  PlacesInv'
<1> USE DEF PlacesInv, Goto, Stop, ConsumeWindow, Terminal
<1>0. run \in RunRow
  BY DEF TypeInv, TypeOK, RunRow
<1> USE <1>0 DEF RunRow
<1>1. CASE BeginTick \/ Resume
  BY <1>1 DEF BeginTick, Resume, ConsumeApproved, ConsumeRefused, ClearGate, Promote,
              SavePromoted, SaveReviewReady, Proceed
<1>2. CASE Loop
  BY <1>2 DEF Loop, NextWave, WithinBudget, WavesExhausted, TimeExhausted,
              MaterializeRaises, Schedule, Blocked, Finalize, Scheduling
<1>3. CASE WaveDone \/ CountRepair \/ FailuresHandled \/ SavePause \/ GatesDone
  BY <1>3 DEF WaveDone, CountRepair, FailuresHandled, SavePause, GatesDone
<1>4. ASSUME NEW t \in Tasks, SaveBootstrapTask(t) \/ RecoverTask(t) \/ Execute(t)
      PROVE  PlacesInv'
  BY <1>4 DEF SaveBootstrapTask, RecoverTask, Execute, StartTask, TaskSucceeds, TaskFails
<1>5. ASSUME NEW t \in Tasks, HandleFailure(t)
      PROVE  PlacesInv'
  BY <1>5 DEF HandleFailure, Failed, Retry, RetriesExhausted, TakeFallback, NoFallback,
              SaveRepair, SaveReintegrate, RepairCollides, Rewire, Rollback, NoRepair
<1>6. ASSUME NEW t \in Tasks, ProcessGate(t)
      PROVE  PlacesInv'
  <2>1. Len(approvals) \in Nat
    BY AppendType DEF TypeInv, TypeOK
  <2> QED
    BY <1>6, <2>1 DEF ProcessGate, NextGate, GateAllowed, RequestApproval, GateDenied
<1>7. CASE Approver \/ Crash
  BY <1>7 DEF Approver, Resolve, Crash, durable
<1> QED
  BY <1>1, <1>2, <1>3, <1>4, <1>5, <1>6, <1>7 DEF Next, Process

\* A run that has ended is left as it is.
LEMMA TerminalStays ==
    ASSUME TypeInv, PlacesInv, Next, run.status \in Terminal
    PROVE  UNCHANGED <<run, task, main, pc>>
<1>1. pc = "idle"
  BY DEF PlacesInv
<1> USE <1>1 DEF Goto, Stop, Terminal
<1>2. ~(BeginTick \/ Resume)
  BY DEF BeginTick, Resume, ConsumeApproved, ConsumeRefused, ClearGate, Promote,
         SavePromoted, SaveReviewReady, Proceed
<1>3. ~Loop
  BY DEF Loop, NextWave, WithinBudget, WavesExhausted, TimeExhausted,
         MaterializeRaises, Schedule, Blocked, Finalize, Scheduling
<1>4. ~(WaveDone \/ CountRepair \/ FailuresHandled \/ SavePause \/ GatesDone)
  BY DEF WaveDone, CountRepair, FailuresHandled, SavePause, GatesDone
<1>5. ASSUME NEW t \in Tasks, \/ SaveBootstrapTask(t) \/ RecoverTask(t) \/ Execute(t)
                              \/ HandleFailure(t) \/ ProcessGate(t)
      PROVE  FALSE
  BY <1>5
     DEF SaveBootstrapTask, RecoverTask, Execute, StartTask, TaskSucceeds, TaskFails,
         HandleFailure, Failed, Retry, RetriesExhausted, TakeFallback, NoFallback,
         SaveRepair, SaveReintegrate, RepairCollides, Rewire, Rollback, NoRepair,
         ProcessGate, NextGate, GateAllowed, RequestApproval, GateDenied
<1>6. CASE Approver \/ Crash
  BY <1>6 DEF Approver, Resolve, Crash, durable
<1> QED
  BY <1>2, <1>3, <1>4, <1>5, <1>6 DEF Next, Process

\* A death that has been recorded stays on record, and every crash is recorded.
LEMMA DeathsRecorded ==
    ASSUME TypeInv, Next, NEW W
    PROVE  /\ DiedIn(W) => DiedIn(W)'
           /\ Crash /\ pc \in W => DiedIn(W)'
<1>1. died \in Seq(PC)
  BY DEF TypeInv, TypeOK
<1>2. CASE UNCHANGED died
  <2>1. ~Crash
    BY <1>1, <1>2 DEF Crash
  <2> QED
    BY <1>2, <2>1 DEF DiedIn
<1>3. CASE Crash
  <2>1. died' = Append(died, pc)
    BY <1>3 DEF Crash
  <2>2. /\ DOMAIN died \subseteq DOMAIN died'
        /\ \A i \in DOMAIN died : died'[i] = died[i]
        /\ Len(died) + 1 \in DOMAIN died' /\ died'[Len(died) + 1] = pc
    BY <1>1, <2>1
  <2> QED
    BY <2>2 DEF DiedIn
<1>4. BeginTick \/ Resume => UNCHANGED died
  BY DEF BeginTick, Resume, ConsumeApproved, ConsumeRefused, ClearGate, Promote,
         SavePromoted, SaveReviewReady, Proceed
<1>5. Loop => UNCHANGED died
  BY DEF Loop, NextWave, WithinBudget, WavesExhausted, TimeExhausted,
         MaterializeRaises, Schedule, Blocked, Finalize, Scheduling
<1>6. WaveDone \/ CountRepair \/ FailuresHandled \/ SavePause \/ GatesDone => UNCHANGED died
  BY DEF WaveDone, CountRepair, FailuresHandled, SavePause, GatesDone
<1>7. ASSUME NEW t \in Tasks, \/ SaveBootstrapTask(t) \/ RecoverTask(t) \/ Execute(t)
                              \/ HandleFailure(t) \/ ProcessGate(t)
      PROVE  UNCHANGED died
  BY <1>7
     DEF SaveBootstrapTask, RecoverTask, Execute, StartTask, TaskSucceeds, TaskFails,
         HandleFailure, Retry, RetriesExhausted, TakeFallback, NoFallback,
         SaveRepair, SaveReintegrate, RepairCollides, Rewire, Rollback, NoRepair,
         ProcessGate, GateAllowed, RequestApproval, GateDenied
<1>8. Approver => UNCHANGED died
  BY DEF Approver, Resolve
<1> QED
  BY <1>2, <1>3, <1>4, <1>5, <1>6, <1>7, <1>8 DEF Next, Process

-------------------------------------------------------------------------------
(* Rows *)

\* Who may give a name its row.
LEMMA NewRows ==
    ASSUME TypeInv, WaveOK, Next, NEW u \in Tasks,
           task[u].status = "ABSENT", task'[u].status # "ABSENT"
    PROVE  \/ u \in Bootstrap
           \/ u \in PlanTasks /\ PlanAdopted /\ ~PlanRefused
           \/ \E t \in Tasks : SaveRepair(t) /\ u = RepairOf[t][NextRepair]
           \/ \E t \in Tasks : SaveReintegrate(t) /\ u = Reintegrate[NextRepair]
<1>1. task' # task
  OBVIOUS
<1>2. ASSUME task' = Materialized, ~PlanRefused
      PROVE  u \in PlanTasks /\ PlanAdopted /\ ~PlanRefused
  BY <1>2 DEF Materialized
<1>3. ASSUME NEW t \in Tasks, NEW row, Save(t, row), row.status = task[t].status
      PROVE  FALSE
  BY <1>3, SaveOne
<1>4. ASSUME NEW t \in Tasks, NEW row, Save(t, row), task[t].status # "ABSENT"
      PROVE  FALSE
  BY <1>4, SaveOne
<1>5. CASE BeginTick \/ Resume
  <2>1. ClearGate
    BY <1>1, <1>5
       DEF BeginTick, Resume, ConsumeApproved, ConsumeRefused, Promote,
           SavePromoted, SaveReviewReady, Proceed
  <2> DEFINE t == approvals[hand].task
             row == task[t]
             new == [row EXCEPT !.cleared = TRUE]
  <2>2. pc = "approved" /\ hand \in DOMAIN approvals
    BY <2>1 DEF ClearGate, Goto, TypeInv, TypeOK, PlaceOK
  <2>3. t \in Tasks
    BY <2>2, ApprovalRow DEF TypeInv
  <2>4. row \in TaskRow
    BY <2>3, RowType DEF TypeInv
  <2>5. Save(t, new)
    BY <2>1 DEF ClearGate
  <2>6. new.status = row.status
    <3> HIDE DEF row
    <3> QED BY <2>4 DEF TaskRow
  <2> HIDE DEF t, new
  <2>7. new.status = task[t].status
    BY <2>6
  <2> QED
    BY <1>3, <2>3, <2>5, <2>7
<1>6. CASE Loop
  BY <1>1, <1>2, <1>6
     DEF Loop, NextWave, WithinBudget, WavesExhausted, TimeExhausted, MaterializeRaises,
         Schedule, Blocked, Finalize, Scheduling
<1>7. CASE WaveDone \/ CountRepair \/ FailuresHandled \/ SavePause \/ GatesDone
  BY <1>1, <1>2, <1>7 DEF WaveDone, CountRepair, FailuresHandled, SavePause, GatesDone
<1>8. ASSUME NEW t \in Tasks, SaveBootstrapTask(t)
      PROVE  u \in Bootstrap
  <2>1. t \in Bootstrap /\ Save(t, NewTask(BootstrapDeps[t], FALSE))
    BY <1>8 DEF SaveBootstrapTask, IsFirst, Missing
  <2> QED
    BY <2>1, SaveOne
<1>9. ASSUME NEW t \in Tasks, RecoverTask(t) \/ Execute(t)
      PROVE  FALSE
  <2>1. CASE RecoverTask(t)
    BY <1>4, <2>1 DEF RecoverTask, IsFirst, RunningTasks
  <2>2. CASE StartTask(t)
    <3> DEFINE row == [task[t] EXCEPT !.status = "RUNNING", !.attempts = task[t].attempts + 1]
    <3>1. Save(t, row) /\ task[t].status = "PENDING"
      BY <2>2 DEF StartTask, Taken, WaveOK
    <3> HIDE DEF row
    <3> QED
      BY <1>4, <3>1
  <2>3. CASE TaskSucceeds(t)
    BY <1>4, <2>3 DEF TaskSucceeds
  <2>4. ASSUME NEW class \in FailureClass, TaskFails(t, class)
        PROVE  FALSE
    BY <1>4, <2>4 DEF TaskFails
  <2> QED
    BY <1>9, <2>1, <2>2, <2>3, <2>4 DEF Execute
<1>10. ASSUME NEW t \in Tasks, HandleFailure(t)
       PROVE  \/ SaveRepair(t) /\ u = RepairOf[t][NextRepair]
              \/ SaveReintegrate(t) /\ u = Reintegrate[NextRepair]
  <2>1. CASE SaveRepair(t)
    <3>1. RepairOf[t][NextRepair] \in Tasks
      BY <2>1, RepairNumber, RepairNames DEF SaveRepair, CanRepair, TypeInv
    <3> QED
      BY <2>1, <3>1, SaveOne DEF SaveRepair
  <2>2. CASE SaveReintegrate(t)
    <3>1. Reintegrate[NextRepair] \in Tasks
      BY <2>2, RepairNumber, RepairNames DEF SaveReintegrate, CanRepair, TypeInv, PlaceOK, Goto
    <3> QED
      BY <2>2, <3>1, SaveOne DEF SaveReintegrate
  <2>3. CASE Retry(t)
    BY <1>4, <2>3 DEF Retry, Failed, IsFirst, FailedTasks
  <2>4. CASE TakeFallback(t)
    BY <1>4, <2>4 DEF TakeFallback, Failed, IsFirst, FailedTasks
  <2>5. CASE Rewire(t)
    BY <1>4, <2>5 DEF Rewire, IsFirst, FailedTasks
  <2>6. CASE UNCHANGED task
    BY <1>1, <2>6
  <2> QED
    BY <1>10, <2>1, <2>2, <2>3, <2>4, <2>5, <2>6
       DEF HandleFailure, RetriesExhausted, NoFallback, RepairCollides, Rollback, NoRepair
<1>11. ASSUME NEW t \in Tasks, ProcessGate(t)
       PROVE  FALSE
  <2>1. GateAllowed(t)
    BY <1>1, <1>11 DEF ProcessGate, RequestApproval, GateDenied
  <2> QED
    BY <1>4, <2>1 DEF GateAllowed, NextGate, IsFirst, Gated
<1>12. CASE Approver \/ Crash
  BY <1>1, <1>12 DEF Approver, Resolve, Crash, durable
<1> QED
  BY <1>5, <1>6, <1>7, <1>8, <1>9, <1>10, <1>11, <1>12 DEF Next, Process

LEMMA RowsStep ==
    ASSUME TypeInv, WaveOK, RowsOfAnAdoptedPlan, Next
    PROVE  RowsOfAnAdoptedPlan'
<1> SUFFICES ASSUME NEW u \in PlanTasks, task'[u].status # "ABSENT"
             PROVE  PlanAdopted' /\ ValidPlan(PlanTasks, PlanDeps)
  BY DEF RowsOfAnAdoptedPlan
<1>1. u \in Tasks /\ "create_plan" \in Tasks
  BY DEF Tasks, Bootstrap
<1>2. PlanAdopted /\ ValidPlan(PlanTasks, PlanDeps)
  <2>1. CASE task[u].status # "ABSENT"
    BY <2>1 DEF RowsOfAnAdoptedPlan
  <2>2. CASE task[u].status = "ABSENT"
    <3>1. u \notin Bootstrap
      BY NamesAssumption
    <3>2. ASSUME NEW t \in Tasks, SaveRepair(t)
          PROVE  u # RepairOf[t][NextRepair]
      <4>1. t \in Repairable /\ NextRepair \in 1..MaxRepairs
        BY <3>2, RepairNumber DEF SaveRepair, CanRepair, TypeInv
      <4> QED
        BY <4>1, NamesAssumption DEF RepairTasks
    <3>3. ASSUME NEW t \in Tasks, SaveReintegrate(t)
          PROVE  u # Reintegrate[NextRepair]
      <4>1. NextRepair \in 1..MaxRepairs
        BY <3>3, RepairNumber DEF SaveReintegrate, CanRepair, TypeInv, PlaceOK, Goto
      <4> QED
        BY <4>1, NamesAssumption DEF ReintegrateTasks
    <3>4. PlanAdopted /\ ~PlanRefused
      BY <1>1, <2>2, <3>1, <3>2, <3>3, NewRows
    <3> QED
      BY <3>4 DEF PlanRefused
  <2> QED
    BY <2>1, <2>2
<1>3. PlanAdopted'
  BY <1>1, <1>2, SuccessStays DEF PlanAdopted
<1> QED
  BY <1>2, <1>3

-------------------------------------------------------------------------------
(* Shape: what waits for what *)

\* A row has the dependencies it was given when it was made; a repair adds its
\* reintegration to those of the task that it repairs.
Shaped(rows) ==
    \A t \in Tasks : rows[t].status # "ABSENT" =>
        /\ t \in Bootstrap => rows[t].deps = BootstrapDeps[t]
        /\ t \in PlanTasks => /\ PlanDeps[t] \subseteq rows[t].deps
                              /\ rows[t].deps \subseteq PlanDeps[t] \cup ReintegrateTasks
        /\ t \in ReintegrateTasks => rows[t].deps \subseteq RepairTasks
        /\ t \in RepairTasks => rows[t].deps = {}

DependenciesShaped == Shaped(task)

\* A task is of one kind.
LEMMA Kinds ==
    /\ Bootstrap \cap PlanTasks = {} /\ Repairable \subseteq PlanTasks
    /\ (RepairTasks \cup ReintegrateTasks) \cap (Bootstrap \cup PlanTasks) = {}
    /\ RepairTasks \cap ReintegrateTasks = {}
BY NamesAssumption, PlanAssumption

LEMMA ShapeStep ==
    ASSUME TypeInv, WaveOK, DependenciesShaped, Next
    PROVE  DependenciesShaped'
<1> SUFFICES ASSUME NEW t \in Tasks, task'[t].status # "ABSENT"
             PROVE  /\ t \in Bootstrap => task'[t].deps = BootstrapDeps[t]
                    /\ t \in PlanTasks => /\ PlanDeps[t] \subseteq task'[t].deps
                                          /\ task'[t].deps \subseteq PlanDeps[t] \cup ReintegrateTasks
                    /\ t \in ReintegrateTasks => task'[t].deps \subseteq RepairTasks
                    /\ t \in RepairTasks => task'[t].deps = {}
  BY DEF DependenciesShaped, Shaped
<1>1. RowStep(t)
  BY RowSteps
<1>2. CASE task'[t].deps = task[t].deps /\ task[t].status # "ABSENT"
  BY <1>2 DEF DependenciesShaped, Shaped
<1>3. CASE Created(t)
  <2>1. CASE t \in RepairTasks /\ task'[t].deps = {}
    BY <2>1, Kinds
  <2>2. CASE SaveBootstrapTask(t) /\ task'[t].deps = BootstrapDeps[t]
    <3>1. t \in Bootstrap
      BY <2>2 DEF SaveBootstrapTask, IsFirst, Missing
    <3> QED
      BY <2>2, <3>1, Kinds
  <2>3. ASSUME NEW u \in Tasks, task'[t].deps = {RepairOf[u][NextRepair]},
               t \in ReintegrateTasks, RepairOf[u][NextRepair] \in RepairTasks
        PROVE  /\ task'[t].deps \subseteq RepairTasks
               /\ t \notin Bootstrap /\ t \notin PlanTasks /\ t \notin RepairTasks
    BY <2>3, Kinds
  <2>4. CASE t \in PlanTasks /\ task'[t].deps = PlanDeps[t]
    BY <2>4, Kinds
  <2> QED
    BY <1>3, <2>1, <2>2, <2>3, <2>4 DEF Created
<1>4. CASE Routed(t)
  <2>1. CASE task'[t].deps = task[t].deps
    BY <1>2, <1>4, <2>1 DEF Routed
  <2>2. CASE /\ task'[t].deps = task[t].deps \cup {Reintegrate[NextRepair]}
             /\ CanRepair(t) /\ Reintegrate[NextRepair] \in ReintegrateTasks
    <3>1. t \in PlanTasks /\ t \notin Bootstrap /\ t \notin ReintegrateTasks /\ t \notin RepairTasks
      BY <2>2, Kinds DEF CanRepair
    <3>2. PlanDeps[t] \subseteq task[t].deps /\ task[t].deps \subseteq PlanDeps[t] \cup ReintegrateTasks
      BY <1>4, <3>1 DEF DependenciesShaped, Shaped, Routed
    <3> QED
      BY <2>2, <3>1, <3>2
  <2> QED
    BY <1>4, <2>1, <2>2 DEF Routed
<1> QED
  BY <1>1, <1>2, <1>3, <1>4 DEF RowStep, Kept, Cleared, Requeued, Started, Ended, WaveOK

\* Of any tasks that are rows one waits for none of the others: no deadlock
\* comes from the repairs that were added to the plan.
LEMMA SomethingFree ==
    ASSUME NEW rows, Shaped(rows), NEW S \in SUBSET Tasks, S # {},
           \A t \in S : rows[t].status # "ABSENT",
           S \cap PlanTasks # {} => ValidPlan(PlanTasks, PlanDeps)
    PROVE  \E t \in S : rows[t].deps \cap S = {}
<1>1. CASE S \cap RepairTasks # {}
  <2>1. PICK t \in S : t \in RepairTasks
    BY <1>1
  <2>2. rows[t].deps = {}
    BY <2>1 DEF Shaped
  <2> QED
    BY <2>2
<1>2. CASE S \cap RepairTasks = {} /\ S \cap ReintegrateTasks # {}
  <2>1. PICK t \in S : t \in ReintegrateTasks
    BY <1>2
  <2>2. rows[t].deps \subseteq RepairTasks
    BY <2>1 DEF Shaped
  <2> QED
    BY <1>2, <2>2
<1>3. CASE S \cap ReintegrateTasks = {} /\ S \cap PlanTasks # {}
  <2> DEFINE P == S \cap PlanTasks
  <2>1. ValidPlan(PlanTasks, PlanDeps)
    BY <1>3
  <2>2. PICK t \in P : PlanDeps[t] \cap P = {}
    BY <1>3, <2>1 DEF ValidPlan, Acyclic
  <2>3. t \in S /\ t \in PlanTasks
    BY <2>2
  <2>4. /\ rows[t].deps \subseteq PlanDeps[t] \cup ReintegrateTasks
        /\ PlanDeps[t] \subseteq PlanTasks
    BY <2>1, <2>3 DEF Shaped, ValidPlan
  <2> QED
    BY <1>3, <2>2, <2>3, <2>4
<1>4. CASE S \subseteq Bootstrap
  <2>1. \A t \in S : rows[t].deps = BootstrapDeps[t]
    BY <1>4 DEF Shaped
  <2>2. /\ BootstrapDeps["normalize"] = {} /\ BootstrapDeps["analyze"] = {"normalize"}
        /\ BootstrapDeps["create_plan"] = {"analyze"}
    BY DEF BootstrapDeps
  <2>3. CASE "normalize" \in S
    BY <2>1, <2>2, <2>3
  <2>4. CASE "normalize" \notin S /\ "analyze" \in S
    BY <2>1, <2>2, <2>4
  <2>5. CASE "normalize" \notin S /\ "analyze" \notin S
    <3>1. S = {"create_plan"}
      BY <1>4, <2>5 DEF Bootstrap
    <3> QED
      BY <2>1, <2>2, <3>1
  <2> QED
    BY <2>3, <2>4, <2>5
<1> QED
  BY <1>1, <1>2, <1>3, <1>4 DEF Tasks


-------------------------------------------------------------------------------
(* Repairs *)

\* How the process moves through the rows of a repair.
LEMMA RepairMoves ==
    ASSUME TypeInv, Next
    PROVE  \/ \E t \in Tasks : SaveRepair(t) /\ pc' = "repair" /\ UNCHANGED run
           \/ \E t \in Tasks : SaveReintegrate(t) /\ pc' = "rewire" /\ UNCHANGED run
           \/ CountRepair
           \/ Crash /\ UNCHANGED <<run, task>>
           \/ /\ \E t \in Tasks : RepairCollides(t)
              /\ pc' = "idle" /\ UNCHANGED <<run, task>>
           \/ /\ run'.repairs = run.repairs
              /\ pc \in {"rewire", "count"} => pc' \in {"rewire", "count"}
              /\ pc = "repair" => pc' = "repair"
              /\ \A t \in Tasks : ~SaveRepair(t) /\ ~SaveReintegrate(t)
<1> USE DEF Goto, Stop
<1>0. run \in RunRow
  BY DEF TypeInv, TypeOK, RunRow
<1> USE <1>0 DEF RunRow
<1> DEFINE Adds(t) == SaveRepair(t) \/ SaveReintegrate(t)
<1>1. \A t \in Tasks : Adds(t) => /\ UNCHANGED run
                                  /\ \/ SaveRepair(t) /\ pc = "failures" /\ pc' = "repair"
                                     \/ SaveReintegrate(t) /\ pc = "repair" /\ pc' = "rewire"
  BY DEF SaveRepair, SaveReintegrate, Failed
<1>2. CASE \E t \in Tasks : Adds(t)
  BY <1>1, <1>2
<1>3. CASE ~\E t \in Tasks : Adds(t)
  <2>1. CASE BeginTick \/ Resume
    BY <1>3, <2>1
       DEF BeginTick, Resume, ConsumeApproved, ConsumeRefused, ClearGate, Promote,
           SavePromoted, SaveReviewReady, Proceed
  <2>2. CASE Loop
    BY <1>3, <2>2
       DEF Loop, NextWave, WithinBudget, WavesExhausted, TimeExhausted,
           MaterializeRaises, Schedule, Blocked, Finalize, Scheduling
  <2>3. CASE WaveDone \/ CountRepair \/ FailuresHandled \/ SavePause \/ GatesDone
    BY <1>3, <2>3 DEF WaveDone, FailuresHandled, SavePause, GatesDone
  <2>4. ASSUME NEW t \in Tasks, SaveBootstrapTask(t) \/ RecoverTask(t) \/ Execute(t)
        PROVE  /\ run' = run /\ pc \notin RepairWindow
    BY <2>4 DEF SaveBootstrapTask, RecoverTask, Execute, StartTask, TaskSucceeds, TaskFails,
                RepairWindow
  <2>5. ASSUME NEW t \in Tasks, HandleFailure(t), ~Adds(t), ~RepairCollides(t)
        PROVE  /\ run'.repairs = run.repairs
               /\ pc \in {"rewire", "count"} => pc' \in {"rewire", "count"}
               /\ pc = "repair" => pc' = "repair"
    BY <2>5 DEF HandleFailure, Failed, Retry, RetriesExhausted, TakeFallback, NoFallback,
                Rewire, Rollback, NoRepair
  <2>6. ASSUME NEW t \in Tasks, RepairCollides(t)
        PROVE  pc' = "idle" /\ UNCHANGED <<run, task>>
    BY <2>6 DEF RepairCollides
  <2>7. ASSUME NEW t \in Tasks, ProcessGate(t)
        PROVE  /\ run'.repairs = run.repairs /\ pc \notin RepairWindow
    BY <2>7 DEF ProcessGate, NextGate, GateAllowed, RequestApproval, GateDenied, RepairWindow
  <2>8. CASE Approver
    BY <1>3, <2>8 DEF Approver, Resolve
  <2>9. CASE Crash
    BY <1>3, <2>9 DEF Crash, durable
  <2> QED
    BY <1>3, <2>1, <2>2, <2>3, <2>4, <2>5, <2>6, <2>7, <2>8, <2>9
       DEF Next, Process, RepairWindow
<1> QED
  BY <1>2, <1>3

\* The names of repairs are nobody else's.
LEMMA RepairNamesFree ==
    ASSUME NEW u \in RepairTasks \cup ReintegrateTasks
    PROVE  u \in Tasks /\ u \notin Bootstrap /\ u \notin PlanTasks
BY NamesAssumption DEF Tasks

LEMMA RepairsStep ==
    ASSUME TypeInv, WaveOK, RepairsSurvive, Next
    PROVE  RepairsSurvive'
<1>1. CASE DiedIn(RepairWindow)
  BY <1>1, DeathsRecorded DEF RepairsSurvive
<1>2. CASE Crash /\ pc \in RepairWindow
  BY <1>2, DeathsRecorded DEF RepairsSurvive
<1>3. CASE RepairsCounted /\ ~(Crash /\ pc \in RepairWindow)
  <2>0. /\ run.repairs \in Nat
        /\ \A n \in 1..MaxRepairs : n \in Nat /\ Reintegrate[n] \in ReintegrateTasks
        /\ \A t \in Repairable, n \in 1..MaxRepairs : RepairOf[t][n] \in RepairTasks
    <3>1. run.repairs \in 0..MaxRepairs /\ MaxRepairs \in Nat
      BY RunType, BudgetAssumption DEF TypeInv
    <3> QED
      BY <3>1 DEF RepairTasks, ReintegrateTasks
  <2>1. CASE \E t \in Tasks : SaveRepair(t) /\ pc' = "repair" /\ UNCHANGED run
    <3>1. PICK t \in Tasks : SaveRepair(t) /\ pc' = "repair" /\ UNCHANGED run
      BY <2>1
    <3>2. /\ t \in Repairable /\ NextRepair \in 1..MaxRepairs /\ pc = "failures"
          /\ RepairOf[t][NextRepair] \in Tasks
          /\ Save(RepairOf[t][NextRepair], NewTask({}, FALSE))
      BY <3>1, RepairNumber, RepairNames DEF SaveRepair, CanRepair, Failed, TypeInv
    <3>3. \A u \in Tasks \ {RepairOf[t][NextRepair]} : task'[u] = task[u]
      BY <3>2, SaveOne
    <3>4. \A n \in 1..MaxRepairs : Reintegrate[n] # RepairOf[t][NextRepair]
      BY <2>0, <3>2, NamesAssumption
    <3>5. \A v \in Repairable, n \in 1..MaxRepairs :
             RepairOf[v][n] = RepairOf[t][NextRepair] => n = NextRepair
      BY <3>2, NamesAssumption
    <3>6. ASSUME NEW n \in 1..MaxRepairs, task'[Reintegrate[n]].status # "ABSENT"
          PROVE  n <= run.repairs
      BY <1>3, <2>0, <3>2, <3>3, <3>4, <3>6, RepairNamesFree DEF RepairsCounted
    <3>7. ASSUME NEW v \in Repairable, NEW n \in 1..MaxRepairs,
                 task'[RepairOf[v][n]].status # "ABSENT"
          PROVE  n <= run.repairs + 1
      <4>1. CASE RepairOf[v][n] = RepairOf[t][NextRepair]
        BY <2>0, <3>5, <4>1 DEF NextRepair
      <4>2. CASE RepairOf[v][n] # RepairOf[t][NextRepair]
        <5>1. task[RepairOf[v][n]].status # "ABSENT"
          BY <2>0, <3>3, <3>7, <4>2, RepairNamesFree
        <5>2. n <= run.repairs
          BY <1>3, <2>0, <3>2, <5>1 DEF RepairsCounted
        <5> QED
          BY <2>0, <5>2
      <4> QED
        BY <4>1, <4>2
    <3> QED
      BY <2>0, <3>1, <3>6, <3>7 DEF RepairsSurvive, RepairsCounted
  <2>2. CASE \E t \in Tasks : SaveReintegrate(t) /\ pc' = "rewire" /\ UNCHANGED run
    <3>1. PICK t \in Tasks : SaveReintegrate(t) /\ pc' = "rewire" /\ UNCHANGED run
      BY <2>2
    <3>2. /\ NextRepair \in 1..MaxRepairs /\ pc = "repair"
          /\ Reintegrate[NextRepair] \in Tasks
          /\ Save(Reintegrate[NextRepair], NewTask({RepairOf[t][NextRepair]}, FALSE))
      BY <3>1, RepairNumber, RepairNames
         DEF SaveReintegrate, CanRepair, Goto, TypeInv, PlaceOK
    <3>3. \A u \in Tasks \ {Reintegrate[NextRepair]} : task'[u] = task[u]
      BY <3>2, SaveOne
    <3>4. \A v \in Repairable, n \in 1..MaxRepairs :
             RepairOf[v][n] # Reintegrate[NextRepair]
      BY <2>0, <3>2, NamesAssumption
    <3>5. ASSUME NEW n \in 1..MaxRepairs, task'[Reintegrate[n]].status # "ABSENT"
          PROVE  n <= run.repairs + 1
      <4>1. CASE Reintegrate[n] = Reintegrate[NextRepair]
        <5>1. n = NextRepair
          BY <3>2, <4>1, NamesAssumption
        <5> QED
          BY <2>0, <5>1 DEF NextRepair
      <4>2. CASE Reintegrate[n] # Reintegrate[NextRepair]
        <5>1. task[Reintegrate[n]].status # "ABSENT"
          BY <2>0, <3>3, <3>5, <4>2, RepairNamesFree
        <5>2. n <= run.repairs
          BY <1>3, <2>0, <3>2, <5>1 DEF RepairsCounted
        <5> QED
          BY <2>0, <5>2
      <4> QED
        BY <4>1, <4>2
    <3>6. ASSUME NEW v \in Repairable, NEW n \in 1..MaxRepairs,
                 task'[RepairOf[v][n]].status # "ABSENT"
          PROVE  n <= run.repairs + 1
      <4>1. task[RepairOf[v][n]].status # "ABSENT"
        BY <2>0, <3>3, <3>4, <3>6, RepairNamesFree
      <4> QED
        BY <1>3, <2>0, <3>2, <4>1 DEF RepairsCounted
    <3> QED
      BY <2>0, <3>1, <3>5, <3>6 DEF RepairsSurvive, RepairsCounted
  <2>3. CASE CountRepair
    <3>1. run'.repairs = run.repairs + 1 /\ pc = "count" /\ pc' = "failures" /\ task' = task
      BY <2>3 DEF CountRepair, Goto, NextRepair, TypeInv, TypeOK
    <3> QED
      BY <1>3, <2>0, <3>1 DEF RepairsSurvive, RepairsCounted
  <2>4. CASE Crash /\ UNCHANGED <<run, task>>
    <3>1. pc \notin RepairWindow /\ pc' = "idle"
      BY <1>3, <2>4 DEF Crash
    <3> QED
      BY <1>3, <2>0, <2>4, <3>1 DEF RepairsSurvive, RepairsCounted, RepairWindow
  <2>5. CASE /\ \E t \in Tasks : RepairCollides(t)
             /\ pc' = "idle" /\ UNCHANGED <<run, task>>
    <3>1. PICK t \in Tasks : RepairCollides(t)
      BY <2>5
    <3>2. CASE pc = "repair"
      <4>1. task[Reintegrate[NextRepair]].status # "ABSENT" /\ IsFirst(t, FailedTasks)
        BY <3>1, <3>2 DEF RepairCollides, Failed
      <4>2. NextRepair \in 1..MaxRepairs
        BY <3>2, <4>1, RepairNumber DEF CanRepair, TypeInv, PlaceOK
      <4>3. NextRepair <= run.repairs
        BY <1>3, <2>0, <3>2, <4>1, <4>2 DEF RepairsCounted
      <4> QED
        BY <2>0, <4>3 DEF NextRepair
    <3>3. CASE pc # "repair"
      <4>1. pc = "failures"
        BY <3>1, <3>3 DEF RepairCollides, Failed
      <4> QED
        BY <1>3, <2>0, <2>5, <4>1 DEF RepairsSurvive, RepairsCounted
    <3> QED
      BY <3>2, <3>3
  <2>6. CASE /\ run'.repairs = run.repairs
             /\ pc \in {"rewire", "count"} => pc' \in {"rewire", "count"}
             /\ pc = "repair" => pc' = "repair"
             /\ \A t \in Tasks : ~SaveRepair(t) /\ ~SaveReintegrate(t)
    <3>1. ASSUME NEW u \in RepairTasks \cup ReintegrateTasks, task'[u].status # "ABSENT"
          PROVE  task[u].status # "ABSENT"
      BY <2>6, <3>1, NewRows, RepairNamesFree
    <3> QED
      BY <1>3, <2>0, <2>6, <3>1 DEF RepairsSurvive, RepairsCounted
  <2> QED
    BY <2>1, <2>2, <2>3, <2>4, <2>5, <2>6, RepairMoves
<1> QED
  BY <1>1, <1>2, <1>3 DEF RepairsSurvive

-------------------------------------------------------------------------------
(* Failures *)

\* A task stays failed only while its failure is being routed, after the run
\* has ended, or because the process died before the routing was over.
FailuresRouted ==
    FailedTasks # {} => pc \in RouteWindow \/ run.status \in Terminal \/ DiedIn(RouteWindow)

\* What a step may do about failed tasks.
LEMMA FailureMoves ==
    ASSUME TypeInv, PlacesInv, Next
    PROVE  \/ pc' \in RouteWindow
           \/ run'.status \in Terminal
           \/ Crash
           \/ \E t \in Tasks : RepairCollides(t) /\ pc' = "idle"
           \/ FailedTasks = {} /\ UNCHANGED task
           \/ pc \notin RouteWindow /\ ~(run.status \in Terminal)
           \/ pc = pc' /\ UNCHANGED run
<1> USE DEF Goto, Stop, RouteWindow, RepairWindow, Terminal, PlacesInv
<1>0. run \in RunRow
  BY DEF TypeInv, TypeOK, RunRow
<1> USE <1>0 DEF RunRow
<1>1. CASE BeginTick \/ Resume
  BY <1>1 DEF BeginTick, Resume, ConsumeApproved, ConsumeRefused, ClearGate, Promote,
              SavePromoted, SaveReviewReady, Proceed
<1>2. CASE Loop
  BY <1>2 DEF Loop, NextWave, WithinBudget, WavesExhausted, TimeExhausted,
              MaterializeRaises, Schedule, Blocked, Finalize, Scheduling
<1>3. CASE WaveDone \/ CountRepair \/ FailuresHandled \/ SavePause \/ GatesDone
  BY <1>3 DEF WaveDone, CountRepair, FailuresHandled, SavePause, GatesDone
<1>4. ASSUME NEW t \in Tasks, SaveBootstrapTask(t) \/ RecoverTask(t) \/ Execute(t)
      PROVE  \/ pc' \in RouteWindow
             \/ pc \notin RouteWindow /\ ~(run.status \in Terminal)
  BY <1>4 DEF SaveBootstrapTask, RecoverTask, Execute, StartTask, TaskSucceeds, TaskFails
<1>5. ASSUME NEW t \in Tasks, HandleFailure(t)
      PROVE  \/ pc' \in RouteWindow \/ run'.status \in Terminal
             \/ RepairCollides(t) /\ pc' = "idle"
  BY <1>5 DEF HandleFailure, Failed, Retry, RetriesExhausted, TakeFallback, NoFallback,
              SaveRepair, SaveReintegrate, RepairCollides, Rewire, Rollback, NoRepair
<1>6. ASSUME NEW t \in Tasks, ProcessGate(t)
      PROVE  pc \notin RouteWindow /\ ~(run.status \in Terminal)
  BY <1>6 DEF ProcessGate, NextGate, GateAllowed, RequestApproval, GateDenied
<1>7. CASE Approver
  BY <1>7 DEF Approver, Resolve
<1> QED
  BY <1>1, <1>2, <1>3, <1>4, <1>5, <1>6, <1>7 DEF Next, Process

LEMMA NewFailures ==
    ASSUME TypeInv, WaveOK, Next, FailedTasks' # {}
    PROVE  FailedTasks # {} \/ pc = "wave"
<1>1. PICK t \in Tasks : task'[t].status = "FAILED"
  BY DEF FailedTasks
<1>2. RowStep(t)
  BY RowSteps
<1> QED
  BY <1>1, <1>2 DEF RowStep, Kept, Created, Cleared, Requeued, Started, Ended, Routed,
                    FailedTasks, WaveOK

\* A repair that is numbered from the saved count never meets its own names.
LEMMA NoCollision ==
    ASSUME TypeInv, RepairsCounted, NEW t \in Tasks
    PROVE  ~RepairCollides(t)
<1> SUFFICES ASSUME RepairCollides(t) PROVE FALSE
  OBVIOUS
<1>1. run.repairs \in 0..MaxRepairs /\ MaxRepairs \in Nat
  BY RunType, BudgetAssumption DEF TypeInv
<1>2. CanRepair(t)
  BY DEF RepairCollides, TypeInv, PlaceOK
<1>3. t \in Repairable /\ NextRepair \in 1..MaxRepairs
  BY <1>2, RepairNumber DEF CanRepair, TypeInv
<1>4. \/ pc = "failures" /\ task[RepairOf[t][NextRepair]].status # "ABSENT"
      \/ pc = "repair" /\ task[Reintegrate[NextRepair]].status # "ABSENT"
  BY DEF RepairCollides, Failed
<1>5. NextRepair <= run.repairs
  BY <1>1, <1>3, <1>4 DEF RepairsCounted
<1> QED
  BY <1>1, <1>5 DEF NextRepair

LEMMA RoutedStep ==
    ASSUME TypeInv, WaveOK, PlacesInv, RepairsSurvive, FailuresRouted, Next
    PROVE  FailuresRouted'
<1> SUFFICES ASSUME FailedTasks' # {}, ~DiedIn(RouteWindow)'
             PROVE  pc' \in RouteWindow \/ run'.status \in Terminal
  BY DEF FailuresRouted, RouteWindow, RepairWindow, Terminal, DiedIn
<1>1. ~DiedIn(RouteWindow)
  BY DeathsRecorded
<1>2. pc \in RouteWindow \/ run.status \in Terminal
  BY <1>1, NewFailures DEF FailuresRouted, RouteWindow
<1>3. CASE Crash
  <2>1. pc \notin RouteWindow
    BY <1>3, DeathsRecorded
  <2> QED
    BY <1>2, <1>3, <2>1 DEF Crash, durable
<1>4. CASE \E t \in Tasks : RepairCollides(t) /\ pc' = "idle"
  <2>1. DiedIn(RepairWindow)
    BY <1>4, NoCollision DEF RepairsSurvive
  <2> QED
    BY <1>1, <2>1 DEF DiedIn, RouteWindow
<1>5. CASE FailedTasks = {} /\ UNCHANGED task
  BY <1>5 DEF FailedTasks
<1> QED
  BY <1>2, <1>3, <1>4, <1>5, FailureMoves

\* A step that ends the run in failure.
LEMMA EndMoves ==
    ASSUME TypeInv, PlacesInv, Next, run'.status \in {"failed", "safe_stopped"}
    PROVE  \/ run.status \in {"failed", "safe_stopped"}
           \/ WavesExhausted \/ TimeExhausted \/ Blocked
           \/ \E t \in Tasks : RetriesExhausted(t) \/ NoFallback(t) \/ Rollback(t) \/ NoRepair(t)
<1> USE DEF Goto, Stop, PlacesInv
<1>0. run \in RunRow
  BY DEF TypeInv, TypeOK, RunRow
<1> USE <1>0 DEF RunRow
<1>1. CASE BeginTick \/ Resume
  BY <1>1 DEF BeginTick, Resume, ConsumeApproved, ConsumeRefused, ClearGate, Promote,
              SavePromoted, SaveReviewReady, Proceed
<1>2. CASE Loop
  BY <1>2 DEF Loop, NextWave, WithinBudget, MaterializeRaises, Schedule, Finalize, Scheduling
<1>3. CASE WaveDone \/ CountRepair \/ FailuresHandled \/ SavePause \/ GatesDone
  BY <1>3 DEF WaveDone, CountRepair, FailuresHandled, SavePause, GatesDone
<1>4. ASSUME NEW t \in Tasks, SaveBootstrapTask(t) \/ RecoverTask(t) \/ Execute(t)
      PROVE  run.status \in {"failed", "safe_stopped"}
  BY <1>4 DEF SaveBootstrapTask, RecoverTask, Execute, StartTask, TaskSucceeds, TaskFails
<1>5. ASSUME NEW t \in Tasks, HandleFailure(t)
      PROVE  \/ run.status \in {"failed", "safe_stopped"}
             \/ RetriesExhausted(t) \/ NoFallback(t) \/ Rollback(t) \/ NoRepair(t)
  BY <1>5 DEF HandleFailure, Retry, TakeFallback, SaveRepair, SaveReintegrate,
              RepairCollides, Rewire
<1>6. ASSUME NEW t \in Tasks, ProcessGate(t)
      PROVE  run.status \in {"failed", "safe_stopped"}
  BY <1>6 DEF ProcessGate, NextGate, GateAllowed, RequestApproval, GateDenied
<1>7. CASE Approver \/ Crash
  BY <1>7 DEF Approver, Resolve, Crash, durable
<1> QED
  BY <1>1, <1>2, <1>3, <1>4, <1>5, <1>6, <1>7 DEF Next, Process

\* A failed task that ends the run had no way on, and has none afterwards.
LEMMA NoWayOn ==
    ASSUME TypeInv, NEW t \in Tasks,
           RetriesExhausted(t) \/ NoFallback(t) \/ Rollback(t) \/ NoRepair(t)
    PROVE  (task[t].status = "FAILED" /\ ~HasWayOn(t))'
<1>1. /\ UNCHANGED task /\ run'.repairs = run.repairs /\ task[t].status = "FAILED"
      /\ run \in RunRow
  BY DEF RetriesExhausted, NoFallback, Rollback, NoRepair, Failed, IsFirst, FailedTasks, Stop,
         TypeInv, TypeOK, RunRow
<1>2. task[t].attempts \in Nat /\ MaxAttempts[t] \in Nat
  <2>1. task[t] \in TaskRow
    BY RowType DEF TypeInv
  <2> QED
    BY <2>1, BudgetAssumption DEF TaskRow
<1>3. ~HasWayOn(t)
  BY <1>2 DEF RetriesExhausted, NoFallback, Rollback, NoRepair, Failed, HasWayOn, Retryable
<1>4. CanRepair(t)' = CanRepair(t)
  BY <1>1 DEF CanRepair
<1> QED
  BY <1>1, <1>3, <1>4 DEF HasWayOn

\* A run that nothing is ready in and no task of which failed is finished.
LEMMA NeverDeadlocked ==
    ASSUME TypeInv, WaveOK, TypeInv', DependenciesShaped', RowsOfAnAdoptedPlan', Scheduling, NothingReady
    PROVE  AnyFailed \/ Unfinished(Materialized) = {}
<1> SUFFICES ASSUME ~AnyFailed, Unfinished(Materialized) # {} PROVE FALSE
  OBVIOUS
<1>1. /\ task' = Materialized /\ DOMAIN task = Tasks /\ DOMAIN task' = Tasks
      /\ \A t \in Tasks : task[t].status # "RUNNING"
  BY DEF Scheduling, RunningTasks, TypeInv, TypeOK
<1>2. \A t \in Tasks : task'[t].status \notin {"RUNNING", "FAILED"}
  BY <1>1 DEF AnyFailed, Materialized, NewTask
<1>3. \A t \in Tasks : task'[t].status \in {"ABSENT", "PENDING", "SUCCEEDED"} /\ task'[t].deps \subseteq Tasks
  <2>1. \A t \in Tasks : task'[t] \in TaskRow
    <3> HIDE DEF TaskRow
    <3> QED
      BY DEF TypeInv, TypeOK
  <2> QED
    BY <1>2, <2>1 DEF TaskRow, TaskStatus
<1> DEFINE S == {t \in Tasks : task'[t].status = "PENDING"}
<1>4. S # {}
  BY <1>1, <1>2 DEF Unfinished
<1>4a. S \cap PlanTasks # {} => ValidPlan(PlanTasks, PlanDeps)
  BY DEF RowsOfAnAdoptedPlan
<1>5. PICK t \in S : task'[t].deps \cap S = {}
  <2>1. S \in SUBSET Tasks /\ S # {} /\ \A t \in S : task'[t].status # "ABSENT"
    BY <1>4
  <2> HIDE DEF S
  <2> QED
    BY <1>4a, <2>1, SomethingFree DEF DependenciesShaped
<1>6. \A d \in task'[t].deps \cap Present(task') : Satisfied(task'[d].status)
  BY <1>1, <1>3, <1>5 DEF Present, Satisfied
<1>7. t \in ReadyTasks(Materialized)
  BY <1>1, <1>5, <1>6 DEF ReadyTasks
<1> QED
  BY <1>7 DEF NothingReady


LEMMA RoutesStep ==
    ASSUME TypeInv, WaveOK, PlacesInv, FailuresRouted, RoutesSurvive, Next,
           TypeInv', DependenciesShaped', RowsOfAnAdoptedPlan'
    PROVE  RoutesSurvive'
<1> SUFFICES ASSUME ~DiedIn(RouteWindow)', run'.status \in {"failed", "safe_stopped"}
             PROVE  \/ \E t \in Tasks : (task[t].status = "FAILED" /\ ~HasWayOn(t))'
                    \/ run'.status = "safe_stopped" /\ (TimeMayRunOut \/ run'.waves > MaxWaves)
  BY DEF RoutesSurvive, GivesUpOnlyWhenExhausted
<1>1. ~DiedIn(RouteWindow)
  BY DeathsRecorded
<1>2. CASE run.status \in {"failed", "safe_stopped"}
  <2>1. UNCHANGED <<run, task>>
    BY <1>2, TerminalStays DEF Terminal
  <2> QED
    BY <1>1, <2>1 DEF RoutesSurvive, GivesUpOnlyWhenExhausted, HasWayOn, CanRepair
<1>3. CASE WavesExhausted \/ TimeExhausted
  BY <1>3 DEF WavesExhausted, TimeExhausted, Stop, TypeInv, TypeOK
<1>4. ASSUME NEW t \in Tasks,
             RetriesExhausted(t) \/ NoFallback(t) \/ Rollback(t) \/ NoRepair(t)
      PROVE  (task[t].status = "FAILED" /\ ~HasWayOn(t))'
  BY <1>4, NoWayOn
<1>5. ~Blocked
  <2> SUFFICES ASSUME Blocked PROVE FALSE
    OBVIOUS
  <2>1. pc = "recover" /\ Scheduling /\ NothingReady
    BY DEF Blocked, Scheduling
  <2>2. FailedTasks = {}
    BY <1>1, <2>1 DEF FailuresRouted, PlacesInv, RouteWindow, RepairWindow
  <2>3. ~AnyFailed
    BY <2>2 DEF AnyFailed, Materialized, NewTask, FailedTasks
  <2> QED
    BY <2>1, <2>3, NeverDeadlocked DEF Blocked
<1> QED
  BY <1>2, <1>3, <1>4, <1>5, EndMoves

-------------------------------------------------------------------------------
(* Questions and pauses *)

\* What a step may do to the approvals that are still open.
LEMMA QuestionMoves ==
    ASSUME TypeInv, PlacesInv, Next
    PROVE  \/ /\ UNCHANGED approvals
              /\ \/ UNCHANGED <<run, pc, hand>>
                 \/ /\ pc # "request"
                    /\ run.status # "awaiting_approval" \/ pc \in ConsumeWindow
                 \/ SavePause \/ ConsumeApproved \/ ConsumeRefused
                 \/ Crash
           \/ \E t \in Tasks : RequestApproval(t)
           \/ Approver
<1> USE DEF Goto, Stop, PlacesInv, ConsumeWindow
<1>1. CASE BeginTick \/ Resume
  BY <1>1 DEF BeginTick, Resume, ClearGate, Promote, SavePromoted,
              SaveReviewReady, Proceed, ConsumeApproved, ConsumeRefused
<1>2. CASE Loop
  BY <1>2 DEF Loop, NextWave, WithinBudget, WavesExhausted, TimeExhausted,
              MaterializeRaises, Schedule, Blocked, Finalize, Scheduling
<1>3. CASE WaveDone \/ CountRepair \/ FailuresHandled \/ SavePause \/ GatesDone
  BY <1>3 DEF WaveDone, CountRepair, FailuresHandled, GatesDone, SavePause
<1>4. ASSUME NEW t \in Tasks, SaveBootstrapTask(t) \/ RecoverTask(t) \/ Execute(t)
      PROVE  UNCHANGED approvals /\ pc # "request" /\ run.status # "awaiting_approval"
  BY <1>4 DEF SaveBootstrapTask, RecoverTask, Execute, StartTask, TaskSucceeds, TaskFails
<1>5. ASSUME NEW t \in Tasks, HandleFailure(t)
      PROVE  UNCHANGED approvals /\ pc # "request" /\ run.status # "awaiting_approval"
  BY <1>5 DEF HandleFailure, Failed, Retry, RetriesExhausted, TakeFallback, NoFallback,
              SaveRepair, SaveReintegrate, RepairCollides, Rewire, Rollback, NoRepair
<1>6. ASSUME NEW t \in Tasks, ProcessGate(t), ~RequestApproval(t)
      PROVE  UNCHANGED approvals /\ pc # "request" /\ run.status # "awaiting_approval"
  BY <1>6 DEF ProcessGate, NextGate, GateAllowed, GateDenied
<1>7. CASE Crash
  BY <1>7 DEF Crash, durable
<1> QED
  BY <1>1, <1>2, <1>3, <1>4, <1>5, <1>6, <1>7 DEF Next, Process

\* tick() is not cut short inside request() when the process does not die there.
LEMMA RequestIsSafe ==
    ASSUME Crash, "request" \notin CrashPoints
    PROVE  pc # "request"
BY DEF Crash, Killed, MergeRaises, RollbackRaises, Failed

LEMMA QuestionStep ==
    ASSUME TypeInv, PlacesInv, OneOpenQuestion, Next, "request" \notin CrashPoints
    PROVE  OneOpenQuestion'
<1>0. run \in RunRow /\ DOMAIN approvals \subseteq Nat \ {0}
  <2> DEFINE Row == [task : Tasks, status : {"pending", "approved", "rejected"}]
  <2>1. approvals \in Seq(Row)
    BY DEF TypeInv, TypeOK
  <2> HIDE DEF Row
  <2>2. DOMAIN approvals \subseteq Nat \ {0}
    BY <2>1
  <2> QED
    BY <2>2 DEF TypeInv, TypeOK, RunRow
<1>1. CASE UNCHANGED <<approvals, run, pc, hand>>
  BY <1>1 DEF OneOpenQuestion
<1>2. CASE /\ UNCHANGED approvals
           /\ pc # "request"
           /\ run.status # "awaiting_approval" \/ pc \in ConsumeWindow
  BY <1>0, <1>2 DEF OneOpenQuestion, PlacesInv
<1>3. CASE SavePause
  BY <1>0, <1>3 DEF SavePause, OneOpenQuestion, PlacesInv, RunRow, ConsumeWindow
<1>4. CASE ConsumeApproved \/ ConsumeRefused
  BY <1>4 DEF ConsumeApproved, ConsumeRefused, OneOpenQuestion, Goto, Stop
<1>5. CASE Crash
  BY <1>5, RequestIsSafe DEF Crash, durable, OneOpenQuestion
<1>6. ASSUME NEW t \in Tasks, RequestApproval(t)
      PROVE  OneOpenQuestion'
  <2>1. pc = "gates" /\ run.status # "awaiting_approval"
    BY <1>6 DEF RequestApproval, NextGate, PlacesInv, ConsumeWindow
  <2>2. /\ pc' = "request" /\ hand' = Len(approvals) + 1
        /\ DOMAIN approvals' = 1..Len(approvals) + 1
        /\ DOMAIN approvals = 1..Len(approvals)
        /\ Len(approvals) \in Nat
        /\ \A i \in DOMAIN approvals : approvals'[i] = approvals[i]
    BY <1>6, AppendType DEF RequestApproval, TypeInv
  <2>3. \A i \in DOMAIN approvals' : i \in DOMAIN approvals \/ i = hand'
    BY <2>2
  <2> QED
    BY <2>1, <2>2, <2>3 DEF OneOpenQuestion
<1>7. ASSUME NEW i \in DOMAIN approvals, NEW decision \in {"approved", "rejected"},
             Resolve(i, decision)
      PROVE  OneOpenQuestion'
  <2>1. /\ DOMAIN approvals' = DOMAIN approvals
        /\ \A j \in DOMAIN approvals \ {i} : approvals'[j] = approvals[j]
        /\ approvals'[i].status # "pending"
    BY <1>7, ResolveType DEF Resolve, TypeInv
  <2> QED
    BY <1>7, <2>1 DEF OneOpenQuestion, Resolve
<1> QED
  BY <1>1, <1>2, <1>3, <1>4, <1>5, <1>6, <1>7, QuestionMoves DEF Approver

\* Which steps bring a waiting run to rest.
LEMMA PauseMoves ==
    ASSUME TypeInv, PlacesInv, Next,
           pc' = "idle", run'.status = "awaiting_approval"
    PROVE  \/ pc = "idle" /\ UNCHANGED run
           \/ SavePause
           \/ Crash /\ UNCHANGED run
<1> USE DEF Goto, Stop, PlacesInv, ConsumeWindow
<1>0. run \in RunRow
  BY DEF TypeInv, TypeOK, RunRow
<1> USE <1>0 DEF RunRow
<1>1. ~(BeginTick \/ Resume)
  BY DEF BeginTick, Resume, ClearGate, Promote, SavePromoted,
         SaveReviewReady, Proceed, ConsumeApproved, ConsumeRefused
<1>2. ~Loop
  BY DEF Loop, NextWave, WithinBudget, WavesExhausted, TimeExhausted,
         MaterializeRaises, Schedule, Blocked, Finalize, Scheduling
<1>3. ~(WaveDone \/ CountRepair \/ FailuresHandled \/ GatesDone)
  BY DEF WaveDone, CountRepair, FailuresHandled, GatesDone
<1>4. ASSUME NEW t \in Tasks, SaveBootstrapTask(t) \/ RecoverTask(t) \/ Execute(t)
      PROVE  FALSE
  BY <1>4 DEF SaveBootstrapTask, RecoverTask, Execute, StartTask, TaskSucceeds, TaskFails
<1>5. ASSUME NEW t \in Tasks, HandleFailure(t)
      PROVE  FALSE
  BY <1>5 DEF HandleFailure, Failed, Retry, RetriesExhausted, TakeFallback, NoFallback,
              SaveRepair, SaveReintegrate, RepairCollides, Rewire, Rollback, NoRepair
<1>6. ASSUME NEW t \in Tasks, ProcessGate(t)
      PROVE  FALSE
  BY <1>6 DEF ProcessGate, NextGate, GateAllowed, GateDenied, RequestApproval
<1>7. CASE Approver \/ Crash
  BY <1>7 DEF Approver, Resolve, Crash, durable
<1> QED
  BY <1>1, <1>2, <1>3, <1>4, <1>5, <1>6, <1>7 DEF Next, Process

LEMMA PausesStep ==
    ASSUME TypeInv, PlacesInv, PausesSurvive, Next
    PROVE  PausesSurvive'
<1> SUFFICES ASSUME pc' = "idle", run'.status = "awaiting_approval", ~DiedIn(ConsumeWindow)'
             PROVE  run'.pending # 0
  BY DEF PausesSurvive, PausedOnAnApproval
<1>1. ~DiedIn(ConsumeWindow)
  BY DeathsRecorded
<1>2. CASE pc = "idle" /\ UNCHANGED run
  BY <1>1, <1>2 DEF PausesSurvive, PausedOnAnApproval
<1>3. CASE SavePause
  BY <1>3 DEF SavePause, PlacesInv, TypeInv, TypeOK
<1>4. CASE Crash /\ UNCHANGED run
  <2>1. pc \notin ConsumeWindow
    BY <1>4, DeathsRecorded
  <2>2. pc = "idle"
    BY <1>4, <2>1 DEF PlacesInv
  <2> QED
    BY <1>1, <1>4, <2>2 DEF PausesSurvive, PausedOnAnApproval
<1> QED
  BY <1>2, <1>3, <1>4, PauseMoves

-------------------------------------------------------------------------------
(* The theorems *)

OrderInv ==
    /\ SafeInv /\ PlacesInv
    /\ DependenciesShaped /\ RowsOfAnAdoptedPlan
    /\ RepairsSurvive /\ FailuresRouted /\ RoutesSurvive

LEMMA InitOrder == Init => OrderInv /\ OneOpenQuestion /\ PausesSurvive
<1> SUFFICES ASSUME Init PROVE OrderInv /\ OneOpenQuestion /\ PausesSurvive
  OBVIOUS
<1>1. SafeInv
  BY InitSafe
<1>2. \A t \in Tasks : task[t].status = "ABSENT"
  BY DEF Init, NoTask, NewTask
<1>3. PlacesInv
  BY DEF Init, PlacesInv, Terminal, ConsumeWindow
<1>4. RowsOfAnAdoptedPlan /\ DependenciesShaped
  BY <1>2 DEF RowsOfAnAdoptedPlan, DependenciesShaped, Shaped, Tasks
<1>5. RepairsSurvive
  BY <1>2 DEF RepairsSurvive, RepairsCounted, Tasks, RepairTasks, ReintegrateTasks
<1>6. FailuresRouted /\ RoutesSurvive
  BY <1>2 DEF Init, FailuresRouted, FailedTasks, RoutesSurvive, GivesUpOnlyWhenExhausted
<1>7. OneOpenQuestion /\ PausesSurvive
  BY DEF Init, OneOpenQuestion, PausesSurvive, PausedOnAnApproval
<1> QED
  BY <1>1, <1>3, <1>4, <1>5, <1>6, <1>7 DEF OrderInv

LEMMA OrderStutter ==
    ASSUME OrderInv, UNCHANGED vars
    PROVE  /\ PlacesInv' /\ DependenciesShaped' /\ RowsOfAnAdoptedPlan'
           /\ RepairsSurvive' /\ FailuresRouted' /\ RoutesSurvive'
<1>1. PlacesInv' /\ RowsOfAnAdoptedPlan' /\ DependenciesShaped'
  BY DEF OrderInv, vars, PlacesInv, RowsOfAnAdoptedPlan, PlanAdopted, DependenciesShaped
<1>2. RepairsSurvive' /\ FailuresRouted'
  BY DEF OrderInv, vars, RepairsSurvive, RepairsCounted, DiedIn, FailuresRouted, FailedTasks
<1>3. RoutesSurvive'
  BY DEF OrderInv, vars, RoutesSurvive, GivesUpOnlyWhenExhausted, DiedIn, HasWayOn, CanRepair
<1> QED
  BY <1>1, <1>2, <1>3

LEMMA OrderStep == OrderInv /\ [Next]_vars => OrderInv'
<1> SUFFICES ASSUME OrderInv, [Next]_vars PROVE OrderInv'
  OBVIOUS
<1>1. SafeInv'
  BY SafeStep DEF OrderInv
<1>2. TypeInv /\ WaveOK
  BY DEF OrderInv, SafeInv
<1>3. CASE Next
  <2>1. PlacesInv' /\ RowsOfAnAdoptedPlan' /\ RepairsSurvive' /\ FailuresRouted'
    BY <1>2, <1>3, PlacesStep, RowsStep, RepairsStep, RoutedStep DEF OrderInv
  <2>2. DependenciesShaped'
    BY <1>2, <1>3, ShapeStep DEF OrderInv
  <2>3. RoutesSurvive'
    BY <1>1, <1>2, <1>3, <2>1, <2>2, RoutesStep DEF OrderInv, SafeInv
  <2> QED
    BY <1>1, <2>1, <2>2, <2>3 DEF OrderInv
<1>4. CASE UNCHANGED vars
  BY <1>1, <1>4, OrderStutter DEF OrderInv
<1> QED
  BY <1>3, <1>4

LEMMA AlwaysInOrder == Spec => []OrderInv
<1>1. Init => OrderInv
  BY InitOrder
<1> QED
  BY <1>1, OrderStep, PTL DEF Spec

\* No task of a plan is persisted before the plan is adopted and found to be a
\* graph, wherever the process dies.
THEOREM PlanBeforeRows == Spec => []RowsOfAnAdoptedPlan
<1>1. OrderInv => RowsOfAnAdoptedPlan
  BY DEF OrderInv
<1> QED
  BY <1>1, AlwaysInOrder, PTL

\* max_repairs bounds the repairs that exist, unless the process died between
\* the rows of a repair and the save of its count.
THEOREM RepairsBounded == Spec => []RepairsSurvive
<1>1. OrderInv => RepairsSurvive
  BY DEF OrderInv
<1> QED
  BY <1>1, AlwaysInOrder, PTL

\* A run gives up on its tasks only when one of them is out of retries,
\* fallbacks and repairs: it is never blocked by a deadlock of its own making.
\* A death in the middle of the routing, or a rollback that raises there, is the
\* one exception.
THEOREM RoutesFollowed == Spec => []RoutesSurvive
<1>1. OrderInv => RoutesSurvive
  BY DEF OrderInv
<1> QED
  BY <1>1, AlwaysInOrder, PTL

\* The approver has at most one question open, unless the process died between
\* an approval and the pause on it.
THEOREM OneQuestion ==
    ASSUME "request" \notin CrashPoints
    PROVE  Spec => []OneOpenQuestion
<1>1. Init => OneOpenQuestion
  BY InitOrder
<1>2. OrderInv /\ OneOpenQuestion /\ [Next]_vars => OneOpenQuestion'
  <2>1. OrderInv /\ OneOpenQuestion /\ Next => OneOpenQuestion'
    BY QuestionStep DEF OrderInv, SafeInv
  <2>2. OneOpenQuestion /\ UNCHANGED vars => OneOpenQuestion'
    BY DEF OneOpenQuestion, vars
  <2> QED
    BY <2>1, <2>2
<1> QED
  BY <1>1, <1>2, AlwaysInOrder, PTL DEF Spec

\* A run that waits for approval knows what it waits for, unless tick() was cut
\* short while it resumed the run: by the death of the process, or by a merge
\* that raised (resolve_and_resume, WorkspaceManager.promote).
THEOREM PausesAreFound == Spec => []PausesSurvive
<1>1. Init => PausesSurvive
  BY InitOrder
<1>2. OrderInv /\ PausesSurvive /\ [Next]_vars => PausesSurvive'
  <2>1. OrderInv /\ PausesSurvive /\ Next => PausesSurvive'
    BY PausesStep DEF OrderInv, SafeInv
  <2>2. PausesSurvive /\ UNCHANGED vars => PausesSurvive'
    BY DEF PausesSurvive, PausedOnAnApproval, DiedIn, vars
  <2> QED
    BY <2>1, <2>2
<1> QED
  BY <1>1, <1>2, AlwaysInOrder, PTL DEF Spec
-------------------------------------------------------------------------------
(* What the rows of a repair are tied to *)

\* The failure of t is for a repair, a rollback or nobody to deal with.
Broken(t) == task[t].status = "FAILED" /\ task[t].class = "deterministic"

Repairing == pc = "repair" => \A t \in Tasks : IsFirst(t, FailedTasks) => Broken(t)

\* Every reintegration is waited for by a task of the plan; or else the process
\* died before the task it was for got to wait for it, and that task stays as
\* it is, because the names of the next repair are taken for ever.
Awaited ==
    \A n \in 1..MaxRepairs : task[Reintegrate[n]].status # "ABSENT" =>
        \/ \E u \in PlanTasks : task[u].status # "ABSENT" /\ Reintegrate[n] \in task[u].deps
        \/ n = NextRepair /\ pc # "count" /\ \E t \in Repairable : Broken(t)

\* Every repair has its reintegration, or is about to get it.
Reintegrated ==
    \A t \in Repairable, n \in 1..MaxRepairs : task[RepairOf[t][n]].status # "ABSENT" =>
        \/ task[Reintegrate[n]].status # "ABSENT" /\ RepairOf[t][n] \in task[Reintegrate[n]].deps
        \/ pc = "repair" /\ n = NextRepair /\ IsFirst(t, FailedTasks)

RepairsLinked == Repairing /\ Awaited /\ (DiedIn(RepairWindow) \/ Reintegrated)

LEMMA DependenciesGrow ==
    ASSUME TypeInv, WaveOK, Next, NEW t \in Tasks, task[t].status # "ABSENT"
    PROVE  task'[t].status # "ABSENT" /\ task[t].deps \subseteq task'[t].deps
<1>1. RowStep(t)
  BY RowSteps
<1> QED
  BY <1>1 DEF RowStep, Kept, Created, Cleared, Requeued, Started, Ended, Routed, WaveOK

\* Only a repair helps a task that is broken.
LEMMA BrokenStays ==
    ASSUME TypeInv, WaveOK, Next, NEW t \in Tasks, Broken(t)
    PROVE  \/ Broken(t)'
           \/ /\ pc = "rewire" /\ CanRepair(t)
              /\ task'[t].status # "ABSENT" /\ Reintegrate[NextRepair] \in task'[t].deps
<1>1. RowStep(t)
  BY RowSteps
<1> QED
  BY <1>1 DEF RowStep, Kept, Created, Cleared, Requeued, Started, Ended, Routed, WaveOK, Broken

LEMMA CountPlaces ==
    ASSUME Next, pc' = "count"
    PROVE  pc = "count" \/ \E t \in Tasks : Rewire(t)
<1> USE DEF Goto, Stop
<1>1. ~(BeginTick \/ Resume)
  BY DEF BeginTick, Resume, ConsumeApproved, ConsumeRefused, ClearGate, Promote,
         SavePromoted, SaveReviewReady, Proceed
<1>2. ~Loop \/ pc = "count"
  BY DEF Loop, NextWave, WithinBudget, WavesExhausted, TimeExhausted,
         MaterializeRaises, Schedule, Blocked, Finalize
<1>3. ~(WaveDone \/ CountRepair \/ FailuresHandled \/ SavePause \/ GatesDone)
  BY DEF WaveDone, CountRepair, FailuresHandled, SavePause, GatesDone
<1>4. ASSUME NEW t \in Tasks, SaveBootstrapTask(t) \/ RecoverTask(t) \/ Execute(t)
      PROVE  pc = "count"
  BY <1>4 DEF SaveBootstrapTask, RecoverTask, Execute, StartTask, TaskSucceeds, TaskFails
<1>5. ASSUME NEW t \in Tasks, HandleFailure(t)
      PROVE  pc = "count" \/ Rewire(t)
  BY <1>5 DEF HandleFailure, Failed, Retry, RetriesExhausted, TakeFallback, NoFallback,
              SaveRepair, SaveReintegrate, RepairCollides, Rollback, NoRepair
<1>6. ASSUME NEW t \in Tasks, ProcessGate(t)
      PROVE  pc = "count"
  BY <1>6 DEF ProcessGate, NextGate, GateAllowed, RequestApproval, GateDenied
<1>7. CASE Approver \/ Crash
  BY <1>7 DEF Approver, Resolve, Crash
<1> QED
  BY <1>1, <1>2, <1>3, <1>4, <1>5, <1>6, <1>7 DEF Next, Process

\* The first and the second row of a repair.
LEMMA RepairSaved ==
    ASSUME TypeInv, NEW t \in Tasks, SaveRepair(t)
    PROVE  /\ t \in Repairable /\ NextRepair \in 1..MaxRepairs
           /\ IsFirst(t, FailedTasks) /\ Broken(t)
           /\ pc = "failures" /\ pc' = "repair" /\ UNCHANGED run
           /\ task[RepairOf[t][NextRepair]].status = "ABSENT"
           /\ \A u \in Tasks \ {RepairOf[t][NextRepair]} : task'[u] = task[u]
           /\ FailedTasks' = FailedTasks
<1>1. /\ t \in Repairable /\ NextRepair \in 1..MaxRepairs
      /\ RepairOf[t][NextRepair] \in Tasks
      /\ Save(RepairOf[t][NextRepair], NewTask({}, FALSE))
  BY RepairNumber, RepairNames DEF SaveRepair, CanRepair, TypeInv
<1>2. /\ \A u \in Tasks \ {RepairOf[t][NextRepair]} : task'[u] = task[u]
      /\ task'[RepairOf[t][NextRepair]].status = "PENDING"
      /\ task[RepairOf[t][NextRepair]].status = "ABSENT"
  BY <1>1, SaveOne DEF SaveRepair, NewTask
<1>3. FailedTasks' = FailedTasks
  BY <1>1, <1>2 DEF FailedTasks
<1>4. /\ IsFirst(t, FailedTasks) /\ Broken(t)
      /\ pc = "failures" /\ pc' = "repair" /\ UNCHANGED run
  BY DEF SaveRepair, Failed, IsFirst, FailedTasks, Broken
<1> QED
  BY <1>1, <1>2, <1>3, <1>4

LEMMA ReintegrateSaved ==
    ASSUME TypeInv, NEW t \in Tasks, SaveReintegrate(t)
    PROVE  /\ t \in Repairable /\ NextRepair \in 1..MaxRepairs
           /\ IsFirst(t, FailedTasks) /\ task[t].status = "FAILED"
           /\ pc = "repair" /\ pc' = "rewire" /\ UNCHANGED run
           /\ task[Reintegrate[NextRepair]].status = "ABSENT"
           /\ task'[Reintegrate[NextRepair]].status = "PENDING"
           /\ task'[Reintegrate[NextRepair]].deps = {RepairOf[t][NextRepair]}
           /\ \A u \in Tasks \ {Reintegrate[NextRepair]} : task'[u] = task[u]
<1>1. /\ t \in Repairable /\ NextRepair \in 1..MaxRepairs
      /\ Reintegrate[NextRepair] \in Tasks
      /\ Save(Reintegrate[NextRepair], NewTask({RepairOf[t][NextRepair]}, FALSE))
  BY RepairNumber, RepairNames DEF SaveReintegrate, CanRepair, TypeInv, PlaceOK, Goto
<1>2. /\ \A u \in Tasks \ {Reintegrate[NextRepair]} : task'[u] = task[u]
      /\ task'[Reintegrate[NextRepair]].status = "PENDING"
      /\ task'[Reintegrate[NextRepair]].deps = {RepairOf[t][NextRepair]}
      /\ task[Reintegrate[NextRepair]].status = "ABSENT"
  BY <1>1, SaveOne DEF SaveReintegrate, NewTask
<1>3. /\ IsFirst(t, FailedTasks) /\ task[t].status = "FAILED"
      /\ pc = "repair" /\ pc' = "rewire" /\ UNCHANGED run
  BY DEF SaveReintegrate, IsFirst, FailedTasks, Goto
<1> QED
  BY <1>1, <1>2, <1>3

LEMMA RepairingStep ==
    ASSUME TypeInv, Repairing, Next
    PROVE  Repairing'
<1>1. CASE pc' = pc /\ UNCHANGED <<run, task>>
  BY <1>1 DEF Repairing, IsFirst, FailedTasks, Broken
<1>2. ASSUME NEW t \in Tasks, SaveRepair(t)
      PROVE  Repairing'
  <2>1. /\ IsFirst(t, FailedTasks) /\ Broken(t) /\ FailedTasks' = FailedTasks
        /\ task'[t] = task[t] /\ FailedTasks \in SUBSET Tasks
    BY <1>2, RepairSaved DEF Broken, FailedTasks
  <2>2. ASSUME NEW u \in Tasks, IsFirst(u, FailedTasks)'
        PROVE  u = t
    <3>1. IsFirst(u, FailedTasks)
      BY <2>1, <2>2 DEF IsFirst
    <3> QED
      BY <2>1, <3>1, FirstUnique
  <2> QED
    BY <2>1, <2>2 DEF Repairing, Broken
<1>3. CASE pc' # "repair"
  BY <1>3 DEF Repairing
<1> QED
  BY <1>1, <1>2, <1>3, RepairPlaces

LEMMA AwaitedStep ==
    ASSUME TypeInv, WaveOK, Repairing, Awaited, Next
    PROVE  Awaited'
<1> SUFFICES ASSUME NEW n \in 1..MaxRepairs, task'[Reintegrate[n]].status # "ABSENT"
             PROVE  \/ \E u \in PlanTasks :
                          task'[u].status # "ABSENT" /\ Reintegrate[n] \in task'[u].deps
                    \/ n = NextRepair' /\ pc' # "count" /\ \E t \in Repairable : Broken(t)'
  BY DEF Awaited
<1>0. /\ Reintegrate[n] \in ReintegrateTasks /\ Reintegrate[n] \in Tasks
      /\ PlanTasks \subseteq Tasks /\ Repairable \subseteq PlanTasks
  BY Kinds DEF ReintegrateTasks, Tasks
<1>1. CASE task[Reintegrate[n]].status = "ABSENT"
  <2>1. ASSUME NEW t \in Tasks, SaveRepair(t)
        PROVE  Reintegrate[n] # RepairOf[t][NextRepair]
    BY <1>0, <2>1, RepairSaved, Kinds DEF RepairTasks
  <2>2. PICK t \in Tasks : SaveReintegrate(t) /\ Reintegrate[n] = Reintegrate[NextRepair]
    BY <1>0, <1>1, <2>1, NewRows, Kinds
  <2>3. /\ t \in Repairable /\ IsFirst(t, FailedTasks) /\ pc = "repair" /\ pc' = "rewire"
        /\ UNCHANGED run /\ n = NextRepair /\ task'[t] = task[t]
    BY <1>1, <2>2, ReintegrateSaved, NamesAssumption
  <2>4. Broken(t)' /\ NextRepair' = NextRepair
    BY <2>3 DEF Repairing, Broken, NextRepair
  <2> QED
    BY <2>3, <2>4
<1>2. ASSUME NEW u \in PlanTasks, task[u].status # "ABSENT", Reintegrate[n] \in task[u].deps
      PROVE  task'[u].status # "ABSENT" /\ Reintegrate[n] \in task'[u].deps
  BY <1>0, <1>2, DependenciesGrow
<1>3. ASSUME n = NextRepair, pc # "count", NEW t \in Repairable, Broken(t)
      PROVE  \/ \E u \in PlanTasks :
                   task'[u].status # "ABSENT" /\ Reintegrate[n] \in task'[u].deps
             \/ n = NextRepair' /\ pc' # "count" /\ Broken(t)'
  <2>1. CASE ~Broken(t)'
    BY <1>0, <1>3, <2>1, BrokenStays
  <2>2. CASE pc' = "count"
    <3>1. PICK u \in Tasks : Rewire(u)
      BY <1>3, <2>2, CountPlaces
    <3>2. CanRepair(u) /\ task[u].status = "FAILED"
      BY <3>1 DEF Rewire, TypeInv, PlaceOK, Goto, IsFirst, FailedTasks
    <3>3. task'[u].status # "ABSENT" /\ Reintegrate[NextRepair] \in task'[u].deps
      <4> DEFINE row == task[u]
                 deps == row.deps \cup {Reintegrate[NextRepair]}
                 new == [row EXCEPT !.status = "PENDING", !.attempts = 0, !.class = "none",
                                    !.deps = deps]
      <4>1. Save(u, new) /\ row \in TaskRow
        BY <3>1, RowType DEF Rewire, TypeInv
      <4>2. new.status = "PENDING" /\ new.deps = deps
        <5> HIDE DEF row, deps
        <5> QED
          BY <4>1 DEF TaskRow
      <4> HIDE DEF new
      <4>3. task'[u] = new
        BY <4>1, SaveOne
      <4> QED
        BY <4>2, <4>3
    <3>4. u \in PlanTasks
      BY <1>0, <3>2 DEF CanRepair
    <3> QED
      BY <1>3, <3>3, <3>4
  <2>3. CASE Broken(t)' /\ pc' # "count"
    <3>1. ~CountRepair
      BY <1>3 DEF CountRepair, Goto
    <3>2. run'.repairs = run.repairs
      BY <3>1, RepairMoves
    <3> QED
      BY <1>3, <2>3, <3>2 DEF NextRepair
  <2> QED
    BY <2>1, <2>2, <2>3
<1> QED
  BY <1>1, <1>2, <1>3 DEF Awaited

LEMMA ReintegratedStep ==
    ASSUME TypeInv, WaveOK, RepairsSurvive, Next, DiedIn(RepairWindow) \/ Reintegrated
    PROVE  (DiedIn(RepairWindow) \/ Reintegrated)'
<1> SUFFICES ASSUME ~DiedIn(RepairWindow)', NEW t \in Repairable, NEW n \in 1..MaxRepairs,
                    task'[RepairOf[t][n]].status # "ABSENT"
             PROVE  \/ /\ task'[Reintegrate[n]].status # "ABSENT"
                       /\ RepairOf[t][n] \in task'[Reintegrate[n]].deps
                    \/ pc' = "repair" /\ n = NextRepair' /\ IsFirst(t, FailedTasks)'
  BY DEF Reintegrated
<1>0. /\ RepairOf[t][n] \in Tasks /\ RepairOf[t][n] \in RepairTasks
      /\ Reintegrate[n] \in Tasks /\ Reintegrate[n] \in ReintegrateTasks
      /\ t \in Tasks
  BY PlanAssumption DEF RepairTasks, ReintegrateTasks, Tasks
<1>1. /\ ~DiedIn(RepairWindow) /\ Reintegrated /\ RepairsCounted
      /\ ~(Crash /\ pc \in RepairWindow)
  BY DeathsRecorded DEF RepairsSurvive
<1>2. CASE task[RepairOf[t][n]].status = "ABSENT"
  <2>1. ASSUME NEW u \in Tasks, SaveReintegrate(u)
        PROVE  RepairOf[t][n] # Reintegrate[NextRepair]
    BY <1>0, <2>1, ReintegrateSaved, Kinds DEF ReintegrateTasks
  <2>2. PICK u \in Tasks : SaveRepair(u) /\ RepairOf[t][n] = RepairOf[u][NextRepair]
    BY <1>0, <1>2, <2>1, NewRows, Kinds
  <2>3. /\ u \in Repairable /\ IsFirst(u, FailedTasks) /\ FailedTasks' = FailedTasks
        /\ pc' = "repair" /\ NextRepair' = NextRepair /\ NextRepair \in 1..MaxRepairs
    BY <2>2, RepairSaved DEF NextRepair
  <2>4. u = t /\ n = NextRepair
    BY <2>2, <2>3, NamesAssumption
  <2> QED
    BY <2>3, <2>4 DEF IsFirst
<1>3. CASE task[Reintegrate[n]].status # "ABSENT" /\ RepairOf[t][n] \in task[Reintegrate[n]].deps
  BY <1>0, <1>3, DependenciesGrow
<1>4. CASE pc = "repair" /\ n = NextRepair /\ IsFirst(t, FailedTasks)
  <2>1. ASSUME NEW u \in Tasks, SaveReintegrate(u)
        PROVE  /\ task'[Reintegrate[n]].status # "ABSENT"
               /\ RepairOf[t][n] \in task'[Reintegrate[n]].deps
    <3>1. IsFirst(u, FailedTasks) /\ FailedTasks \in SUBSET Tasks
      BY <2>1, ReintegrateSaved DEF FailedTasks
    <3>2. u = t
      BY <1>0, <1>4, <3>1, FirstUnique
    <3> QED
      BY <1>4, <2>1, <3>2, ReintegrateSaved
  <2>2. ASSUME NEW u \in Tasks
        PROVE  ~SaveRepair(u) /\ ~RepairCollides(u)
    BY <1>1, <1>4, RepairSaved, NoCollision
  <2>3. ~CountRepair
    BY <1>4 DEF CountRepair, Goto
  <2>4. CASE pc' = "repair" /\ \A u \in Tasks : ~SaveRepair(u) /\ ~SaveReintegrate(u)
    <3>1. UNCHANGED <<run, task>>
      BY <2>4, RepairPlaces
    <3> QED
      BY <1>4, <2>4, <3>1 DEF NextRepair, IsFirst, FailedTasks
  <2> QED
    BY <1>1, <1>4, <2>1, <2>2, <2>3, <2>4, RepairMoves DEF RepairWindow
<1> QED
  BY <1>1, <1>2, <1>3, <1>4 DEF Reintegrated

LEMMA InitLinked == Init => RepairsLinked
<1> SUFFICES ASSUME Init PROVE RepairsLinked
  OBVIOUS
<1>1. \A t \in Tasks : task[t].status = "ABSENT"
  BY DEF Init, NoTask, NewTask
<1>2. RepairTasks \subseteq Tasks /\ ReintegrateTasks \subseteq Tasks
  BY DEF Tasks
<1>3. pc = "start"
  BY DEF Init
<1> QED
  BY <1>1, <1>2, <1>3 DEF RepairsLinked, Repairing, Awaited, Reintegrated, RepairTasks, ReintegrateTasks

LEMMA LinkedStep == OrderInv /\ RepairsLinked /\ [Next]_vars => RepairsLinked'
<1> SUFFICES ASSUME OrderInv, RepairsLinked, [Next]_vars PROVE RepairsLinked'
  OBVIOUS
<1>1. CASE Next
  BY <1>1, RepairingStep, AwaitedStep, ReintegratedStep DEF OrderInv, SafeInv, RepairsLinked
<1>2. CASE UNCHANGED vars
  BY <1>2 DEF vars, RepairsLinked, Repairing, Awaited, Reintegrated, Broken, IsFirst,
              FailedTasks, NextRepair, DiedIn
<1> QED
  BY <1>1, <1>2

LEMMA AlwaysLinked == Spec => []RepairsLinked
BY InitLinked, LinkedStep, AlwaysInOrder, PTL DEF Spec

-------------------------------------------------------------------------------
(* What has to be finished first *)

\* Whatever a task of the plan waits for, directly or not, is finished when it
\* runs.
LEMMA LedIsDone ==
    ASSUME DependenciesFirst, DependenciesShaped, RowsOfAnAdoptedPlan,
           NEW t \in Bootstrap \cup PlanTasks, NEW u \in Bootstrap \cup PlanTasks,
           task[u].status \in {"RUNNING", "SUCCEEDED"}, Leads(t, u)
    PROVE  t = u \/ task[t].status = "SUCCEEDED"
<1> DEFINE S == {x \in Bootstrap \cup PlanTasks : task[x].status = "SUCCEEDED"}
<1>0. Bootstrap \cup PlanTasks \subseteq Tasks
  BY DEF Tasks
<1>1. ASSUME NEW x \in Bootstrap \cup PlanTasks, task[x].status \in {"RUNNING", "SUCCEEDED"}
      PROVE  Waits(x) \subseteq S
  <2>1. \A d \in task[x].deps : task[d].status = "SUCCEEDED"
    BY <1>0, <1>1 DEF DependenciesFirst
  <2>2. CASE x \in Bootstrap
    <3>1. task[x].deps = BootstrapDeps[x]
      BY <1>0, <1>1, <2>2 DEF DependenciesShaped, Shaped
    <3>2. BootstrapDeps[x] \subseteq Bootstrap
      BY <2>2 DEF Bootstrap, BootstrapDeps
    <3> QED
      BY <2>1, <2>2, <3>1, <3>2 DEF Waits
  <2>3. CASE x \notin Bootstrap
    <3>1. x \in PlanTasks
      BY <2>3
    <3>2. PlanDeps[x] \subseteq task[x].deps /\ PlanDeps[x] \subseteq PlanTasks
      BY <1>0, <1>1, <3>1, PlanAssumption DEF DependenciesShaped, Shaped
    <3>3. PlanAdopted
      BY <1>1, <3>1 DEF RowsOfAnAdoptedPlan
    <3>4. "create_plan" \in S
      BY <3>3 DEF PlanAdopted, Bootstrap
    <3> QED
      BY <2>1, <2>3, <3>2, <3>4 DEF Waits
  <2> QED
    BY <2>2, <2>3
<1>2. S \cup {u} \in SUBSET (Bootstrap \cup PlanTasks) /\ u \in S \cup {u}
  OBVIOUS
<1>3. \A x \in S \cup {u} : Waits(x) \subseteq S \cup {u}
  BY <1>1
<1>4. t \in S \cup {u}
  <2> HIDE DEF S
  <2> QED
    BY <1>2, <1>3 DEF Leads
<1> QED
  BY <1>4

\* A task that nobody is left to repair is not among them, and of the repairs
\* that a task of the plan was given none is left to integrate.
LEMMA AwaitedIsDone ==
    ASSUME DependenciesFirst, Awaited,
           \A t \in PlanTasks : task[t].status \in {"RUNNING", "SUCCEEDED"}, NEW y \in ReintegrateTasks
    PROVE  task[y].status \in {"ABSENT", "SUCCEEDED"}
<1>1. PICK n \in 1..MaxRepairs : y = Reintegrate[n]
  BY DEF ReintegrateTasks
<1>2. ASSUME NEW u \in PlanTasks, Reintegrate[n] \in task[u].deps
      PROVE  task[y].status = "SUCCEEDED"
  BY <1>1, <1>2 DEF DependenciesFirst, Tasks
<1>3. \A t \in Repairable : ~Broken(t)
  BY PlanAssumption DEF Broken
<1> QED
  BY <1>1, <1>2, <1>3 DEF Awaited
===============================================================================
