-------------------------- MODULE EngineSafetyProofs --------------------------
(***************************************************************************)
(* Safety of Engine for every plan, every policy, every budget and a crash *)
(* at any place: types, attempts, scheduling order and authority.          *)
(***************************************************************************)
EXTENDS EngineProps, TLAPS

-------------------------------------------------------------------------------
(* Type correctness *)

\* What the process has in hand at the places where it has something in hand:
\* an approval while it acts on one, and the right to one more repair while
\* it writes the rows of a repair.
PlaceOK ==
    /\ pc = "approved" => hand # 0
    /\ pc = "count" => run.repairs < MaxRepairs
    /\ pc \in {"repair", "rewire"} =>
          \A t \in Tasks : IsFirst(t, FailedTasks) => CanRepair(t)

TypeInv == TypeOK /\ PlaceOK

LEMMA RepairNames ==
    ASSUME NEW t \in Repairable, NEW n \in 1..MaxRepairs
    PROVE  RepairOf[t][n] \in Tasks /\ Reintegrate[n] \in Tasks
BY DEF Tasks, RepairTasks, ReintegrateTasks

LEMMA NewTaskRow ==
    ASSUME NEW deps \in SUBSET Tasks, NEW fallback \in BOOLEAN
    PROVE  NewTask(deps, fallback) \in TaskRow
BY DEF NewTask, TaskRow, TaskStatus, FailureClass

LEMMA NoTaskRow == NoTask \in TaskRow
BY DEF NoTask, NewTask, TaskRow, TaskStatus, FailureClass

LEMMA InitType == Init => TypeInv
<1> SUFFICES ASSUME Init PROVE TypeInv
  OBVIOUS
<1>1. task \in [Tasks -> TaskRow]
  BY NoTaskRow DEF Init
<1>2. approvals \in Seq([task : Tasks, status : {"pending", "approved", "rejected"}])
  BY DEF Init
<1>3. run \in [status : RunStatus, waves : Nat, repairs : 0..MaxRepairs, pending : Nat]
  BY BudgetAssumption DEF Init, RunStatus
<1>4. /\ run.pending \in {0} \cup DOMAIN approvals
      /\ hand \in {0} \cup DOMAIN approvals
      /\ died \in Seq(PC)
  BY BudgetAssumption DEF Init
<1>5. PlaceOK
  BY DEF Init, PlaceOK
<1>6. /\ main \in BOOLEAN
      /\ pc \in PC
      /\ wave \in SUBSET Tasks
  BY DEF Init, PC
<1> QED
  BY <1>1, <1>2, <1>3, <1>4, <1>5, <1>6 DEF TypeInv, TypeOK

LEMMA ApprovalRow ==
    ASSUME TypeOK, NEW i \in DOMAIN approvals
    PROVE  /\ approvals[i].task \in Tasks
           /\ approvals[i].status \in {"pending", "approved", "rejected"}
<1> DEFINE Row == [task : Tasks, status : {"pending", "approved", "rejected"}]
<1>1. approvals \in Seq(Row)
  BY DEF TypeOK
<1>2. approvals[i] \in Row
  <2> HIDE DEF Row
  <2> QED BY <1>1
<1> QED BY <1>2

\* A handler that saves one row of the right shape keeps the table in shape.
LEMMA SaveType ==
    ASSUME TypeOK, NEW t \in Tasks, NEW row \in TaskRow, Save(t, row)
    PROVE  task' \in [Tasks -> TaskRow]
<1> USE DEF TypeOK, Save
<1> HIDE DEF TaskRow
<1> QED OBVIOUS

\* The ways in which the handlers change a row keep its shape.
LEMMA RowType ==
    ASSUME TypeOK, NEW t \in Tasks
    PROVE  /\ task[t] \in TaskRow
           /\ [task[t] EXCEPT !.cleared = TRUE] \in TaskRow
           /\ [task[t] EXCEPT !.status = "PENDING"] \in TaskRow
           /\ [task[t] EXCEPT !.status = "PENDING",
                              !.attempts = Refunded(task[t].attempts)] \in TaskRow
           /\ [task[t] EXCEPT !.status = "RUNNING", !.attempts = task[t].attempts + 1] \in TaskRow
           /\ [task[t] EXCEPT !.status = "SUCCEEDED", !.class = "none"] \in TaskRow
           /\ \A class \in FailureClass :
                 [task[t] EXCEPT !.status = "FAILED", !.class = class] \in TaskRow
           /\ [task[t] EXCEPT !.status = "PENDING", !.attempts = 0,
                              !.fallback = FALSE] \in TaskRow
           /\ \A again \in Tasks :
                 [task[t] EXCEPT !.status = "PENDING", !.attempts = 0, !.class = "none",
                                 !.deps = task[t].deps \cup {again}] \in TaskRow
<1>1. task[t] \in TaskRow
  <2> HIDE DEF TaskRow
  <2> QED BY DEF TypeOK
<1> DEFINE row == task[t]
<1> HIDE DEF row
<1>2. row \in TaskRow
  BY <1>1 DEF row
<1>3. [row EXCEPT !.cleared = TRUE] \in TaskRow
  BY <1>2 DEF TaskRow
<1>4. [row EXCEPT !.status = "PENDING"] \in TaskRow
  BY <1>2 DEF TaskRow, TaskStatus
<1>5. [row EXCEPT !.status = "PENDING", !.attempts = Refunded(row.attempts)] \in TaskRow
  <2>1. Refunded(row.attempts) \in Nat
    BY <1>2 DEF TaskRow, Refunded
  <2> QED BY <1>2, <2>1 DEF TaskRow, TaskStatus
<1>6. [row EXCEPT !.status = "RUNNING", !.attempts = row.attempts + 1] \in TaskRow
  <2>1. row.attempts + 1 \in Nat
    BY <1>2 DEF TaskRow
  <2> QED BY <1>2, <2>1 DEF TaskRow, TaskStatus
<1>7. [row EXCEPT !.status = "SUCCEEDED", !.class = "none"] \in TaskRow
  BY <1>2 DEF TaskRow, TaskStatus
<1>8. ASSUME NEW class \in FailureClass
      PROVE  [row EXCEPT !.status = "FAILED", !.class = class] \in TaskRow
  BY <1>2 DEF TaskRow, TaskStatus
<1>9. [row EXCEPT !.status = "PENDING", !.attempts = 0, !.fallback = FALSE] \in TaskRow
  BY <1>2 DEF TaskRow, TaskStatus
<1>10. ASSUME NEW again \in Tasks
       PROVE  [row EXCEPT !.status = "PENDING", !.attempts = 0, !.class = "none",
                          !.deps = row.deps \cup {again}] \in TaskRow
  BY <1>2 DEF TaskRow, TaskStatus
<1> QED
  BY <1>2, <1>3, <1>4, <1>5, <1>6, <1>7, <1>8, <1>9, <1>10 DEF row

RunRow == [status : RunStatus, waves : Nat, repairs : 0..MaxRepairs, pending : Nat]

\* And the ways in which they change the run row.
LEMMA RunType ==
    ASSUME TypeOK
    PROVE  /\ run.repairs \in 0..MaxRepairs /\ run.waves \in Nat /\ run.status \in RunStatus
           /\ \A s \in RunStatus : [run EXCEPT !.status = s] \in RunRow
           /\ \A s \in RunStatus, n \in Nat :
                 [run EXCEPT !.status = s, !.pending = n] \in RunRow
           /\ \A n \in Nat : [run EXCEPT !.waves = n] \in RunRow
           /\ \A n \in Nat : [run EXCEPT !.pending = n] \in RunRow
           /\ \A n \in 0..MaxRepairs : [run EXCEPT !.repairs = n] \in RunRow
<1> DEFINE row == run
<1>1. row \in RunRow
  BY DEF TypeOK, RunRow
<1> HIDE DEF row
<1>2. row.repairs \in 0..MaxRepairs /\ row.waves \in Nat /\ row.status \in RunStatus
  BY <1>1 DEF RunRow
<1>3. ASSUME NEW s \in RunStatus
      PROVE  [row EXCEPT !.status = s] \in RunRow
  BY <1>1 DEF RunRow
<1>4. ASSUME NEW s \in RunStatus, NEW n \in Nat
      PROVE  [row EXCEPT !.status = s, !.pending = n] \in RunRow
  BY <1>1 DEF RunRow
<1>5. ASSUME NEW n \in Nat
      PROVE  [row EXCEPT !.waves = n] \in RunRow /\ [row EXCEPT !.pending = n] \in RunRow
  BY <1>1 DEF RunRow
<1>6. ASSUME NEW n \in 0..MaxRepairs
      PROVE  [row EXCEPT !.repairs = n] \in RunRow
  BY <1>1 DEF RunRow
<1> QED
  BY <1>2, <1>3, <1>4, <1>5, <1>6 DEF row

LEMMA RepairNumber ==
    ASSUME TypeOK, run.repairs < MaxRepairs
    PROVE  NextRepair \in 1..MaxRepairs
<1>1. run.repairs \in 0..MaxRepairs
  BY RunType
<1> QED BY <1>1, BudgetAssumption DEF NextRepair

LEMMA ApprovalIds == TypeOK => DOMAIN approvals \subseteq Nat
<1> DEFINE Row == [task : Tasks, status : {"pending", "approved", "rejected"}]
<1>1. TypeOK => approvals \in Seq(Row)
  BY DEF TypeOK
<1> HIDE DEF Row
<1> QED BY <1>1

LEMMA MaterializedType == TypeOK => Materialized \in [Tasks -> TaskRow]
<1> SUFFICES ASSUME TypeOK, NEW t \in Tasks
             PROVE  (IF PlanAdopted /\ t \in PlanTasks /\ task[t].status = "ABSENT"
                     THEN NewTask(PlanDeps[t], t \in HasFallback)
                     ELSE task[t]) \in TaskRow
  BY DEF Materialized
<1>1. task[t] \in TaskRow
  BY RowType
<1>2. ASSUME t \in PlanTasks PROVE NewTask(PlanDeps[t], t \in HasFallback) \in TaskRow
  <2>1. PlanDeps[t] \in SUBSET Tasks
    BY <1>2, PlanAssumption DEF Tasks
  <2>2. (t \in HasFallback) \in BOOLEAN
    OBVIOUS
  <2> QED BY <2>1, <2>2, NewTaskRow
<1> QED BY <1>1, <1>2

\* The table lists one task first (Rank is injective).
LEMMA FirstUnique ==
    ASSUME NEW S \in SUBSET Tasks, NEW t, NEW u, IsFirst(t, S), IsFirst(u, S)
    PROVE  t = u
<1>1. t \in Tasks /\ u \in Tasks /\ Rank[t] <= Rank[u] /\ Rank[u] <= Rank[t]
  BY DEF IsFirst
<1>2. Rank[t] \in Nat /\ Rank[u] \in Nat
  BY <1>1, PlanAssumption
<1>3. Rank[t] = Rank[u]
  BY <1>1, <1>2
<1> QED BY <1>1, <1>3, NamesAssumption

LEMMA AppendType ==
    ASSUME TypeOK, NEW t \in Tasks,
           approvals' = Append(approvals, [task |-> t, status |-> "pending"])
    PROVE  /\ approvals' \in Seq([task : Tasks, status : {"pending", "approved", "rejected"}])
           /\ DOMAIN approvals' = 1..Len(approvals) + 1
           /\ DOMAIN approvals = 1..Len(approvals)
           /\ Len(approvals) \in Nat
           /\ \A i \in DOMAIN approvals : approvals'[i] = approvals[i]
           /\ approvals'[Len(approvals) + 1] = [task |-> t, status |-> "pending"]
<1> DEFINE Row == [task : Tasks, status : {"pending", "approved", "rejected"}]
           row == [task |-> t, status |-> "pending"]
<1>1. approvals \in Seq(Row) /\ row \in Row
  BY DEF TypeOK
<1> HIDE DEF Row, row
<1>2. approvals' = Append(approvals, row)
  BY DEF row
<1>3. /\ approvals' \in Seq(Row)
      /\ DOMAIN approvals' = 1..Len(approvals) + 1
      /\ DOMAIN approvals = 1..Len(approvals)
      /\ Len(approvals) \in Nat
      /\ \A i \in DOMAIN approvals : approvals'[i] = approvals[i]
      /\ approvals'[Len(approvals) + 1] = row
  BY <1>1, <1>2
<1> QED BY <1>3 DEF Row, row

LEMMA ResolveType ==
    ASSUME TypeOK, NEW i \in DOMAIN approvals, NEW decision \in {"approved", "rejected"},
           approvals' = [approvals EXCEPT ![i].status = decision]
    PROVE  /\ approvals' \in Seq([task : Tasks, status : {"pending", "approved", "rejected"}])
           /\ DOMAIN approvals' = DOMAIN approvals
           /\ \A j \in DOMAIN approvals : approvals'[j].task = approvals[j].task
           /\ \A j \in DOMAIN approvals \ {i} : approvals'[j] = approvals[j]
           /\ approvals'[i].status = decision
<1> DEFINE Row == [task : Tasks, status : {"pending", "approved", "rejected"}]
           row == [approvals[i] EXCEPT !.status = decision]
<1>1. approvals \in Seq(Row)
  BY DEF TypeOK
<1>2. approvals[i] \in Row
  <2> HIDE DEF Row
  <2> QED BY <1>1
<1>3. row \in Row /\ row.task = approvals[i].task /\ row.status = decision
  BY <1>2
<1>4. approvals' = [approvals EXCEPT ![i] = row]
  OBVIOUS
<1> HIDE DEF Row, row
<1>5. /\ approvals' \in Seq(Row)
      /\ DOMAIN approvals' = DOMAIN approvals
      /\ \A j \in DOMAIN approvals \ {i} : approvals'[j] = approvals[j]
      /\ approvals'[i] = row
  BY <1>1, <1>3, <1>4
<1> QED BY <1>3, <1>5 DEF Row

LEMMA ResumeType ==
    ASSUME TypeInv, BeginTick \/ Resume
    PROVE  TypeInv'
<1> USE DEF TypeInv, TypeOK, PlaceOK, RunStatus, PC, Goto, Stop
<1>1. CASE BeginTick
  BY <1>1 DEF BeginTick
<1>2. CASE ConsumeApproved
  BY <1>2 DEF ConsumeApproved
<1>3. CASE ConsumeRefused
  BY <1>3 DEF ConsumeRefused
<1>4. CASE ClearGate
  <2> DEFINE t == approvals[hand].task
  <2>1. t \in Tasks
    BY <1>4, ApprovalRow DEF ClearGate
  <2>2. task' \in [Tasks -> TaskRow]
    BY <1>4, <2>1, RowType, SaveType DEF ClearGate
  <2>3. pc' \in {"proceed", "promote", "review"}
    BY <1>4 DEF ClearGate
  <2> QED
    BY <1>4, <2>2, <2>3 DEF ClearGate
<1>5. CASE Promote
  BY <1>5 DEF Promote
<1>7. CASE SavePromoted
  BY <1>7 DEF SavePromoted
<1>8. CASE SaveReviewReady
  BY <1>8 DEF SaveReviewReady
<1>9. CASE Proceed
  BY <1>9 DEF Proceed
<1> QED
  BY <1>1, <1>2, <1>3, <1>4, <1>5, <1>7, <1>8, <1>9 DEF Resume

LEMMA LoopType ==
    ASSUME TypeInv, Loop
    PROVE  TypeInv'
<1> USE DEF TypeInv, TypeOK, PlaceOK, RunStatus, PC, Goto, Stop
<1>1. CASE NextWave
  BY <1>1 DEF NextWave
<1>2. CASE WavesExhausted
  BY <1>2 DEF WavesExhausted
<1>3. CASE TimeExhausted
  BY <1>3 DEF TimeExhausted
<1>4. CASE MaterializeRaises
  BY <1>4 DEF MaterializeRaises
<1>5. CASE Schedule
  <2>1. ReadyTasks(Materialized) \subseteq Tasks
    BY DEF ReadyTasks, Materialized
  <2> QED
    BY <1>5, <2>1, MaterializedType DEF Schedule, Scheduling
<1>6. CASE Blocked
  BY <1>6, MaterializedType DEF Blocked, Scheduling, NothingReady
<1>7. CASE Finalize
  BY <1>7, MaterializedType DEF Finalize, Scheduling, NothingReady
<1>8. CASE WithinBudget
  BY <1>8 DEF WithinBudget
<1> QED
  BY <1>1, <1>2, <1>3, <1>4, <1>5, <1>6, <1>7, <1>8 DEF Loop

LEMMA ExecuteType ==
    ASSUME TypeInv, NEW t \in Tasks, SaveBootstrapTask(t) \/ RecoverTask(t) \/ Execute(t)
    PROVE  TypeInv'
<1> USE DEF TypeInv, TypeOK, PlaceOK, PC
<1>1. CASE SaveBootstrapTask(t)
  <2>1. NewTask(BootstrapDeps[t], FALSE) \in TaskRow
    <3>1. t \in Bootstrap
      BY <1>1 DEF SaveBootstrapTask, IsFirst, Missing
    <3>2. BootstrapDeps[t] \in SUBSET Tasks
      BY <3>1 DEF Bootstrap, BootstrapDeps, Tasks
    <3> QED BY <3>2, NewTaskRow
  <2> QED
    BY <1>1, <2>1, SaveType DEF SaveBootstrapTask
<1>2. CASE RecoverTask(t)
  BY <1>2, RowType, SaveType DEF RecoverTask
<1>3. CASE StartTask(t)
  BY <1>3, RowType, SaveType DEF StartTask, Taken
<1>4. CASE TaskSucceeds(t)
  BY <1>4, RowType, SaveType DEF TaskSucceeds
<1>5. ASSUME NEW class \in FailureClass, TaskFails(t, class) PROVE TypeInv'
  BY <1>5, RowType, SaveType DEF TaskFails
<1> QED
  BY <1>1, <1>2, <1>3, <1>4, <1>5 DEF Execute

LEMMA FailureType ==
    ASSUME TypeInv, NEW t \in Tasks, HandleFailure(t)
    PROVE  TypeInv'
<1> USE DEF TypeInv, TypeOK, PlaceOK, RunStatus, PC, Goto, Stop
<1>1. CASE Retry(t)
  BY <1>1, RowType, SaveType DEF Retry, Failed
<1>2. CASE RetriesExhausted(t)
  BY <1>2 DEF RetriesExhausted, Failed
<1>3. CASE TakeFallback(t)
  BY <1>3, RowType, SaveType DEF TakeFallback, Failed
<1>4. CASE NoFallback(t)
  BY <1>4 DEF NoFallback, Failed
<1>5. CASE SaveRepair(t)
  <2> DEFINE repair == RepairOf[t][NextRepair]
  <2>1. NextRepair \in 1..MaxRepairs
    BY <1>5, RepairNumber DEF SaveRepair, CanRepair
  <2>2. repair \in Tasks
    BY <1>5, <2>1, RepairNames DEF SaveRepair, CanRepair
  <2>3. NewTask({}, FALSE) \in TaskRow
    BY NewTaskRow
  <2>4. task' \in [Tasks -> TaskRow]
    BY <1>5, <2>2, <2>3, SaveType DEF SaveRepair
  <2>5. FailedTasks' = FailedTasks
    BY <1>5, <2>2 DEF SaveRepair, FailedTasks, Save, NewTask
  <2>6. ASSUME NEW u \in Tasks, IsFirst(u, FailedTasks)' PROVE CanRepair(u)'
    <3>1. IsFirst(u, FailedTasks)
      BY <1>5, <2>5, <2>6 DEF IsFirst
    <3>2. IsFirst(t, FailedTasks) /\ FailedTasks \in SUBSET Tasks
      BY <1>5 DEF SaveRepair, Failed, FailedTasks
    <3>3. u = t
      BY <3>1, <3>2, FirstUnique
    <3> QED BY <1>5, <3>3 DEF SaveRepair, CanRepair
  <2>7. PlaceOK'
    BY <1>5, <2>6 DEF SaveRepair
  <2> QED
    BY <1>5, <2>4, <2>7 DEF SaveRepair
<1>6. CASE SaveReintegrate(t)
  <2> DEFINE again == Reintegrate[NextRepair]
  <2>1. CanRepair(t)
    BY <1>6 DEF SaveReintegrate
  <2>2. NextRepair \in 1..MaxRepairs
    BY <2>1, RepairNumber DEF CanRepair
  <2>3. again \in Tasks /\ RepairOf[t][NextRepair] \in Tasks
    BY <2>1, <2>2, RepairNames DEF CanRepair
  <2>4. NewTask({RepairOf[t][NextRepair]}, FALSE) \in TaskRow
    BY <2>3, NewTaskRow
  <2>5. task' \in [Tasks -> TaskRow]
    BY <1>6, <2>3, <2>4, SaveType DEF SaveReintegrate
  <2>6. FailedTasks' = FailedTasks
    BY <1>6, <2>3 DEF SaveReintegrate, FailedTasks, Save, NewTask
  <2>7. ASSUME NEW u \in Tasks, IsFirst(u, FailedTasks)' PROVE CanRepair(u)'
    BY <1>6, <2>6, <2>7 DEF SaveReintegrate, IsFirst, CanRepair
  <2>8. PlaceOK'
    BY <1>6, <2>7 DEF SaveReintegrate
  <2> QED
    BY <1>6, <2>5, <2>8 DEF SaveReintegrate
<1>7. CASE RepairCollides(t)
  BY <1>7 DEF RepairCollides
<1>8. CASE Rewire(t)
  <2>1. CanRepair(t)
    BY <1>8 DEF Rewire
  <2>2. NextRepair \in 1..MaxRepairs
    BY <2>1, RepairNumber DEF CanRepair
  <2>3. Reintegrate[NextRepair] \in Tasks
    BY <2>1, <2>2, RepairNames DEF CanRepair
  <2>4. task' \in [Tasks -> TaskRow]
    BY <1>8, <2>3, RowType, SaveType DEF Rewire
  <2> QED
    BY <1>8, <2>1, <2>4 DEF Rewire, CanRepair
<1>9. CASE Rollback(t)
  BY <1>9 DEF Rollback, Failed
<1>10. CASE NoRepair(t)
  BY <1>10 DEF NoRepair, Failed
<1> QED
  BY <1>1, <1>2, <1>3, <1>4, <1>5, <1>6, <1>7, <1>8, <1>9, <1>10 DEF HandleFailure

LEMMA GateType ==
    ASSUME TypeInv, NEW t \in Tasks, ProcessGate(t)
    PROVE  TypeInv'
<1> USE DEF TypeInv, TypeOK, PlaceOK, RunStatus, PC, Stop
<1>1. CASE GateAllowed(t)
  BY <1>1, RowType, SaveType DEF GateAllowed, NextGate
<1>2. CASE RequestApproval(t)
  BY <1>2, AppendType DEF RequestApproval, NextGate
<1>3. CASE GateDenied(t)
  BY <1>3 DEF GateDenied, NextGate
<1> QED
  BY <1>1, <1>2, <1>3 DEF ProcessGate

LEMMA OtherType ==
    ASSUME TypeInv, WaveDone \/ CountRepair \/ FailuresHandled \/ SavePause \/ GatesDone
    PROVE  TypeInv'
<1> USE DEF TypeInv, TypeOK, PlaceOK, RunStatus, PC, Goto
<1>1. CASE WaveDone
  BY <1>1 DEF WaveDone
<1>2. CASE CountRepair
  <2>1. run' \in RunRow /\ run'.pending = run.pending
    <3>1. NextRepair \in 0..MaxRepairs
      BY <1>2, RepairNumber DEF CountRepair
    <3> QED BY <1>2, <3>1, RunType DEF CountRepair
  <2> QED
    BY <1>2, <2>1 DEF CountRepair, RunRow
<1>3. CASE FailuresHandled
  BY <1>3 DEF FailuresHandled
<1>4. CASE SavePause
  <2>1. hand \in Nat
    BY ApprovalIds
  <2>2. run' \in RunRow /\ run'.pending = hand
    BY <1>4, <2>1, RunType DEF SavePause
  <2> QED
    BY <1>4, <2>2 DEF SavePause, RunRow
<1>5. CASE GatesDone
  BY <1>5, MaterializedType DEF GatesDone
<1> QED
  BY <1>1, <1>2, <1>3, <1>4, <1>5

LEMMA EnvironmentType ==
    ASSUME TypeInv, Approver \/ Crash
    PROVE  TypeInv'
<1>1. ASSUME NEW i \in DOMAIN approvals, NEW decision \in {"approved", "rejected"},
             Resolve(i, decision)
      PROVE  TypeInv'
  <2>1. UNCHANGED <<run, task, main, pc, wave, hand, died>>
    BY <1>1 DEF Resolve
  <2>2. TypeOK'
    <3>1. approvals' \in Seq([task : Tasks, status : {"pending", "approved", "rejected"}])
          /\ DOMAIN approvals' = DOMAIN approvals
      BY <1>1, ResolveType DEF Resolve, TypeInv
    <3> QED
      BY <2>1, <3>1 DEF TypeInv, TypeOK
  <2>3. PlaceOK'
    BY <2>1 DEF TypeInv, PlaceOK, FailedTasks, IsFirst, CanRepair
  <2> QED
    BY <2>2, <2>3 DEF TypeInv
<1>2. CASE Crash
  BY <1>2, BudgetAssumption DEF Crash, durable, TypeInv, TypeOK, PlaceOK, PC
<1> QED
  BY <1>1, <1>2 DEF Approver

\* Every row and every register has its type in every reachable state.
THEOREM TypeCorrect == Spec => []TypeOK
<1>1. Init => TypeInv
  BY InitType
<1>2. TypeInv /\ [Next]_vars => TypeInv'
  <2> SUFFICES ASSUME TypeInv, [Next]_vars PROVE TypeInv'
    OBVIOUS
  <2>1. CASE Process
    BY <2>1, ResumeType, LoopType, ExecuteType, FailureType, GateType, OtherType
       DEF Process
  <2>2. CASE Approver \/ Crash
    BY <2>2, EnvironmentType
  <2>3. CASE UNCHANGED vars
    BY <2>3 DEF vars, TypeInv, TypeOK, PlaceOK, IsFirst, FailedTasks, CanRepair
  <2> QED
    BY <2>1, <2>2, <2>3 DEF Next
<1>3. TypeInv => TypeOK
  BY DEF TypeInv
<1> QED
  BY <1>1, <1>2, <1>3, PTL DEF Spec

-------------------------------------------------------------------------------
(* The inductive invariant *)

\* The tasks of the wave that no thread has started are still queued.
WaveOK ==
    /\ pc # "wave" => wave = {}
    /\ \A t \in wave : task[t].status = "PENDING"

\* A row never depends on a name that has no row: readiness would ignore it.
DependenciesKnown ==
    \A t \in Present(task) : task[t].deps \subseteq Present(task)

\* While a repair is written, its rows exist before the row that names them.
RepairRows ==
    /\ pc = "repair" => \A t \in Tasks : IsFirst(t, FailedTasks) =>
                            RepairOf[t][NextRepair] \in Present(task)
    /\ pc = "rewire" => Reintegrate[NextRepair] \in Present(task)

\* After consume() the process holds an approval that a human granted, and it
\* merges only for a release whose gate it has cleared.
Holding ==
    /\ pc \in {"approved", "promote"} => hand # 0 /\ approvals[hand].status = "approved"
    /\ pc = "promote" => /\ approvals[hand].task \in ReleaseTasks
                         /\ task[approvals[hand].task].cleared

\* Approval is asked for tasks that have succeeded, and they stay so.
AskedAfterSuccess ==
    \A i \in DOMAIN approvals : task[approvals[i].task].status = "SUCCEEDED"

SafeInv ==
    /\ TypeInv
    /\ WaveOK /\ AttemptBudget
    /\ DependenciesKnown /\ RepairRows /\ DependenciesFirst
    /\ Holding /\ AskedAfterSuccess /\ GateAuthority /\ MainlineAuthority

-------------------------------------------------------------------------------
(* The life of a row: what one step may do to one task *)

Kept(t) == task'[t] = task[t]

Created(t) ==
    /\ task[t].status = "ABSENT"
    /\ task'[t].status = "PENDING"
    /\ task'[t].attempts = 0
    /\ ~task'[t].cleared
    /\ \/ t \in RepairTasks /\ task'[t].deps = {}
       \/ SaveBootstrapTask(t) /\ task'[t].deps = BootstrapDeps[t]
       \/ \E u \in Tasks : /\ SaveReintegrate(u) /\ task'[t].deps = {RepairOf[u][NextRepair]}
                           /\ t \in ReintegrateTasks /\ RepairOf[u][NextRepair] \in RepairTasks
       \/ /\ task' = Materialized /\ PlanAdopted /\ ~PlanRefused
          /\ t \in PlanTasks /\ task'[t].deps = PlanDeps[t]

\* Everything but the gate, and who may clear it.
Cleared(t) ==
    /\ \/ "allow" \in Gate[t]
       \/ pc = "approved" /\ t = approvals[hand].task
    /\ task'[t].cleared
    /\ task'[t].status = task[t].status
    /\ task'[t].class = task[t].class
    /\ task'[t].attempts = task[t].attempts
    /\ task'[t].deps = task[t].deps

Requeued(t) ==
    /\ task[t].status = "RUNNING"
    /\ task'[t].status = "PENDING"
    /\ task'[t].attempts = Refunded(task[t].attempts)
    /\ task'[t].deps = task[t].deps
    /\ task'[t].cleared = task[t].cleared

Started(t) ==
    /\ pc = "wave"
    /\ t \in wave
    /\ t \notin wave'
    /\ task'[t].status = "RUNNING"
    /\ task'[t].attempts = task[t].attempts + 1
    /\ task'[t].deps = task[t].deps
    /\ task'[t].cleared = task[t].cleared

Ended(t) ==
    /\ pc = "wave"
    /\ task[t].status = "RUNNING"
    /\ task'[t].status \in {"SUCCEEDED", "FAILED"}
    /\ task'[t].attempts = task[t].attempts
    /\ task'[t].deps = task[t].deps
    /\ task'[t].cleared = task[t].cleared

Routed(t) ==
    /\ task[t].status = "FAILED"
    /\ task'[t].status = "PENDING"
    /\ task'[t].attempts < MaxAttempts[t]
    /\ \/ task'[t].deps = task[t].deps /\ task[t].class # "deterministic"
       \/ /\ pc = "rewire" /\ task'[t].deps = task[t].deps \cup {Reintegrate[NextRepair]}
          /\ CanRepair(t) /\ Reintegrate[NextRepair] \in ReintegrateTasks
    /\ task'[t].cleared = task[t].cleared

RowStep(t) == Kept(t) \/ Created(t) \/ Cleared(t) \/ Requeued(t) \/ Started(t)
                \/ Ended(t) \/ Routed(t)

\* Save touches one row.
LEMMA SaveOne ==
    ASSUME TypeInv, NEW t \in Tasks, NEW row, Save(t, row)
    PROVE  task'[t] = row /\ \A u \in Tasks \ {t} : task'[u] = task[u]
BY DEF TypeInv, TypeOK, Save

LEMMA MaterializedRow ==
    ASSUME NEW t \in Tasks, task' = Materialized, ~PlanRefused
    PROVE  Kept(t) \/ Created(t)
BY DEF Materialized, Kept, Created, NewTask

\* One action: a row saved under t in the way of RowStep leaves u treated so.
LEMMA SavedRow ==
    ASSUME TypeInv, NEW t \in Tasks, NEW u \in Tasks, NEW row, Save(t, row),
           task'[t] = row => RowStep(t)
    PROVE  RowStep(u)
<1>1. CASE u = t
  BY <1>1, SaveOne
<1>2. CASE u # t
  BY <1>2, SaveOne DEF RowStep, Kept
<1> QED
  BY <1>1, <1>2

LEMMA ExecuteSteps ==
    ASSUME TypeInv, NEW t \in Tasks, NEW u \in Tasks, RecoverTask(t) \/ Execute(t)
    PROVE  RowStep(u)
<1> DEFINE row == task[t]
<1>0. row \in TaskRow
  BY RowType DEF TypeInv
<1>1. CASE RecoverTask(t)
  <2> DEFINE new == [row EXCEPT !.status = "PENDING", !.attempts = Refunded(row.attempts)]
  <2>1. Save(t, new) /\ row.status = "RUNNING"
    BY <1>1 DEF RecoverTask, IsFirst, RunningTasks
  <2>2. /\ new.status = "PENDING" /\ new.attempts = Refunded(row.attempts)
        /\ new.deps = row.deps /\ new.cleared = row.cleared
    <3> HIDE DEF row
    <3> QED BY <1>0 DEF TaskRow
  <2>3. task'[t] = new => RowStep(t)
    <3> HIDE DEF new
    <3> QED BY <2>1, <2>2 DEF RowStep, Requeued
  <2> QED
    <3> HIDE DEF new
    <3> QED BY <2>1, <2>3, SavedRow
<1>2. CASE StartTask(t)
  <2> DEFINE new == [row EXCEPT !.status = "RUNNING", !.attempts = row.attempts + 1]
  <2>1. Save(t, new) /\ pc = "wave" /\ t \in wave /\ t \notin wave'
    BY <1>2 DEF StartTask, Taken
  <2>2. /\ new.status = "RUNNING" /\ new.attempts = row.attempts + 1
        /\ new.deps = row.deps /\ new.cleared = row.cleared
    <3> HIDE DEF row
    <3> QED BY <1>0 DEF TaskRow
  <2>3. task'[t] = new => RowStep(t)
    <3> HIDE DEF new
    <3> QED BY <2>1, <2>2 DEF RowStep, Started
  <2> QED
    <3> HIDE DEF new
    <3> QED BY <2>1, <2>3, SavedRow
<1>3. CASE TaskSucceeds(t)
  <2> DEFINE new == [row EXCEPT !.status = "SUCCEEDED", !.class = "none"]
  <2>1. Save(t, new) /\ pc = "wave" /\ row.status = "RUNNING"
    BY <1>3 DEF TaskSucceeds
  <2>2. /\ new.status = "SUCCEEDED" /\ new.attempts = row.attempts
        /\ new.deps = row.deps /\ new.cleared = row.cleared
    <3> HIDE DEF row
    <3> QED BY <1>0 DEF TaskRow
  <2>3. task'[t] = new => RowStep(t)
    <3> HIDE DEF new
    <3> QED BY <2>1, <2>2 DEF RowStep, Ended
  <2> QED
    <3> HIDE DEF new
    <3> QED BY <2>1, <2>3, SavedRow
<1>4. ASSUME NEW class \in FailureClass, TaskFails(t, class)
      PROVE  RowStep(u)
  <2> DEFINE new == [row EXCEPT !.status = "FAILED", !.class = class]
  <2>1. Save(t, new) /\ pc = "wave" /\ row.status = "RUNNING"
    BY <1>4 DEF TaskFails
  <2>2. /\ new.status = "FAILED" /\ new.attempts = row.attempts
        /\ new.deps = row.deps /\ new.cleared = row.cleared
    <3> HIDE DEF row
    <3> QED BY <1>0 DEF TaskRow
  <2>3. task'[t] = new => RowStep(t)
    <3> HIDE DEF new
    <3> QED BY <2>1, <2>2 DEF RowStep, Ended
  <2> QED
    <3> HIDE DEF new
    <3> QED BY <2>1, <2>3, SavedRow
<1> QED
  BY <1>1, <1>2, <1>3, <1>4 DEF Execute

LEMMA NewRowSteps ==
    ASSUME TypeInv, NEW t \in Tasks, NEW u \in Tasks,
           SaveBootstrapTask(t) \/ SaveRepair(t) \/ SaveReintegrate(t)
    PROVE  RowStep(u)
<1>1. CASE SaveBootstrapTask(t)
  <2>1. Save(t, NewTask(BootstrapDeps[t], FALSE)) /\ task[t].status = "ABSENT"
    BY <1>1 DEF SaveBootstrapTask, IsFirst, Missing
  <2>2. task'[t] = NewTask(BootstrapDeps[t], FALSE) => RowStep(t)
    BY <1>1, <2>1 DEF RowStep, Created, NewTask
  <2> QED
    BY <2>1, <2>2, SavedRow
<1>2. CASE SaveRepair(t)
  <2> DEFINE repair == RepairOf[t][NextRepair]
  <2>1. repair \in Tasks /\ repair \in RepairTasks
    BY <1>2, RepairNumber, RepairNames DEF SaveRepair, CanRepair, TypeInv, RepairTasks
  <2>2. Save(repair, NewTask({}, FALSE)) /\ task[repair].status = "ABSENT"
    BY <1>2 DEF SaveRepair
  <2> HIDE DEF repair
  <2>3. task'[repair] = NewTask({}, FALSE) => RowStep(repair)
    BY <2>1, <2>2 DEF RowStep, Created, NewTask
  <2> QED
    BY <2>1, <2>2, <2>3, SavedRow
<1>3. CASE SaveReintegrate(t)
  <2> DEFINE repair == RepairOf[t][NextRepair]
             again  == Reintegrate[NextRepair]
  <2>1. /\ again \in Tasks /\ again \in ReintegrateTasks /\ repair \in RepairTasks
    BY <1>3, RepairNumber, RepairNames
       DEF SaveReintegrate, CanRepair, TypeInv, PlaceOK, Goto, RepairTasks, ReintegrateTasks
  <2>2. Save(again, NewTask({repair}, FALSE)) /\ task[again].status = "ABSENT"
    BY <1>3 DEF SaveReintegrate
  <2> HIDE DEF again
  <2>3. task'[again] = NewTask({repair}, FALSE) => RowStep(again)
    BY <1>3, <2>1, <2>2 DEF RowStep, Created, NewTask
  <2> QED
    BY <2>1, <2>2, <2>3, SavedRow
<1> QED
  BY <1>1, <1>2, <1>3

LEMMA RoutingSteps ==
    ASSUME TypeInv, NEW t \in Tasks, NEW u \in Tasks,
           Retry(t) \/ TakeFallback(t) \/ Rewire(t)
    PROVE  RowStep(u)
<1> DEFINE row == task[t]
<1>0. row \in TaskRow /\ 0 < MaxAttempts[t]
  <2>1. row \in TaskRow
    BY RowType DEF TypeInv
  <2>2. MaxAttempts[t] \in Nat \ {0}
    BY BudgetAssumption
  <2> QED BY <2>1, <2>2
<1>1. CASE Retry(t)
  <2> DEFINE new == [row EXCEPT !.status = "PENDING"]
  <2>1. /\ Save(t, new) /\ row.status = "FAILED" /\ row.attempts < MaxAttempts[t]
        /\ row.class # "deterministic"
    BY <1>1 DEF Retry, Failed, IsFirst, FailedTasks, Retryable
  <2>2. /\ new.status = "PENDING" /\ new.attempts = row.attempts
        /\ new.deps = row.deps /\ new.cleared = row.cleared
    <3> HIDE DEF row
    <3> QED BY <1>0 DEF TaskRow
  <2>3. task'[t] = new => RowStep(t)
    <3> HIDE DEF new
    <3> QED BY <2>1, <2>2 DEF RowStep, Routed
  <2> QED
    <3> HIDE DEF new
    <3> QED BY <2>1, <2>3, SavedRow
<1>2. CASE TakeFallback(t)
  <2> DEFINE new == [row EXCEPT !.status = "PENDING", !.attempts = 0, !.fallback = FALSE]
  <2>1. Save(t, new) /\ row.status = "FAILED" /\ row.class # "deterministic"
    BY <1>2 DEF TakeFallback, Failed, IsFirst, FailedTasks
  <2>2. /\ new.status = "PENDING" /\ new.attempts = 0
        /\ new.deps = row.deps /\ new.cleared = row.cleared
    <3> HIDE DEF row
    <3> QED BY <1>0 DEF TaskRow
  <2>3. task'[t] = new => RowStep(t)
    <3> HIDE DEF new
    <3> QED BY <1>0, <2>1, <2>2 DEF RowStep, Routed
  <2> QED
    <3> HIDE DEF new
    <3> QED BY <2>1, <2>3, SavedRow
<1>3. CASE Rewire(t)
  <2> DEFINE deps == row.deps \cup {Reintegrate[NextRepair]}
             new == [row EXCEPT !.status = "PENDING", !.attempts = 0, !.class = "none",
                                !.deps = deps]
  <2>1. Save(t, new) /\ row.status = "FAILED" /\ pc = "rewire"
    BY <1>3 DEF Rewire, IsFirst, FailedTasks, Goto
  <2>2. CanRepair(t) /\ Reintegrate[NextRepair] \in ReintegrateTasks
    BY <1>3, RepairNumber DEF Rewire, Goto, CanRepair, TypeInv, PlaceOK, ReintegrateTasks
  <2>3. /\ new.status = "PENDING" /\ new.attempts = 0
        /\ new.deps = deps /\ new.cleared = row.cleared
    <3> HIDE DEF row, deps
    <3> QED BY <1>0 DEF TaskRow
  <2>4. task'[t] = new => RowStep(t)
    <3> HIDE DEF new
    <3> QED BY <1>0, <2>1, <2>2, <2>3 DEF RowStep, Routed
  <2> QED
    <3> HIDE DEF new
    <3> QED BY <2>1, <2>4, SavedRow
<1> QED
  BY <1>1, <1>2, <1>3

LEMMA ClearedRow ==
    ASSUME NEW row \in TaskRow
    PROVE  LET new == [row EXCEPT !.cleared = TRUE] IN
           /\ new.status = row.status /\ new.attempts = row.attempts
           /\ new.class = row.class /\ new.deps = row.deps /\ new.cleared
BY DEF TaskRow

LEMMA GateSteps ==
    ASSUME TypeInv, NEW u \in Tasks, NEW g \in Tasks, ClearGate \/ GateAllowed(g)
    PROVE  RowStep(u)
<1>1. CASE ClearGate
  <2> DEFINE t == approvals[hand].task
             new == [task[t] EXCEPT !.cleared = TRUE]
  <2>1. pc = "approved" /\ hand \in DOMAIN approvals
    BY <1>1 DEF ClearGate, Goto, TypeInv, TypeOK, PlaceOK
  <2>2. t \in Tasks
    BY <2>1, ApprovalRow DEF TypeInv
  <2>3. Save(t, new)
    BY <1>1 DEF ClearGate
  <2>4. /\ new.status = task[t].status /\ new.attempts = task[t].attempts
        /\ new.class = task[t].class /\ new.deps = task[t].deps /\ new.cleared
    BY <2>2, ClearedRow, RowType DEF TypeInv
  <2>5. task'[t] = new => RowStep(t)
    <3> HIDE DEF new
    <3> QED BY <2>1, <2>4 DEF RowStep, Cleared
  <2> HIDE DEF t, new
  <2> QED
    BY <2>2, <2>3, <2>5, SavedRow
<1>2. CASE GateAllowed(g)
  <2> DEFINE new == [task[g] EXCEPT !.cleared = TRUE]
  <2>1. Save(g, new) /\ "allow" \in Gate[g]
    BY <1>2 DEF GateAllowed
  <2>2. /\ new.status = task[g].status /\ new.attempts = task[g].attempts
        /\ new.class = task[g].class /\ new.deps = task[g].deps /\ new.cleared
    BY ClearedRow, RowType DEF TypeInv
  <2>3. task'[g] = new => RowStep(g)
    <3> HIDE DEF new
    <3> QED BY <2>1, <2>2 DEF RowStep, Cleared
  <2> HIDE DEF new
  <2> QED
    BY <2>1, <2>3, SavedRow
<1> QED
  BY <1>1, <1>2

\* Every step treats every row in one of these ways.
LEMMA RowSteps ==
    ASSUME TypeInv, Next, NEW u \in Tasks
    PROVE  RowStep(u)
<1>1. ASSUME UNCHANGED task PROVE RowStep(u)
  BY <1>1 DEF RowStep, Kept
<1>2. ASSUME task' = Materialized, ~PlanRefused PROVE RowStep(u)
  BY <1>2, MaterializedRow DEF RowStep
<1>3. CASE BeginTick \/ Resume
  BY <1>1, <1>3, GateSteps
     DEF BeginTick, Resume, ConsumeApproved, ConsumeRefused, Promote,
         SavePromoted, SaveReviewReady, Proceed
<1>4. CASE Loop
  BY <1>1, <1>2, <1>4
     DEF Loop, NextWave, WithinBudget, WavesExhausted, TimeExhausted,
         MaterializeRaises, Schedule, Blocked, Finalize, Scheduling
<1>5. CASE WaveDone \/ CountRepair \/ FailuresHandled \/ SavePause \/ GatesDone
  BY <1>1, <1>2, <1>5 DEF WaveDone, CountRepair, FailuresHandled, SavePause, GatesDone
<1>6. ASSUME NEW t \in Tasks, SaveBootstrapTask(t) \/ RecoverTask(t) \/ Execute(t)
      PROVE  RowStep(u)
  BY <1>6, NewRowSteps, ExecuteSteps
<1>7. ASSUME NEW t \in Tasks, HandleFailure(t) PROVE RowStep(u)
  BY <1>1, <1>7, NewRowSteps, RoutingSteps
     DEF HandleFailure, RetriesExhausted, NoFallback, RepairCollides, Rollback, NoRepair
<1>8. ASSUME NEW t \in Tasks, ProcessGate(t) PROVE RowStep(u)
  BY <1>1, <1>8, GateSteps DEF ProcessGate, RequestApproval, GateDenied
<1>9. CASE Approver \/ Crash
  BY <1>1, <1>9 DEF Approver, Resolve, Crash, durable
<1> QED
  BY <1>3, <1>4, <1>5, <1>6, <1>7, <1>8, <1>9 DEF Next, Process

-------------------------------------------------------------------------------
(* Waves and attempts *)

LEMMA WaveMoves ==
    ASSUME TypeInv, WaveOK, Next
    PROVE  Schedule \/ (wave' \subseteq wave /\ (pc' # "wave" => wave' = {}))
<1> USE DEF Goto, Stop
<1>1. ASSUME UNCHANGED wave, pc # "wave" PROVE wave' \subseteq wave /\ wave' = {}
  BY <1>1 DEF WaveOK
<1>2. CASE BeginTick \/ Resume
  BY <1>1, <1>2
     DEF BeginTick, Resume, ConsumeApproved, ConsumeRefused, ClearGate, Promote,
         SavePromoted, SaveReviewReady, Proceed
<1>3. CASE Loop
  BY <1>1, <1>3
     DEF Loop, NextWave, WithinBudget, WavesExhausted, TimeExhausted,
         MaterializeRaises, Blocked, Finalize, Scheduling, NothingReady
<1>4. CASE WaveDone \/ CountRepair \/ FailuresHandled \/ SavePause \/ GatesDone
  BY <1>1, <1>4 DEF WaveDone, CountRepair, FailuresHandled, SavePause, GatesDone
<1>5. ASSUME NEW t \in Tasks, SaveBootstrapTask(t) \/ RecoverTask(t)
      PROVE  wave' \subseteq wave /\ wave' = {}
  BY <1>1, <1>5 DEF SaveBootstrapTask, RecoverTask
<1>6. ASSUME NEW t \in Tasks, Execute(t)
      PROVE  wave' \subseteq wave /\ pc' = "wave"
  BY <1>6 DEF Execute, StartTask, TaskSucceeds, TaskFails
<1>7. ASSUME NEW t \in Tasks, HandleFailure(t)
      PROVE  wave' \subseteq wave /\ wave' = {}
  BY <1>1, <1>7
     DEF HandleFailure, Failed, Retry, RetriesExhausted, TakeFallback, NoFallback,
         SaveRepair, SaveReintegrate, RepairCollides, Rewire, Rollback, NoRepair
<1>8. ASSUME NEW t \in Tasks, ProcessGate(t)
      PROVE  wave' \subseteq wave /\ wave' = {}
  BY <1>1, <1>8 DEF ProcessGate, NextGate, GateAllowed, RequestApproval, GateDenied
<1>9. CASE Approver \/ Crash
  BY <1>9 DEF Approver, Resolve, Crash, WaveOK
<1> QED
  BY <1>2, <1>3, <1>4, <1>5, <1>6, <1>7, <1>8, <1>9 DEF Next, Process

LEMMA WaveStep ==
    ASSUME TypeInv, WaveOK, Next
    PROVE  WaveOK'
<1>1. CASE Schedule
  BY <1>1 DEF Schedule, Scheduling, ReadyTasks, WaveOK
<1>2. CASE wave' \subseteq wave /\ (pc' # "wave" => wave' = {})
  <2>1. ASSUME NEW t \in wave' PROVE task'[t].status = "PENDING"
    <3>1. t \in Tasks /\ task[t].status = "PENDING" /\ t \in wave
      BY <1>2, <2>1 DEF WaveOK, TypeInv, TypeOK
    <3>2. RowStep(t)
      BY <3>1, RowSteps
    <3> QED
      BY <2>1, <3>1, <3>2
         DEF RowStep, Kept, Created, Cleared, Requeued, Started, Ended, Routed
  <2> QED
    BY <1>2, <2>1 DEF WaveOK
<1> QED
  BY <1>1, <1>2, WaveMoves

LEMMA AttemptStep ==
    ASSUME TypeInv, WaveOK, AttemptBudget, Next
    PROVE  AttemptBudget'
<1> SUFFICES ASSUME NEW t \in Tasks
             PROVE  CASE task'[t].status = "ABSENT"  -> task'[t].attempts = 0
                      [] task'[t].status = "PENDING" -> task'[t].attempts < MaxAttempts[t]
                      [] OTHER -> task'[t].attempts \in 1..MaxAttempts[t]
  BY DEF AttemptBudget
<1>1. RowStep(t)
  BY RowSteps
<1>2. MaxAttempts[t] \in Nat \ {0}
  BY BudgetAssumption
<1>3. task[t].attempts \in Nat
  <2>1. task[t] \in TaskRow
    BY RowType DEF TypeInv
  <2> QED BY <2>1 DEF TaskRow
<1>4. (CASE task[t].status = "ABSENT"  -> task[t].attempts = 0
         [] task[t].status = "PENDING" -> task[t].attempts < MaxAttempts[t]
         [] OTHER -> task[t].attempts \in 1..MaxAttempts[t])
  BY DEF AttemptBudget
<1>5. t \in wave => task[t].status = "PENDING"
  BY DEF WaveOK
<1> QED
  BY <1>1, <1>2, <1>3, <1>4, <1>5
     DEF RowStep, Kept, Created, Cleared, Requeued, Refunded, Started, Ended, Routed

-------------------------------------------------------------------------------
(* Dependencies *)

LEMMA PresentNames ==
    ASSUME TypeInv
    PROVE  Present(task) = {t \in Tasks : task[t].status # "ABSENT"}
BY DEF Present, TypeInv, TypeOK

LEMMA PresentStays ==
    ASSUME TypeInv, WaveOK, TypeInv', Next, NEW t \in Present(task)
    PROVE  t \in Present(task)'
<1>1. t \in Tasks /\ task[t].status # "ABSENT" /\ RowStep(t)
  BY PresentNames, RowSteps
<1>2. task'[t].status # "ABSENT"
  BY <1>1 DEF RowStep, Kept, Created, Cleared, Requeued, Started, Ended, Routed
<1> QED
  BY <1>1, <1>2, PresentNames DEF Present, TypeInv, TypeOK

\* What a new row depends on has a row as well.
LEMMA CreatedKnown ==
    ASSUME TypeInv, WaveOK, RepairRows, TypeInv', Next, NEW t \in Tasks, Created(t)
    PROVE  task'[t].deps \subseteq Present(task)'
<1>0. Present(task)' = {u \in Tasks : task'[u].status # "ABSENT"}
  BY DEF Present, TypeInv, TypeOK
<1>1. CASE task'[t].deps = {}
  BY <1>1
<1>2. CASE SaveBootstrapTask(t) /\ task'[t].deps = BootstrapDeps[t]
  <2>1. /\ t \in Bootstrap
        /\ \A u \in Bootstrap : task[u].status = "ABSENT" => Rank[t] <= Rank[u]
    BY <1>2 DEF SaveBootstrapTask, IsFirst, Missing
  <2>2. {"normalize", "analyze", "create_plan"} \subseteq Tasks
    BY DEF Tasks, Bootstrap
  <2>3. ASSUME NEW u \in Bootstrap, Rank[u] < Rank[t]
        PROVE  u \in Present(task)'
    <3>1. u \in Tasks /\ t \in Tasks /\ Rank[u] \in Nat /\ Rank[t] \in Nat
      BY PlanAssumption DEF Tasks
    <3>2. task[u].status # "ABSENT"
      BY <2>1, <2>3, <3>1
    <3> QED
      BY <3>1, <3>2, PresentNames, PresentStays
  <2>4. t = "analyze" => "normalize" \in Present(task)'
    BY <2>3, NamesAssumption DEF Bootstrap
  <2>5. t = "create_plan" => "analyze" \in Present(task)'
    BY <2>3, NamesAssumption DEF Bootstrap
  <2> QED
    BY <1>2, <2>1, <2>4, <2>5 DEF Bootstrap, BootstrapDeps
<1>3. ASSUME NEW u \in Tasks, SaveReintegrate(u), task'[t].deps = {RepairOf[u][NextRepair]}
      PROVE  task'[t].deps \subseteq Present(task)'
  <2>1. RepairOf[u][NextRepair] \in Present(task)
    BY <1>3 DEF SaveReintegrate, RepairRows, Goto
  <2> QED
    BY <1>3, <2>1, PresentStays
<1>4. CASE /\ task' = Materialized /\ PlanAdopted /\ ~PlanRefused
           /\ t \in PlanTasks /\ task'[t].deps = PlanDeps[t]
  <2>1. PlanDeps[t] \subseteq PlanTasks /\ PlanTasks \subseteq Tasks
    BY <1>4 DEF PlanRefused, ValidPlan, Tasks
  <2>2. ASSUME NEW d \in PlanTasks PROVE task'[d].status # "ABSENT"
    <3>1. d \in Tasks
      BY <2>1
    <3> QED
      BY <1>4, <3>1 DEF Materialized, NewTask
  <2> QED
    BY <1>0, <1>4, <2>1, <2>2
<1> QED
  BY <1>1, <1>2, <1>3, <1>4 DEF Created

LEMMA KnownStep ==
    ASSUME TypeInv, WaveOK, DependenciesKnown, RepairRows, TypeInv', Next
    PROVE  DependenciesKnown'
<1> SUFFICES ASSUME NEW t \in Present(task)'
             PROVE  task'[t].deps \subseteq Present(task)'
  BY DEF DependenciesKnown
<1>1. t \in Tasks /\ task'[t].status # "ABSENT"
  BY DEF Present, TypeInv, TypeOK
<1>2. RowStep(t)
  BY <1>1, RowSteps
<1>3. ASSUME task[t].status # "ABSENT" PROVE task[t].deps \subseteq Present(task)'
  BY <1>1, <1>3, PresentNames, PresentStays DEF DependenciesKnown
<1>4. CASE Created(t)
  BY <1>1, <1>4, CreatedKnown
<1>5. CASE Kept(t)
  BY <1>1, <1>3, <1>5 DEF Kept
<1>6. CASE Cleared(t)
  BY <1>1, <1>3, <1>6 DEF Cleared
<1>7. CASE Requeued(t) \/ Ended(t)
  BY <1>3, <1>7 DEF Requeued, Ended
<1>8. CASE Started(t)
  BY <1>3, <1>8 DEF Started, WaveOK
<1>9. CASE Routed(t)
  <2>1. pc = "rewire" => Reintegrate[NextRepair] \in Present(task)'
    BY PresentStays DEF RepairRows
  <2> QED
    BY <1>3, <1>9, <2>1 DEF Routed
<1> QED
  BY <1>2, <1>4, <1>5, <1>6, <1>7, <1>8, <1>9 DEF RowStep

LEMMA DependenciesStep ==
    ASSUME TypeInv, WaveOK, DependenciesKnown, RepairRows, DependenciesFirst, TypeInv', Next
    PROVE  DependenciesFirst'
<1> SUFFICES ASSUME NEW t \in Tasks, t \in wave' \/ task'[t].status \in {"RUNNING", "SUCCEEDED"},
                    NEW d \in task'[t].deps
             PROVE  task'[d].status = "SUCCEEDED"
  BY DEF DependenciesFirst
<1>1. d \in Tasks
  <2>1. task'[t] \in TaskRow
    <3> HIDE DEF TaskRow
    <3> QED BY DEF TypeInv, TypeOK
  <2> QED BY <2>1 DEF TaskRow
<1>2. ASSUME task[d].status = "SUCCEEDED" PROVE task'[d].status = "SUCCEEDED"
  <2>1. RowStep(d)
    BY <1>1, RowSteps
  <2> QED
    BY <1>2, <2>1 DEF RowStep, Kept, Created, Cleared, Requeued, Started, Ended, Routed, WaveOK
<1>3. RowStep(t)
  BY RowSteps
<1>4. CASE Schedule /\ t \in wave'
  <2>1. t \in ReadyTasks(task') /\ t \in Present(task)'
    BY <1>4 DEF Schedule, Scheduling, ReadyTasks, Present
  <2>2. d \in Present(task)'
    BY <2>1, KnownStep DEF DependenciesKnown
  <2> QED
    BY <2>1, <2>2 DEF ReadyTasks, Satisfied, Present
<1>5. CASE t \in wave \/ task[t].status \in {"RUNNING", "SUCCEEDED"}
  <2>1. CASE task'[t].deps = task[t].deps
    BY <1>2, <1>5, <2>1 DEF DependenciesFirst
  <2>2. task'[t].deps = task[t].deps
    BY <1>3, <1>5 DEF RowStep, Kept, Created, Cleared, Requeued, Started, Ended, Routed, WaveOK
  <2> QED
    BY <2>1, <2>2
<1>6. t \in wave' => Schedule \/ t \in wave
  BY WaveMoves
<1>7. task'[t].status \in {"RUNNING", "SUCCEEDED"}
          => t \in wave \/ task[t].status \in {"RUNNING", "SUCCEEDED"}
  BY <1>3 DEF RowStep, Kept, Created, Cleared, Requeued, Started, Ended, Routed
<1> QED
  BY <1>4, <1>5, <1>6, <1>7

\* Which steps lead to the places where the rows of a repair are written.
LEMMA RepairPlaces ==
    ASSUME Next, pc' \in {"repair", "rewire"}
    PROVE  \/ pc' = pc /\ UNCHANGED <<run, task>>
           \/ \E t \in Tasks : SaveRepair(t) /\ pc' = "repair"
           \/ \E t \in Tasks : SaveReintegrate(t) /\ pc' = "rewire"
<1> USE DEF Goto, Stop
<1>1. ~(BeginTick \/ Resume)
  BY DEF BeginTick, Resume, ConsumeApproved, ConsumeRefused, ClearGate, Promote,
         SavePromoted, SaveReviewReady, Proceed
<1>2. ~Loop
  BY DEF Loop, NextWave, WithinBudget, WavesExhausted, TimeExhausted,
         MaterializeRaises, Schedule, Blocked, Finalize
<1>3. ~(WaveDone \/ CountRepair \/ FailuresHandled \/ SavePause \/ GatesDone)
  BY DEF WaveDone, CountRepair, FailuresHandled, SavePause, GatesDone
<1>4. ASSUME NEW t \in Tasks
      PROVE  ~(SaveBootstrapTask(t) \/ RecoverTask(t) \/ Execute(t))
  BY DEF SaveBootstrapTask, RecoverTask, Execute, StartTask, TaskSucceeds, TaskFails
<1>5. ASSUME NEW t \in Tasks, HandleFailure(t)
      PROVE  \/ SaveRepair(t) /\ pc' = "repair"
             \/ SaveReintegrate(t) /\ pc' = "rewire"
  BY <1>5 DEF HandleFailure, Failed, Retry, RetriesExhausted, TakeFallback, NoFallback,
              SaveRepair, SaveReintegrate, RepairCollides, Rewire, Rollback, NoRepair
<1>6. ASSUME NEW t \in Tasks
      PROVE  ~ProcessGate(t)
  BY DEF ProcessGate, NextGate, GateAllowed, RequestApproval, GateDenied
<1>7. CASE Approver \/ Crash
  BY <1>7 DEF Approver, Resolve, Crash
<1> QED
  BY <1>1, <1>2, <1>3, <1>4, <1>5, <1>6, <1>7 DEF Next, Process

LEMMA RepairStep ==
    ASSUME TypeInv, TypeInv', RepairRows, Next
    PROVE  RepairRows'
<1>1. CASE pc' = pc /\ UNCHANGED <<run, task>>
  BY <1>1 DEF RepairRows, IsFirst, FailedTasks, Present, NextRepair
<1>2. ASSUME NEW t \in Tasks, SaveRepair(t), pc' = "repair"
      PROVE  RepairRows'
  <2> DEFINE repair == RepairOf[t][NextRepair]
  <2>1. repair \in Tasks
    BY <1>2, RepairNumber, RepairNames DEF SaveRepair, CanRepair, TypeInv
  <2>2. /\ task'[repair].status = "PENDING"
        /\ \A u \in Tasks \ {repair} : task'[u] = task[u]
        /\ task[repair].status = "ABSENT"
    BY <1>2, <2>1, SaveOne DEF SaveRepair, NewTask
  <2>3. FailedTasks' = FailedTasks
    BY <2>2 DEF FailedTasks
  <2>4. IsFirst(t, FailedTasks) /\ FailedTasks \in SUBSET Tasks
    BY <1>2 DEF SaveRepair, Failed, FailedTasks
  <2>5. NextRepair' = NextRepair
    BY <1>2 DEF SaveRepair, NextRepair
  <2>6. ASSUME NEW u \in Tasks, IsFirst(u, FailedTasks)'
        PROVE  RepairOf[u][NextRepair'] \in Present(task)'
    <3>1. IsFirst(u, FailedTasks)
      BY <2>3, <2>6 DEF IsFirst
    <3>2. u = t
      BY <2>4, <3>1, FirstUnique
    <3> QED
      BY <2>1, <2>2, <2>5, <3>2 DEF Present, TypeInv, TypeOK
  <2> QED
    BY <1>2, <2>6 DEF RepairRows
<1>3. ASSUME NEW t \in Tasks, SaveReintegrate(t), pc' = "rewire"
      PROVE  RepairRows'
  <2> DEFINE again == Reintegrate[NextRepair]
  <2>1. again \in Tasks
    BY <1>3, RepairNumber, RepairNames DEF SaveReintegrate, CanRepair, TypeInv, PlaceOK, Goto
  <2>2. task'[again].status = "PENDING"
    BY <1>3, <2>1, SaveOne DEF SaveReintegrate, NewTask
  <2>3. NextRepair' = NextRepair
    BY <1>3 DEF SaveReintegrate, NextRepair
  <2>4. again \in Present(task)'
    BY <2>1, <2>2 DEF Present, TypeInv, TypeOK
  <2> QED
    BY <1>3, <2>3, <2>4 DEF RepairRows
<1>4. CASE pc' \notin {"repair", "rewire"}
  BY <1>4 DEF RepairRows
<1> QED
  BY <1>1, <1>2, <1>3, <1>4, RepairPlaces

-------------------------------------------------------------------------------
(* Authority *)

\* Approvals are only added for tasks that have succeeded, and a decision that
\* has been taken stands.
LEMMA ApprovalStep ==
    ASSUME TypeInv, Next
    PROVE  /\ DOMAIN approvals \subseteq DOMAIN approvals'
           /\ \A i \in DOMAIN approvals :
                 /\ approvals'[i].task = approvals[i].task
                 /\ approvals[i].status = "approved" => approvals'[i].status = "approved"
           /\ \A i \in DOMAIN approvals' \ DOMAIN approvals :
                 task[approvals'[i].task].status = "SUCCEEDED"
<1>1. CASE UNCHANGED approvals
  BY <1>1
<1>2. ASSUME NEW t \in Tasks, RequestApproval(t)
      PROVE  /\ DOMAIN approvals \subseteq DOMAIN approvals'
             /\ \A i \in DOMAIN approvals : approvals'[i] = approvals[i]
             /\ \A i \in DOMAIN approvals' \ DOMAIN approvals : approvals'[i].task = t
             /\ task[t].status = "SUCCEEDED"
  BY <1>2, AppendType DEF RequestApproval, NextGate, IsFirst, Gated, TypeInv
<1>3. ASSUME NEW i \in DOMAIN approvals, NEW decision \in {"approved", "rejected"},
             Resolve(i, decision)
      PROVE  /\ DOMAIN approvals \subseteq DOMAIN approvals'
             /\ DOMAIN approvals' \subseteq DOMAIN approvals
             /\ \A j \in DOMAIN approvals :
                   /\ approvals'[j].task = approvals[j].task
                   /\ approvals[j].status = "approved" => approvals'[j].status = "approved"
  BY <1>3, ResolveType DEF Resolve, TypeInv
<1>4. CASE BeginTick \/ Resume
  BY <1>1, <1>4
     DEF BeginTick, Resume, ConsumeApproved, ConsumeRefused, ClearGate, Promote,
         SavePromoted, SaveReviewReady, Proceed
<1>5. CASE Loop
  BY <1>1, <1>5
     DEF Loop, NextWave, WithinBudget, WavesExhausted, TimeExhausted,
         MaterializeRaises, Schedule, Blocked, Finalize, Scheduling
<1>6. CASE WaveDone \/ CountRepair \/ FailuresHandled \/ SavePause \/ GatesDone
  BY <1>1, <1>6 DEF WaveDone, CountRepair, FailuresHandled, SavePause, GatesDone
<1>7. ASSUME NEW t \in Tasks,
             SaveBootstrapTask(t) \/ RecoverTask(t) \/ Execute(t) \/ HandleFailure(t)
      PROVE  UNCHANGED approvals
  BY <1>7
     DEF SaveBootstrapTask, RecoverTask, Execute, StartTask, TaskSucceeds, TaskFails,
         HandleFailure, Retry, RetriesExhausted, TakeFallback, NoFallback,
         SaveRepair, SaveReintegrate, RepairCollides, Rewire, Rollback, NoRepair
<1>8. ASSUME NEW t \in Tasks, ProcessGate(t)
      PROVE  RequestApproval(t) \/ UNCHANGED approvals
  BY <1>8 DEF ProcessGate, GateAllowed, GateDenied
<1>9. CASE Crash
  BY <1>1, <1>9 DEF Crash, durable
<1> QED
  BY <1>1, <1>2, <1>3, <1>4, <1>5, <1>6, <1>7, <1>8, <1>9 DEF Next, Process, Approver

LEMMA SuccessStays ==
    ASSUME TypeInv, WaveOK, Next, NEW t \in Tasks, task[t].status = "SUCCEEDED"
    PROVE  /\ task'[t].status = "SUCCEEDED"
           /\ task'[t].deps = task[t].deps
           /\ task[t].cleared => task'[t].cleared
<1>1. RowStep(t)
  BY RowSteps
<1> QED
  BY <1>1 DEF RowStep, Kept, Created, Cleared, Requeued, Started, Ended, Routed, WaveOK

LEMMA AskedStep ==
    ASSUME TypeInv, WaveOK, AskedAfterSuccess, TypeInv', Next
    PROVE  AskedAfterSuccess'
<1> SUFFICES ASSUME NEW i \in DOMAIN approvals'
             PROVE  task'[approvals'[i].task].status = "SUCCEEDED"
  BY DEF AskedAfterSuccess
<1>1. approvals'[i].task \in Tasks
  <2> DEFINE Row == [task : Tasks, status : {"pending", "approved", "rejected"}]
  <2>1. approvals' \in Seq(Row)
    BY DEF TypeInv, TypeOK
  <2>2. approvals'[i] \in Row
    <3> HIDE DEF Row
    <3> QED BY <2>1
  <2> QED BY <2>2
<1>2. task[approvals'[i].task].status = "SUCCEEDED"
  BY ApprovalStep DEF AskedAfterSuccess
<1> QED
  BY <1>1, <1>2, SuccessStays

LEMMA ApprovedStays ==
    ASSUME TypeInv, Next, NEW t, Approved(t)
    PROVE  Approved(t)'
BY ApprovalStep DEF Approved

LEMMA GateAuthorityStep ==
    ASSUME TypeInv, WaveOK, Holding, GateAuthority, Next
    PROVE  GateAuthority'
<1> SUFFICES ASSUME NEW t \in Tasks, task'[t].cleared, "allow" \notin Gate[t]
             PROVE  Approved(t)'
  BY DEF GateAuthority
<1>1. RowStep(t)
  BY RowSteps
<1>2. CASE task[t].cleared
  BY <1>2, ApprovedStays DEF GateAuthority
<1>3. CASE Cleared(t)
  <2>1. pc = "approved" /\ t = approvals[hand].task
    BY <1>3 DEF Cleared
  <2>2. hand \in DOMAIN approvals /\ approvals[hand].status = "approved"
    BY <2>1 DEF Holding, TypeInv, TypeOK
  <2> QED
    BY <2>1, <2>2, ApprovedStays DEF Approved
<1> QED
  BY <1>1, <1>2, <1>3 DEF RowStep, Kept, Created, Requeued, Started, Ended, Routed

\* Which steps lead to the places where the process acts on an approval.
LEMMA HoldingPlaces ==
    ASSUME Next, pc' \in {"approved", "promote"}
    PROVE  \/ pc' = pc /\ UNCHANGED <<hand, task>>
           \/ ConsumeApproved \/ ClearGate
<1> USE DEF Goto, Stop
<1>1. ASSUME BeginTick \/ Resume
      PROVE  ConsumeApproved \/ ClearGate
  BY <1>1 DEF BeginTick, Resume, ConsumeRefused, Promote,
              SavePromoted, SaveReviewReady, Proceed
<1>2. ~Loop
  BY DEF Loop, NextWave, WithinBudget, WavesExhausted, TimeExhausted,
         MaterializeRaises, Schedule, Blocked, Finalize
<1>3. ~(WaveDone \/ CountRepair \/ FailuresHandled \/ SavePause \/ GatesDone)
  BY DEF WaveDone, CountRepair, FailuresHandled, SavePause, GatesDone
<1>4. ASSUME NEW t \in Tasks
      PROVE  ~(SaveBootstrapTask(t) \/ RecoverTask(t) \/ Execute(t))
  BY DEF SaveBootstrapTask, RecoverTask, Execute, StartTask, TaskSucceeds, TaskFails
<1>5. ASSUME NEW t \in Tasks
      PROVE  ~HandleFailure(t)
  BY DEF HandleFailure, Failed, Retry, RetriesExhausted, TakeFallback, NoFallback,
         SaveRepair, SaveReintegrate, RepairCollides, Rewire, Rollback, NoRepair
<1>6. ASSUME NEW t \in Tasks
      PROVE  ~ProcessGate(t)
  BY DEF ProcessGate, NextGate, GateAllowed, RequestApproval, GateDenied
<1>7. CASE Approver \/ Crash
  BY <1>7 DEF Approver, Resolve, Crash
<1> QED
  BY <1>1, <1>2, <1>3, <1>4, <1>5, <1>6, <1>7 DEF Next, Process

LEMMA HoldingStep ==
    ASSUME TypeInv, Holding, Next
    PROVE  Holding'
<1>1. CASE pc' \notin {"approved", "promote"}
  BY <1>1 DEF Holding
<1>2. CASE pc' \in {"approved", "promote"} /\ pc' = pc /\ UNCHANGED <<hand, task>>
  <2>1. hand # 0 /\ hand \in DOMAIN approvals /\ approvals[hand].status = "approved"
    BY <1>2 DEF Holding, TypeInv, TypeOK
  <2>2. approvals'[hand].task = approvals[hand].task /\ approvals'[hand].status = "approved"
    BY <2>1, ApprovalStep
  <2> QED
    BY <1>2, <2>1, <2>2 DEF Holding
<1>3. CASE ConsumeApproved
  BY <1>3 DEF ConsumeApproved, Holding, Goto
<1>4. CASE ClearGate
  <2> DEFINE t == approvals[hand].task
             new == [task[t] EXCEPT !.cleared = TRUE]
  <2>1. /\ pc = "approved" /\ hand # 0 /\ hand \in DOMAIN approvals
        /\ approvals[hand].status = "approved"
    BY <1>4 DEF ClearGate, Goto, Holding, TypeInv, TypeOK
  <2>2. t \in Tasks
    BY <2>1, ApprovalRow DEF TypeInv
  <2>3. Save(t, new) /\ new.cleared
    BY <1>4, <2>2, ClearedRow, RowType DEF ClearGate, TypeInv
  <2>4. task'[t].cleared
    <3> HIDE DEF new
    <3> QED BY <2>2, <2>3, SaveOne
  <2>5. pc' = "promote" => t \in ReleaseTasks
    BY <1>4 DEF ClearGate, Goto
  <2>6. UNCHANGED <<hand, approvals>>
    BY <1>4 DEF ClearGate
  <2> HIDE DEF new
  <2> QED
    BY <2>1, <2>4, <2>5, <2>6 DEF Holding
<1> QED
  BY <1>1, <1>2, <1>3, <1>4, HoldingPlaces

\* Only promote() touches workload main.
LEMMA OnlyPromoteMerges ==
    ASSUME Next
    PROVE  Promote \/ UNCHANGED main
<1>1. ASSUME BeginTick \/ Resume PROVE Promote \/ UNCHANGED main
  BY <1>1 DEF BeginTick, Resume, ConsumeApproved, ConsumeRefused, ClearGate,
              SavePromoted, SaveReviewReady, Proceed
<1>2. Loop => UNCHANGED main
  BY DEF Loop, NextWave, WithinBudget, WavesExhausted, TimeExhausted,
         MaterializeRaises, Schedule, Blocked, Finalize, Scheduling
<1>3. WaveDone \/ CountRepair \/ FailuresHandled \/ SavePause \/ GatesDone => UNCHANGED main
  BY DEF WaveDone, CountRepair, FailuresHandled, SavePause, GatesDone
<1>4. ASSUME NEW t \in Tasks,
             SaveBootstrapTask(t) \/ RecoverTask(t) \/ Execute(t)
               \/ HandleFailure(t) \/ ProcessGate(t)
      PROVE  UNCHANGED main
  BY <1>4
     DEF SaveBootstrapTask, RecoverTask, Execute, StartTask, TaskSucceeds, TaskFails,
         HandleFailure, Retry, RetriesExhausted, TakeFallback, NoFallback,
         SaveRepair, SaveReintegrate, RepairCollides, Rewire, Rollback, NoRepair,
         ProcessGate, GateAllowed, RequestApproval, GateDenied
<1>5. Approver \/ Crash => UNCHANGED main
  BY DEF Approver, Resolve, Crash, durable
<1> QED
  BY <1>1, <1>2, <1>3, <1>4, <1>5 DEF Next, Process

LEMMA MainlineStep ==
    ASSUME TypeInv, WaveOK, DependenciesFirst, Holding, AskedAfterSuccess,
           MainlineAuthority, Next
    PROVE  MainlineAuthority'
<1> DEFINE Released(t) ==
        /\ Approved(t)
        /\ task[t].status = "SUCCEEDED" /\ task[t].cleared
        /\ \A d \in task[t].deps : task[d].status = "SUCCEEDED"
<1>1. ASSUME NEW t \in ReleaseTasks, Released(t)
      PROVE  Released(t)'
  <2>1. t \in Tasks
    BY PlanAssumption DEF Tasks
  <2>2. /\ task'[t].status = "SUCCEEDED" /\ task'[t].cleared
        /\ task'[t].deps = task[t].deps
    BY <1>1, <2>1, SuccessStays
  <2>3. \A d \in task[t].deps : d \in Tasks
    <3>1. task[t] \in TaskRow
      BY <2>1, RowType DEF TypeInv
    <3> QED BY <3>1 DEF TaskRow
  <2>4. \A d \in task[t].deps : task'[d].status = "SUCCEEDED"
    BY <1>1, <2>3, SuccessStays
  <2>5. Approved(t)'
    BY <1>1, ApprovedStays
  <2> QED
    BY <2>2, <2>4, <2>5
<1>2. CASE Promote
  <2> DEFINE t == approvals[hand].task
  <2>1. hand \in DOMAIN approvals /\ approvals[hand].status = "approved"
    BY <1>2 DEF Promote, Goto, Holding, TypeInv, TypeOK
  <2>2. t \in ReleaseTasks /\ task[t].cleared
    BY <1>2 DEF Promote, Goto, Holding
  <2>3. task[t].status = "SUCCEEDED"
    BY <2>1 DEF AskedAfterSuccess
  <2>4. \A d \in task[t].deps : task[d].status = "SUCCEEDED"
    BY <2>2, <2>3, PlanAssumption DEF DependenciesFirst, Tasks
  <2>5. Released(t)
    BY <2>1, <2>2, <2>3, <2>4 DEF Approved
  <2> HIDE DEF t, Released
  <2>6. Released(t)'
    BY <1>2, <2>2, <2>5 DEF Promote, t, Released, Approved
  <2>7. t' = t
    BY <1>2 DEF Promote, t
  <2> QED
    BY <2>2, <2>6, <2>7 DEF MainlineAuthority, Released
<1>3. ASSUME main' => main
      PROVE  MainlineAuthority'
  <2> HIDE DEF Released
  <2> SUFFICES ASSUME main' PROVE \E t \in ReleaseTasks : Released(t)'
    BY DEF MainlineAuthority, Released
  <2>1. PICK t \in ReleaseTasks : Released(t)
    BY <1>3 DEF MainlineAuthority, Released
  <2> QED
    BY <1>1, <2>1
<1>4. Promote \/ (main' => main)
  BY OnlyPromoteMerges
<1> QED
  BY <1>2, <1>3, <1>4

-------------------------------------------------------------------------------
(* The theorems *)

LEMMA InitSafe == Init => SafeInv
<1> SUFFICES ASSUME Init PROVE SafeInv
  OBVIOUS
<1>1. TypeInv
  BY InitType
<1>2. \A t \in Tasks : /\ task[t].status = "ABSENT" /\ task[t].attempts = 0
                       /\ task[t].cleared = FALSE
  BY DEF Init, NoTask, NewTask
<1>3. WaveOK /\ RepairRows /\ Holding
  BY DEF Init, WaveOK, RepairRows, Holding
<1>4. AttemptBudget /\ GateAuthority /\ DependenciesFirst
  BY <1>2 DEF Init, AttemptBudget, GateAuthority, DependenciesFirst
<1>5. DependenciesKnown /\ AskedAfterSuccess /\ MainlineAuthority
  BY <1>1, <1>2, PresentNames DEF Init, DependenciesKnown, AskedAfterSuccess, MainlineAuthority
<1> QED
  BY <1>1, <1>3, <1>4, <1>5 DEF SafeInv

LEMMA NextType == ASSUME TypeInv, Next PROVE TypeInv'
<1>1. CASE Process
  BY <1>1, ResumeType, LoopType, ExecuteType, FailureType, GateType, OtherType DEF Process
<1>2. CASE Approver \/ Crash
  BY <1>2, EnvironmentType
<1> QED
  BY <1>1, <1>2 DEF Next

LEMMA SafeStep == SafeInv /\ [Next]_vars => SafeInv'
<1> SUFFICES ASSUME SafeInv, [Next]_vars PROVE SafeInv'
  OBVIOUS
<1>1. CASE Next
  <2>1. TypeInv'
    BY <1>1, NextType DEF SafeInv
  <2>2. WaveOK' /\ AttemptBudget'
    BY <1>1, WaveStep, AttemptStep DEF SafeInv
  <2>3. DependenciesKnown' /\ RepairRows' /\ DependenciesFirst'
    BY <1>1, <2>1, KnownStep, RepairStep, DependenciesStep DEF SafeInv
  <2>4. Holding' /\ AskedAfterSuccess' /\ GateAuthority' /\ MainlineAuthority'
    BY <1>1, <2>1, HoldingStep, AskedStep, GateAuthorityStep, MainlineStep DEF SafeInv
  <2> QED
    BY <2>1, <2>2, <2>3, <2>4 DEF SafeInv
<1>2. CASE UNCHANGED vars
  <2>1. TypeInv' /\ WaveOK' /\ AttemptBudget'
    BY <1>2 DEF SafeInv, vars, TypeInv, TypeOK, PlaceOK, IsFirst, FailedTasks, CanRepair,
                WaveOK, AttemptBudget
  <2>2. DependenciesKnown' /\ RepairRows' /\ DependenciesFirst'
    BY <1>2 DEF SafeInv, vars, DependenciesKnown, RepairRows, DependenciesFirst,
                Present, IsFirst, FailedTasks, NextRepair
  <2>3. Holding' /\ AskedAfterSuccess' /\ GateAuthority' /\ MainlineAuthority'
    BY <1>2 DEF SafeInv, vars, Holding, AskedAfterSuccess, GateAuthority, MainlineAuthority,
                Approved
  <2> QED
    BY <2>1, <2>2, <2>3 DEF SafeInv
<1> QED
  BY <1>1, <1>2

LEMMA AlwaysSafe == Spec => []SafeInv
BY InitSafe, SafeStep, PTL DEF Spec

\* No crash, refund, fallback or repair ever lets a queued task exceed its
\* attempts, and every started one has paid for its execution.
THEOREM AttemptsBounded == Spec => []AttemptBudget
<1>1. SafeInv => AttemptBudget
  BY DEF SafeInv
<1> QED
  BY <1>1, AlwaysSafe, PTL

\* Execution follows the graph, also while repairs change it.
THEOREM GraphRespected == Spec => []DependenciesFirst
<1>1. SafeInv => DependenciesFirst
  BY DEF SafeInv
<1> QED
  BY <1>1, AlwaysSafe, PTL

\* Every cleared gate was cleared by policy or by a human, wherever the
\* process died.
THEOREM GatesAuthorised == Spec => []GateAuthority
<1>1. SafeInv => GateAuthority
  BY DEF SafeInv
<1> QED
  BY <1>1, AlwaysSafe, PTL

\* Nothing reaches workload main without an approved and complete release.
THEOREM MainlineAuthorised == Spec => []MainlineAuthority
<1>1. SafeInv => MainlineAuthority
  BY DEF SafeInv
<1> QED
  BY <1>1, AlwaysSafe, PTL
===============================================================================
