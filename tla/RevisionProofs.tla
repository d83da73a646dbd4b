---------------------------- MODULE RevisionProofs ----------------------------
(***************************************************************************)
(* What revise() promises, for every plan, every script of revisions, any  *)
(* number of them and a death of the process between any two commits.      *)
(***************************************************************************)
EXTENDS Revision, FiniteSetTheorems, SequenceTheorems, TLAPS

-------------------------------------------------------------------------------
(* The engine inside: what EngineSafetyProofs, EngineOrderProofs and          *)
(* EngineGovernanceProofs show of any step of Engine holds here of the steps  *)
(* of the engine, when renewals are read as questions about create_plan and   *)
(* stale approvals as refused ones                                            *)

ApprovalRow == [task : Tasks \cup {"plan.revised"},
                status : {"pending", "approved", "rejected", "stale"}]

Understood(row) ==
    [task   |-> IF row.task = "plan.revised" THEN "create_plan" ELSE row.task,
     status |-> IF row.status = "stale" THEN "rejected" ELSE row.status]

understood == [i \in DOMAIN approvals |-> Understood(approvals[i])]

E == INSTANCE EngineGovernanceProofs WITH approvals <- understood

LEMMA SameNames ==
    /\ E!Bootstrap = Bootstrap /\ E!BootstrapDeps = BootstrapDeps
    /\ E!RepairTasks = RepairTasks /\ E!ReintegrateTasks = ReintegrateTasks
    /\ E!Tasks = Tasks /\ E!FailureClass = FailureClass /\ E!Decision = Decision
    /\ E!RunStatus = RunStatus /\ E!Terminal = Terminal /\ E!PC = PC
    /\ E!TaskRow = TaskRow /\ E!NoTask = NoTask
BY DEF E!Bootstrap, Bootstrap, E!BootstrapDeps, BootstrapDeps, E!RepairTasks, RepairTasks,
       E!ReintegrateTasks, ReintegrateTasks, E!Tasks, Tasks, E!FailureClass, FailureClass,
       E!Decision, Decision, E!RunStatus, RunStatus, E!Terminal, Terminal, E!PC, PC,
       E!TaskRow, TaskRow, E!TaskStatus, TaskStatus, E!NoTask, NoTask, E!NewTask, NewTask

LEMMA SameAssumptions ==
    E!PlanAssumption /\ E!NamesAssumption /\ E!BudgetAssumption
<1>1. E!PlanAssumption
  BY SameNames, PlanAssumption DEF PlanAssumption, E!PlanAssumption
<1>2. E!BudgetAssumption
  BY SameNames, BudgetAssumption DEF BudgetAssumption, E!BudgetAssumption
<1>3. E!NamesAssumption
  <2> HIDE DEF Tasks
  <2> QED
    BY SameNames, NamesAssumption DEF NamesAssumption, E!NamesAssumption
<1> QED
  BY <1>1, <1>2, <1>3

LEMMA SameRows ==
    /\ E!PlanAdopted <=> PlanAdopted
    /\ E!PlanRefused <=> PlanRefused
    /\ E!Materialized = Materialized
    /\ E!RunningTasks(task) = RunningTasks(task)
    /\ \A t : E!Gated(t) <=> Gated(t)
BY SameNames DEF E!PlanAdopted, PlanAdopted, E!PlanRefused, PlanRefused, E!ValidPlan, ValidPlan,
       E!Acyclic, Acyclic, E!Materialized, Materialized, E!NewTask, NewTask,
       E!RunningTasks, RunningTasks, E!Gated, Gated

\* An action that leaves the approvals alone is the same action of the engine.
LEMMA SameOutside == UNCHANGED approvals => UNCHANGED understood
BY DEF understood

LEMMA SameResume ==
    ASSUME BeginTick \/ Promote \/ SavePromoted \/ SaveReviewReady \/ Proceed
    PROVE  E!BeginTick \/ E!Resume
BY SameOutside
   DEF E!Resume, BeginTick, E!BeginTick, Promote, E!Promote, 
       SavePromoted, E!SavePromoted, SaveReviewReady, E!SaveReviewReady, Proceed, E!Proceed,
       Goto, E!Goto, Stop, E!Stop

LEMMA SameLoop == Loop => E!Loop
<1> USE SameOutside, SameNames, SameRows DEF E!Loop, Goto, E!Goto, Stop, E!Stop
<1>1. NextWave \/ WithinBudget \/ WavesExhausted \/ TimeExhausted => E!Loop
  BY DEF NextWave, E!NextWave, WithinBudget, E!WithinBudget, WavesExhausted, E!WavesExhausted,
         TimeExhausted, E!TimeExhausted
<1>2. MaterializeRaises => E!Loop
  BY DEF MaterializeRaises, E!MaterializeRaises
<1>3. Scheduling => E!Scheduling
  BY DEF Scheduling, E!Scheduling
<1>4. E!ReadyTasks(Materialized) = ReadyTasks(Materialized)
  BY DEF ReadyTasks, E!ReadyTasks, Present, E!Present, Satisfied, E!Satisfied
<1>5. Schedule => E!Loop
  BY <1>3, <1>4 DEF Schedule, E!Schedule
<1>6. Blocked \/ Finalize => E!Loop
  BY <1>3, <1>4 DEF Blocked, E!Blocked, Finalize, E!Finalize, NothingReady, E!NothingReady,
                    AnyFailed, E!AnyFailed, Unfinished, E!Unfinished
<1> QED
  BY <1>1, <1>2, <1>5, <1>6 DEF Loop

LEMMA SameWave ==
    ASSUME NEW t \in Tasks, SaveBootstrapTask(t) \/ RecoverTask(t) \/ Execute(t)
    PROVE  E!SaveBootstrapTask(t) \/ E!RecoverTask(t) \/ E!Execute(t)
<1> USE SameOutside, SameNames DEF Save, E!Save, IsFirst, E!IsFirst
<1>1. SaveBootstrapTask(t) => E!SaveBootstrapTask(t)
  BY DEF SaveBootstrapTask, E!SaveBootstrapTask, Missing, E!Missing, NewTask, E!NewTask
<1>2. RecoverTask(t) => E!RecoverTask(t)
  BY SameRows DEF RecoverTask, E!RecoverTask, Refunded, E!Refunded
<1>3. StartTask(t) => E!StartTask(t)
  BY SameRows DEF StartTask, E!StartTask, Taken, E!Taken, Cardinality, E!Cardinality
<1>4. TaskSucceeds(t) => E!TaskSucceeds(t)
  BY DEF TaskSucceeds, E!TaskSucceeds
<1>5. \A class : TaskFails(t, class) => E!TaskFails(t, class)
  BY DEF TaskFails, E!TaskFails
<1> QED
  BY <1>1, <1>2, <1>3, <1>4, <1>5 DEF Execute, E!Execute

LEMMA SameFailure ==
    ASSUME NEW t \in Tasks, HandleFailure(t)
    PROVE  E!HandleFailure(t)
<1> USE SameOutside, SameNames
    DEF Failed, E!Failed, FailedTasks, E!FailedTasks, IsFirst, E!IsFirst, Save, E!Save,
        Stop, E!Stop, Goto, E!Goto, NewTask, E!NewTask, CanRepair, E!CanRepair,
        NextRepair, E!NextRepair, Retryable, E!Retryable, E!HandleFailure
<1>1. Retry(t) \/ RetriesExhausted(t) => E!HandleFailure(t)
  BY DEF Retry, E!Retry, RetriesExhausted, E!RetriesExhausted
<1>2. TakeFallback(t) \/ NoFallback(t) => E!HandleFailure(t)
  BY DEF TakeFallback, E!TakeFallback, NoFallback, E!NoFallback
<1>3. SaveRepair(t) => E!HandleFailure(t)
  BY DEF SaveRepair, E!SaveRepair
<1>4. SaveReintegrate(t) => E!HandleFailure(t)
  BY DEF SaveReintegrate, E!SaveReintegrate
<1>5. RepairCollides(t) => E!HandleFailure(t)
  BY DEF RepairCollides, E!RepairCollides
<1>6. Rewire(t) => E!HandleFailure(t)
  BY DEF Rewire, E!Rewire
<1>7. Rollback(t) \/ NoRepair(t) => E!HandleFailure(t)
  BY DEF Rollback, E!Rollback, NoRepair, E!NoRepair
<1> QED
  BY <1>1, <1>2, <1>3, <1>4, <1>5, <1>6, <1>7 DEF HandleFailure

LEMMA SameRest ==
    /\ WaveDone => E!WaveDone
    /\ CountRepair => E!CountRepair
    /\ FailuresHandled => E!FailuresHandled
    /\ SavePause => E!SavePause
    /\ GatesDone => E!GatesDone
BY SameOutside, SameNames, SameRows
   DEF WaveDone, E!WaveDone, CountRepair, E!CountRepair, FailuresHandled, E!FailuresHandled,
       SavePause, E!SavePause, GatesDone, E!GatesDone, Goto, E!Goto,
       FailedTasks, E!FailedTasks, NextRepair, E!NextRepair

LEMMA SameCrash == Crash /\ UNCHANGED approvals => E!Crash
<1>1. Killed => E!Killed
  BY DEF Killed, E!Killed
<1>2. MergeRaises => E!MergeRaises
  BY DEF MergeRaises, E!MergeRaises
<1>3. RollbackRaises => E!RollbackRaises
  BY SameNames
     DEF RollbackRaises, E!RollbackRaises, Failed, E!Failed, FailedTasks, E!FailedTasks,
         IsFirst, E!IsFirst, CanRepair, E!CanRepair
<1>4. UNCHANGED durable /\ UNCHANGED approvals => UNCHANGED E!durable
  BY SameOutside DEF durable, E!durable
<1> QED
  BY <1>1, <1>2, <1>3, <1>4 DEF Crash, E!Crash

LEMMA SameGate ==
    ASSUME NEW t \in Tasks
    PROVE  /\ NextGate(t) <=> E!NextGate(t)
           /\ GateAllowed(t) => E!GateAllowed(t)
           /\ GateDenied(t) => E!GateDenied(t)
BY SameOutside, SameNames, SameRows
   DEF NextGate, E!NextGate, IsFirst, E!IsFirst, GateAllowed, E!GateAllowed,
       GateDenied, E!GateDenied, Save, E!Save, Stop, E!Stop

-------------------------------------------------------------------------------
(* Types *)

ApprovalsOK == approvals \in Seq(ApprovalRow)

LEMMA UnderstoodRow ==
    ASSUME NEW row \in ApprovalRow
    PROVE  /\ Understood(row) \in [task : Tasks, status : {"pending", "approved", "rejected"}]
           /\ row.status \in {"pending", "approved"} => Understood(row).status = row.status
           /\ row.status \in {"stale", "rejected"} => Understood(row).status = "rejected"
           /\ row.task \in Tasks => Understood(row).task = row.task
BY RevisionAssumption DEF ApprovalRow, Understood, Tasks, Bootstrap

LEMMA UnderstoodType ==
    ASSUME ApprovalsOK
    PROVE  /\ understood \in Seq([task : Tasks, status : {"pending", "approved", "rejected"}])
           /\ Len(understood) = Len(approvals) /\ DOMAIN understood = DOMAIN approvals
           /\ DOMAIN approvals = 1..Len(approvals) /\ Len(approvals) \in Nat
           /\ \A i \in DOMAIN approvals : /\ approvals[i] \in ApprovalRow
                                         /\ understood[i] = Understood(approvals[i])
<1> HIDE DEF ApprovalRow
<1> DEFINE Row == [task : Tasks, status : {"pending", "approved", "rejected"}]
<1>1. /\ DOMAIN approvals = 1..Len(approvals) /\ Len(approvals) \in Nat
      /\ \A i \in DOMAIN approvals : approvals[i] \in ApprovalRow
  BY DEF ApprovalsOK
<1>2. \A i \in 1..Len(approvals) : Understood(approvals[i]) \in Row
  <2> HIDE DEF Row
  <2> QED
    BY <1>1, UnderstoodRow DEF Row
<1> HIDE DEF Row
<1>3. understood = [i \in 1..Len(approvals) |-> Understood(approvals[i])]
  BY <1>1 DEF understood
<1>4. understood \in [1..Len(approvals) -> Row]
  BY <1>2, <1>3
<1>5. understood \in Seq(Row) /\ Len(understood) = Len(approvals)
  BY <1>1, <1>4
<1> QED
  BY <1>1, <1>3, <1>5 DEF Row

\* Two ways in which the table of approvals changes.
LEMMA UnderstoodAppend ==
    ASSUME ApprovalsOK, NEW row \in ApprovalRow, approvals' = Append(approvals, row)
    PROVE  /\ ApprovalsOK'
           /\ understood' = Append(understood, Understood(row))
<1> HIDE DEF ApprovalRow
<1>1. ApprovalsOK'
  BY DEF ApprovalsOK
<1>2. /\ Len(approvals') = Len(approvals) + 1
      /\ \A i \in 1..Len(approvals) : approvals'[i] = approvals[i]
      /\ approvals'[Len(approvals) + 1] = row
  BY DEF ApprovalsOK
<1>3. understood' = [i \in 1..Len(approvals) + 1 |-> Understood(approvals'[i])]
  <2>1. DOMAIN approvals' = 1..Len(approvals')
    BY <1>1 DEF ApprovalsOK
  <2> QED
    BY <1>2, <2>1 DEF understood
<1> DEFINE Row == [task : Tasks, status : {"pending", "approved", "rejected"}]
<1>4. understood \in Seq(Row) /\ Len(understood) = Len(approvals)
  BY UnderstoodType
<1>5. understood = [i \in 1..Len(approvals) |-> Understood(approvals[i])]
  BY UnderstoodType DEF understood
<1> HIDE DEF Row
<1> DEFINE new == Understood(row)
           longer == Append(understood, new)
           len == Len(understood)
<1>6. new \in Row
  BY UnderstoodRow DEF Row
<1>7. len \in Nat /\ len = Len(approvals)
  BY <1>4
<1> HIDE DEF new
<1>8. /\ longer \in Seq(Row) /\ Len(longer) = len + 1
      /\ \A i \in 1..len : longer[i] = understood[i]
      /\ longer[len + 1] = new
  BY <1>4, <1>6
<1> HIDE DEF longer, len
<1>9. longer = [i \in 1..len + 1 |-> longer[i]]
  BY <1>8
<1>10. \A i \in 1..len + 1 : longer[i] = Understood(approvals'[i])
  BY <1>2, <1>5, <1>7, <1>8 DEF new
<1>11. understood' = [i \in 1..len + 1 |-> longer[i]]
  BY <1>3, <1>7, <1>10
<1> QED
  BY <1>1, <1>9, <1>11 DEF longer, new

LEMMA UnderstoodChange ==
    ASSUME ApprovalsOK, NEW j \in DOMAIN approvals,
           NEW status \in {"pending", "approved", "rejected", "stale"},
           approvals' = [approvals EXCEPT ![j].status = status]
    PROVE  /\ ApprovalsOK'
           /\ understood' = [understood EXCEPT ![j].status =
                                 IF status = "stale" THEN "rejected" ELSE status]
           /\ DOMAIN approvals' = DOMAIN approvals /\ approvals'[j].status = status
           /\ \A i \in DOMAIN approvals : approvals'[i].task = approvals[i].task
           /\ \A i \in DOMAIN approvals \ {j} : approvals'[i] = approvals[i]
<1> DEFINE row == [approvals[j] EXCEPT !.status = status]
           seen == IF status = "stale" THEN "rejected" ELSE status
<1>1. approvals[j] \in ApprovalRow
  BY UnderstoodType
<1>2. /\ row \in ApprovalRow /\ row.status = status /\ row.task = approvals[j].task
      /\ Understood(row) = [Understood(approvals[j]) EXCEPT !.status = seen]
  BY <1>1 DEF ApprovalRow, Understood
<1>3. approvals' = [approvals EXCEPT ![j] = row]
  OBVIOUS
<1> HIDE DEF row, seen, ApprovalRow
<1>4. /\ ApprovalsOK'
      /\ DOMAIN approvals' = DOMAIN approvals
      /\ approvals'[j] = row /\ \A i \in DOMAIN approvals \ {j} : approvals'[i] = approvals[i]
  BY <1>2, <1>3 DEF ApprovalsOK
<1>5. understood' = [i \in DOMAIN approvals |->
                        IF i = j THEN Understood(row) ELSE Understood(approvals[i])]
  BY <1>4 DEF understood
<1>6. [understood EXCEPT ![j].status = seen] = [understood EXCEPT ![j] = Understood(row)]
  BY <1>2 DEF understood
<1>7. understood' = [understood EXCEPT ![j].status = seen]
  BY <1>5, <1>6 DEF understood
<1> QED
  BY <1>2, <1>4, <1>7 DEF seen

\* While revise() works nothing else of the process does.
Frozen == at # "none" => pc \in {"idle", "loop"}

RType == ApprovalsOK /\ E!TypeInv /\ E!WaveOK /\ Frozen

LEMMA RTypeFacts ==
    ASSUME RType
    PROVE  /\ task \in [Tasks -> TaskRow] /\ DOMAIN task = Tasks
           /\ run \in [status : RunStatus, waves : Nat, repairs : 0..MaxRepairs, pending : Nat]
           /\ run.pending \in {0} \cup DOMAIN approvals
           /\ hand \in {0} \cup DOMAIN approvals
           /\ pc \in PC /\ wave \subseteq Tasks
           /\ pc = "approved" => hand # 0
<1> HIDE DEF TaskRow
<1> QED
  BY SameNames, UnderstoodType DEF RType, E!TypeInv, E!TypeOK, E!PlaceOK

-------------------------------------------------------------------------------
(* Steps *)

\* What the engine does while nobody revises, and what approvers do.
EngineStep ==
    \/ /\ at = "none"
       /\ \/ EngineAlone /\ UNCHANGED rvars
          \/ EndPass \/ ConsumeCurrent \/ ClearTaskGate \/ CrashEngine
          \/ \E t \in Tasks : BeginTask(t) \/ EndTask(t) \/ Ask(t)
    \/ \E i \in DOMAIN approvals, decision \in {"approved", "rejected"} : Decide(i, decision)

LEMMA ResumeUnderstood ==
    ASSUME RType, ConsumeRefused \/ ConsumeCurrent \/ ClearTaskGate
    PROVE  E!Resume
<1> USE DEF E!Resume, Goto, E!Goto, Stop, E!Stop
<1>1. CASE ConsumeRefused
  <2>1. run.pending \in DOMAIN approvals /\ approvals[run.pending].status = "rejected"
    BY <1>1, RTypeFacts DEF ConsumeRefused
  <2>2. understood[run.pending].status = "rejected"
    BY <2>1, UnderstoodType, UnderstoodRow DEF RType
  <2> QED
    BY <1>1, <2>2, SameOutside DEF ConsumeRefused, E!ConsumeRefused
<1>2. CASE ConsumeCurrent
  <2>1. /\ run.pending \in DOMAIN approvals /\ approvals[run.pending].status = "approved"
        /\ ConsumeApproved
    BY <1>2, RTypeFacts DEF ConsumeCurrent, ConsumeApproved
  <2>2. understood[run.pending].status = "approved"
    BY <2>1, UnderstoodType, UnderstoodRow DEF RType
  <2> QED
    BY <2>1, <2>2, SameOutside DEF ConsumeApproved, E!ConsumeApproved
<1>3. CASE ClearTaskGate
  <2>1. ClearGate /\ pc = "approved" /\ ~Renews(hand) /\ hand \in DOMAIN approvals
    BY <1>3, RTypeFacts DEF ClearTaskGate
  <2>2. approvals[hand] \in ApprovalRow
    BY <2>1, UnderstoodType DEF RType
  <2>3. approvals[hand].task \in Tasks
    BY <2>1, <2>2 DEF Renews, ApprovalRow
  <2>4. understood[hand].task = approvals[hand].task
    BY <2>1, <2>2, <2>3, UnderstoodType, UnderstoodRow DEF RType
  <2>5. E!ClearGate
    BY <2>1, <2>4, SameOutside DEF ClearGate, E!ClearGate, Save, E!Save
  <2> QED
    BY <2>5
<1> QED
  BY <1>1, <1>2, <1>3

LEMMA AskUnderstood ==
    ASSUME RType, NEW t \in Tasks, RequestApproval(t)
    PROVE  E!RequestApproval(t) /\ ApprovalsOK'
<1> DEFINE row == [task |-> t, status |-> "pending"]
<1>1. row \in ApprovalRow
  BY DEF ApprovalRow
<1>2. Understood(row) = row
  BY RevisionAssumption DEF Understood
<1>3. approvals' = Append(approvals, row)
  BY DEF RequestApproval
<1> HIDE DEF row
<1>4. understood' = Append(understood, row) /\ ApprovalsOK'
  BY <1>1, <1>2, <1>3, UnderstoodAppend DEF RType
<1>5. Len(understood) = Len(approvals)
  BY UnderstoodType DEF RType
<1> QED
  BY <1>4, <1>5, SameGate DEF RequestApproval, E!RequestApproval, row

LEMMA DecideUnderstood ==
    ASSUME RType, NEW i \in DOMAIN approvals, NEW decision \in {"approved", "rejected"},
           Decide(i, decision)
    PROVE  E!Approver /\ ApprovalsOK'
<1> DEFINE status == IF Changed(i) THEN "stale" ELSE decision
           seen == IF status = "stale" THEN "rejected" ELSE status
<1>1. /\ status \in {"pending", "approved", "rejected", "stale"}
      /\ seen \in {"approved", "rejected"}
  OBVIOUS
<1>2. Resolve(i, status)
  BY DEF Decide
<1> HIDE DEF status
<1>3. understood' = [understood EXCEPT ![i].status = seen] /\ ApprovalsOK'
  BY <1>1, <1>2, UnderstoodChange DEF Resolve, RType
<1>4. understood[i].status = "pending" /\ i \in DOMAIN understood
  BY <1>2, UnderstoodType, UnderstoodRow DEF Resolve, RType
<1> HIDE DEF seen
<1>5. E!Resolve(i, seen)
  BY <1>2, <1>3, <1>4 DEF Resolve, E!Resolve
<1> QED
  BY <1>1, <1>3, <1>4, <1>5 DEF E!Approver

LEMMA EngineUnderstood ==
    ASSUME RType, EngineStep
    PROVE  E!Next /\ ApprovalsOK'
<1>0. /\ E!BeginTick \/ E!Resume \/ E!Loop \/ E!WaveDone \/ E!CountRepair \/ E!FailuresHandled
            \/ E!SavePause \/ E!GatesDone \/ E!Approver \/ E!Crash => E!Next
      /\ \A t \in Tasks : E!SaveBootstrapTask(t) \/ E!RecoverTask(t) \/ E!Execute(t)
            \/ E!HandleFailure(t) \/ E!ProcessGate(t) => E!Next
  BY SameNames DEF E!Next, E!Process
<1>1. CASE EngineAlone
  <2>1. ASSUME NEW t \in Tasks, SaveBootstrapTask(t) \/ RecoverTask(t)
        PROVE  E!Next /\ UNCHANGED approvals
    <3>1. E!SaveBootstrapTask(t) \/ E!RecoverTask(t) \/ E!Execute(t)
      BY <2>1, SameWave
    <3> QED
      BY <1>0, <2>1, <3>1 DEF SaveBootstrapTask, RecoverTask
  <2>2. ASSUME NEW t \in Tasks, HandleFailure(t)
        PROVE  E!Next /\ UNCHANGED approvals
    <3>1. E!HandleFailure(t)
      BY <2>2, SameFailure
    <3>2. UNCHANGED approvals
      BY <2>2 DEF HandleFailure, Retry, RetriesExhausted, TakeFallback, NoFallback, SaveRepair,
                  SaveReintegrate, RepairCollides, Rewire, Rollback, NoRepair
    <3> QED
      BY <1>0, <3>1, <3>2
  <2>3. ASSUME NEW t \in Tasks, GateAllowed(t) \/ GateDenied(t)
        PROVE  E!Next /\ UNCHANGED approvals
    BY <1>0, <2>3, SameGate DEF E!ProcessGate, GateAllowed, GateDenied
  <2>4. ASSUME BeginTick \/ Promote \/ SavePromoted \/ SaveReviewReady \/ Proceed
        PROVE  E!Next /\ UNCHANGED approvals
    BY <1>0, <2>4, SameResume DEF BeginTick, Promote, SavePromoted, SaveReviewReady, Proceed
  <2>5. ASSUME ConsumeRefused
        PROVE  E!Next /\ UNCHANGED approvals
    BY <1>0, <2>5, ResumeUnderstood DEF ConsumeRefused
  <2>6. ASSUME Loop
        PROVE  E!Next /\ UNCHANGED approvals
    BY <1>0, <2>6, SameLoop DEF Loop, NextWave, WithinBudget, WavesExhausted, TimeExhausted,
              MaterializeRaises, Schedule, Blocked, Finalize, Scheduling
  <2>7. ASSUME WaveDone \/ CountRepair \/ FailuresHandled \/ SavePause
        PROVE  E!Next /\ UNCHANGED approvals
    BY <1>0, <2>7, SameRest DEF WaveDone, CountRepair, FailuresHandled, SavePause
  <2>8. E!Next /\ UNCHANGED approvals
    BY <1>1, <2>1, <2>2, <2>3, <2>4, <2>5, <2>6, <2>7 DEF EngineAlone
  <2> QED
    BY <2>8 DEF RType, ApprovalsOK
<1>2. CASE EndPass
  BY <1>0, <1>2, SameRest DEF EndPass, GatesDone, RType, ApprovalsOK
<1>3. CASE ConsumeCurrent \/ ClearTaskGate
  <2>1. UNCHANGED approvals
    BY <1>3 DEF ConsumeCurrent, ConsumeApproved, ClearTaskGate, ClearGate
  <2> QED
    BY <1>0, <1>3, <2>1, ResumeUnderstood DEF RType, ApprovalsOK
<1>4. CASE CrashEngine
  <2>1. Crash /\ UNCHANGED approvals
    BY <1>4 DEF CrashEngine, Crash, durable
  <2>2. E!Crash
    BY <2>1, SameCrash
  <2> QED
    BY <1>0, <2>1, <2>2 DEF RType, ApprovalsOK
<1>5. ASSUME NEW t \in Tasks, BeginTask(t) \/ EndTask(t)
      PROVE  E!Next /\ ApprovalsOK'
  <2>1. Execute(t) /\ UNCHANGED approvals
    BY <1>5 DEF BeginTask, EndTask, Execute, StartTask, TaskSucceeds, TaskFails
  <2>2. E!SaveBootstrapTask(t) \/ E!RecoverTask(t) \/ E!Execute(t)
    BY <2>1, SameWave
  <2> QED
    BY <1>0, <2>1, <2>2 DEF RType, ApprovalsOK
<1>6. ASSUME NEW t \in Tasks, Ask(t)
      PROVE  E!Next /\ ApprovalsOK'
  BY <1>0, <1>6, AskUnderstood DEF Ask, E!ProcessGate
<1>7. ASSUME NEW i \in DOMAIN approvals, NEW decision \in {"approved", "rejected"},
             Decide(i, decision)
      PROVE  E!Next /\ ApprovalsOK'
  BY <1>0, <1>7, DecideUnderstood
<1> QED
  BY <1>1, <1>2, <1>3, <1>4, <1>5, <1>6, <1>7 DEF EngineStep

\* The other steps: what the revisions do, and workers who publish.
OwnStep ==
    \/ /\ at = "none"
       /\ \/ ConsumeStale \/ ClearRevision \/ OperatorRevises
          \/ \E t \in Tasks : PublishOutput(t)
    \/ at # "none" /\ Revise

LEMMA StepKinds == RNext => EngineStep \/ OwnStep
<1>1. Revise => at # "none"
  BY DEF Revise, RevisionRefused, CloseApproval, PublishContract, FindAffected, PublishPlan,
         SaveRevision, RequestRenewal, PauseRevised, GoOn, CutRevision, Invalidate,
         ResetTask, RedefineTask, Move
<1>2. at = "none" /\ Tick => EngineStep \/ OwnStep
  BY DEF Tick, EngineStep, OwnStep
<1> QED
  BY <1>1, <1>2 DEF RNext, OwnStep, EngineStep

\* What each of them does to the rows of the tasks.
RowsTouched == \E t \in Tasks : ResetTask(t) \/ RedefineTask(t)

LEMMA OwnMoves ==
    ASSUME RType, OwnStep
    PROVE  /\ UNCHANGED <<main, wave, hand, died>>
           /\ RowsTouched \/ UNCHANGED task
           /\ \/ pc' = pc
              \/ pc' = "idle" /\ pc \in {"idle", "loop"}
              \/ pc' = "proceed" /\ ClearRevision
           /\ pc # "wave" \/ UNCHANGED vars
<1>1. CASE ConsumeStale
  BY <1>1 DEF ConsumeStale, Stop
<1>2. CASE ClearRevision
  BY <1>2 DEF ClearRevision, Goto
<1>3. CASE OperatorRevises \/ \E t \in Tasks : PublishOutput(t)
  BY <1>3 DEF OperatorRevises, PublishOutput, vars
<1>4. CASE at # "none" /\ Revise
  <2> USE <1>4 DEF Frozen, RType
  <2>1. CASE RowsTouched
    BY <2>1 DEF RowsTouched, ResetTask, RedefineTask
  <2>2. CASE RevisionRefused \/ CloseApproval \/ SaveRevision \/ RequestRenewal
               \/ PauseRevised \/ GoOn \/ CutRevision
    BY <2>2 DEF RevisionRefused, CloseApproval, SaveRevision, RequestRenewal, PauseRevised,
                GoOn, CutRevision, Stop
  <2>3. CASE PublishContract \/ FindAffected \/ PublishPlan \/ \E i \in DOMAIN arts : Invalidate(i)
    BY <2>3 DEF PublishContract, FindAffected, PublishPlan, Invalidate, vars
  <2> QED
    BY <2>1, <2>2, <2>3 DEF Revise, RowsTouched
<1> QED
  BY <1>1, <1>2, <1>3, <1>4 DEF OwnStep

\* The row a reset or a redefinition leaves.
LEMMA TouchedRow ==
    ASSUME RType, NEW t \in Tasks, ResetTask(t) \/ RedefineTask(t)
    PROVE  /\ task'[t] \in TaskRow
           /\ \A u \in Tasks \ {t} : task'[u] = task[u]
           /\ task' \in [Tasks -> TaskRow]
           /\ ResetTask(t) => /\ task'[t].status = "PENDING" /\ task'[t].attempts = 0
                              /\ ~task'[t].cleared /\ task'[t].deps = task[t].deps
                              /\ t \in mem.affected /\ task[t].status # "ABSENT"
           /\ RedefineTask(t) => /\ t \in PlanTasks /\ task'[t].deps = RevisedDeps[t]
                                 /\ IF task[t].status = "ABSENT"
                                    THEN task'[t].status = "PENDING" /\ ~task'[t].cleared
                                    ELSE /\ t \in mem.affected
                                         /\ task'[t].status = task[t].status
                                         /\ task'[t].cleared = task[t].cleared
<1> DEFINE old == task[t]
           new == task'[t]
<1>0. old \in TaskRow /\ DOMAIN task = Tasks /\ task \in [Tasks -> TaskRow]
  <2> HIDE DEF TaskRow
  <2> QED
    BY RTypeFacts
<1>1. CASE ResetTask(t)
  <2> DEFINE row == [old EXCEPT !.status = "PENDING", !.attempts = 0,
                                !.cleared = FALSE, !.class = "none"]
  <2>1. Save(t, row) /\ t \in mem.affected /\ old.status # "ABSENT"
    BY <1>1 DEF ResetTask, IsFirst, Unreset
  <2>2. /\ row \in TaskRow /\ row.status = "PENDING" /\ row.attempts = 0
        /\ ~row.cleared /\ row.deps = old.deps
    <3> HIDE DEF old
    <3> QED
      BY <1>0 DEF TaskRow, TaskStatus
  <2> HIDE DEF row
  <2>3. new = row /\ \A u \in Tasks \ {t} : task'[u] = task[u]
    BY <1>0, <2>1 DEF Save
  <2>4. task' \in [Tasks -> TaskRow]
    <3> HIDE DEF TaskRow
    <3> QED
      BY <1>0, <2>1, <2>2 DEF Save
  <2>5. ~RedefineTask(t)
    BY <1>1 DEF ResetTask, RedefineTask
  <2> QED
    BY <1>1, <2>1, <2>2, <2>3, <2>4, <2>5
<1>2. CASE RedefineTask(t)
  <2> DEFINE row == Redefined(t)
  <2>1. /\ Save(t, row) /\ t \in IF OldPlan THEN PlanTasks ELSE Upserts
        /\ t \in mem.affected \/ old.status = "ABSENT"
    BY <1>2 DEF RedefineTask, IsFirst, Redefinable
  <2>2. t \in PlanTasks
    BY <2>1, RevisionAssumption
  <2>3. RevisedDeps[t] \in SUBSET Tasks
    BY <2>2, RevisionAssumption DEF Tasks
  <2> DEFINE Right == /\ row \in TaskRow /\ row.deps = RevisedDeps[t]
                      /\ IF old.status = "ABSENT"
                         THEN row.status = "PENDING" /\ ~row.cleared
                         ELSE row.status = old.status /\ row.cleared = old.cleared
  <2>4. ASSUME old.status = "ABSENT" PROVE Right
    <3>1. row = NewTask(RevisedDeps[t], t \in HasFallback)
      BY <2>4 DEF Redefined
    <3>2. row \in TaskRow /\ row.status = "PENDING" /\ ~row.cleared /\ row.deps = RevisedDeps[t]
      BY <2>3, <3>1 DEF NewTask, TaskRow, TaskStatus, FailureClass
    <3> QED
      BY <2>4, <3>2
  <2>5. ASSUME old.status # "ABSENT" PROVE Right
    <3>1. row = [old EXCEPT !.deps = RevisedDeps[t], !.fallback = t \in HasFallback]
      BY <2>5 DEF Redefined
    <3>2. /\ row \in TaskRow /\ row.status = old.status /\ row.cleared = old.cleared
          /\ row.deps = RevisedDeps[t]
      <4> DEFINE fallback == t \in HasFallback
      <4>1. fallback \in BOOLEAN
        OBVIOUS
      <4> HIDE DEF old, fallback
      <4> QED
        BY <1>0, <2>3, <3>1, <4>1 DEF TaskRow, fallback
    <3> QED
      BY <2>5, <3>2
  <2>6. /\ row \in TaskRow /\ row.deps = RevisedDeps[t]
        /\ IF old.status = "ABSENT"
           THEN row.status = "PENDING" /\ ~row.cleared
           ELSE row.status = old.status /\ row.cleared = old.cleared
    BY <2>4, <2>5
  <2> HIDE DEF row
  <2>7. new = row /\ \A u \in Tasks \ {t} : task'[u] = task[u]
    BY <1>0, <2>1 DEF Save
  <2>8. task' \in [Tasks -> TaskRow]
    <3> HIDE DEF TaskRow
    <3> QED
      BY <1>0, <2>1, <2>6 DEF Save
  <2>9. ~ResetTask(t)
    BY <1>2 DEF ResetTask, RedefineTask
  <2> QED
    BY <2>1, <2>2, <2>6, <2>7, <2>8, <2>9
<1> QED
  BY <1>1, <1>2

-------------------------------------------------------------------------------
(* The types are kept *)

UnderstoodOK ==
    /\ understood \in Seq([task : Tasks, status : {"pending", "approved", "rejected"}])
    /\ DOMAIN understood = DOMAIN approvals

LEMMA UnderstoodNext == ApprovalsOK' => UnderstoodOK'
<1>1. ApprovalsOK => UnderstoodOK
  BY UnderstoodType DEF UnderstoodOK
<1> QED
  BY <1>1, PTL

\* The steps of their own add approvals or change the status of one.
LEMMA OwnApprovals ==
    ASSUME RType, OwnStep
    PROVE  /\ ApprovalsOK'
           /\ DOMAIN approvals \subseteq DOMAIN approvals'
           /\ \A i \in DOMAIN approvals : /\ approvals'[i].task = approvals[i].task
                                         /\ \/ approvals'[i].status = approvals[i].status
                                            \/ approvals'[i].status = "stale"
<1> USE DEF RType
<1>1. ASSUME UNCHANGED approvals
      PROVE  /\ ApprovalsOK'
             /\ DOMAIN approvals \subseteq DOMAIN approvals'
             /\ \A i \in DOMAIN approvals : /\ approvals'[i].task = approvals[i].task
                                           /\ approvals'[i].status = approvals[i].status
  BY <1>1 DEF ApprovalsOK
<1>2. CASE ConsumeStale
  <2>1. run.pending \in DOMAIN approvals
    BY <1>2, RTypeFacts DEF ConsumeStale
  <2> QED
    BY <1>2, <2>1, UnderstoodChange DEF ConsumeStale
<1>3. CASE CloseApproval
  <2>1. ClosesGate => run.pending \in DOMAIN approvals
    BY RTypeFacts DEF ClosesGate
  <2>2. CASE ClosesGate
    BY <1>3, <2>1, <2>2, UnderstoodChange DEF CloseApproval
  <2>3. CASE ~ClosesGate
    BY <1>1, <1>3, <2>3 DEF CloseApproval
  <2> QED
    BY <2>2, <2>3
<1>4. CASE RequestRenewal
  <2> DEFINE row == [task |-> "plan.revised", status |-> "pending"]
  <2>1. row \in ApprovalRow /\ approvals' = Append(approvals, row)
    BY <1>4 DEF RequestRenewal, ApprovalRow
  <2> HIDE DEF row, ApprovalRow
  <2>2. ApprovalsOK'
    BY <2>1, UnderstoodAppend
  <2> QED
    BY <2>1, <2>2 DEF ApprovalsOK
<1>5. CASE ~ConsumeStale /\ ~CloseApproval /\ ~RequestRenewal
  <2>1. UNCHANGED approvals
    BY <1>5 DEF OwnStep, ClearRevision, OperatorRevises, PublishOutput, vars, Revise,
                RevisionRefused, PublishContract, FindAffected, PublishPlan, SaveRevision,
                PauseRevised, GoOn, CutRevision, Invalidate, ResetTask, RedefineTask
  <2> QED
    BY <1>1, <2>1
<1> QED
  BY <1>2, <1>3, <1>4, <1>5

\* And they change the run row in a few ways.
LEMMA OwnRun ==
    ASSUME RType, OwnStep, at = "pause" => mem.asked \in DOMAIN approvals
    PROVE  /\ run' \in [status : RunStatus, waves : Nat, repairs : 0..MaxRepairs, pending : Nat]
           /\ run'.repairs = run.repairs
           /\ run'.pending \in {0} \cup DOMAIN approvals
           /\ \/ UNCHANGED run
              \/ ConsumeStale /\ run'.status = "denied" /\ run'.pending = run.pending
              \/ RevisionRefused /\ run'.status = "safe_stopped" /\ run'.pending = run.pending
              \/ SaveRevision /\ run'.status = run.status /\ run'.pending = 0
              \/ PauseRevised /\ run'.status = "awaiting_approval" /\ run'.pending = mem.asked
              \/ GoOn /\ run'.status = "executing" /\ run'.pending = run.pending
<1>0. /\ run \in [status : RunStatus, waves : Nat, repairs : 0..MaxRepairs, pending : Nat]
      /\ run.pending \in {0} \cup DOMAIN approvals
      /\ DOMAIN approvals \subseteq Nat
  BY RTypeFacts, UnderstoodType DEF RType
<1> USE <1>0 DEF RunStatus
<1>1. CASE ConsumeStale
  BY <1>1 DEF ConsumeStale, Stop
<1>2. CASE RevisionRefused
  BY <1>2 DEF RevisionRefused, Stop
<1>3. CASE SaveRevision
  BY <1>3 DEF SaveRevision
<1>4. CASE PauseRevised
  <2>1. mem.asked \in DOMAIN approvals /\ mem.asked \in Nat
    BY <1>4 DEF PauseRevised
  <2> QED
    BY <1>4, <2>1 DEF PauseRevised
<1>5. CASE GoOn
  BY <1>5 DEF GoOn
<1>6. CASE ~ConsumeStale /\ ~RevisionRefused /\ ~SaveRevision /\ ~PauseRevised /\ ~GoOn
  <2>1. UNCHANGED run
    BY <1>6 DEF OwnStep, ClearRevision, OperatorRevises, PublishOutput, vars, Revise,
                CloseApproval, PublishContract, FindAffected, PublishPlan, RequestRenewal,
                CutRevision, Invalidate, ResetTask, RedefineTask
  <2> QED
    BY <2>1
<1> QED
  BY <1>1, <1>2, <1>3, <1>4, <1>5, <1>6

-------------------------------------------------------------------------------
(* The registry of artifacts and the memory of revise() *)

ArtifactNames == {Produces[t] : t \in Tasks} \cup {"requirement", "plan", Contract}

ArtifactRow == [name : ArtifactNames, by : Tasks \cup {"revision"}, content : Nat, stale : BOOLEAN,
                version : Nat, parents : SUBSET Nat]

RegistryOK ==
    /\ arts \in Seq(ArtifactRow)
    /\ \A i \in DOMAIN arts : arts[i].parents \subseteq 1..i - 1 /\ arts[i].version <= i
    /\ plan \in [replans : Nat, applied : BOOLEAN, version : Nat]

MemoryOK ==
    /\ mem \in [seen : SUBSET DOMAIN arts, names : SUBSET ArtifactNames,
                affected : SUBSET Tasks, asked : Nat]
    /\ at = "pause" => mem.asked \in DOMAIN approvals

LEMMA RegistryFacts ==
    ASSUME RegistryOK
    PROVE  /\ DOMAIN arts = 1..Len(arts) /\ Len(arts) \in Nat
           /\ \A i \in DOMAIN arts : /\ arts[i] \in ArtifactRow
                                    /\ arts[i].parents \subseteq 1..i - 1
                                    /\ arts[i].version <= i
<1> HIDE DEF ArtifactRow
<1> QED
  BY DEF RegistryOK

LEMMA LeastNumber ==
    ASSUME NEW S \in SUBSET Nat, S # {}
    PROVE  \E m \in S : \A k \in S : m <= k
<1>1. \E m \in S : \A k \in S : ~ (<<k, m>> \in OpToRel(<, Nat))
  BY NatLessThanWellFounded, WFMin
<1>2. PICK m \in S : \A k \in S : ~ (<<k, m>> \in OpToRel(<, Nat))
  BY <1>1
<1>3. \A k \in S : ~ (k < m)
  BY <1>2 DEF OpToRel
<1> QED
  BY <1>3

\* The first of a set of places in the table.
LEMMA MinOf ==
    ASSUME NEW S \in SUBSET Nat, S # {}
    PROVE  Min(S) \in S /\ \A i \in S : Min(S) <= i
<1>1. \E n \in S : \A i \in S : n <= i
  BY LeastNumber
<1> QED
  BY <1>1 DEF Min

\* The current artifact of a name exists when any does, and is fresh when any is.
LEMMA CurrentOf ==
    ASSUME RegistryOK, NEW name
    PROVE  IF Versions(name) = {} THEN Current(name) = 0
           ELSE /\ Current(name) \in Versions(name)
                /\ Current(name) \in 1..Len(arts)
                /\ arts[Current(name)].stale => \A i \in Versions(name) : arts[i].stale
                /\ \A i \in Versions(name) :
                      ~arts[i].stale => arts[i].version <= arts[Current(name)].version
<1> DEFINE fresh == {i \in Versions(name) : ~arts[i].stale}
           pool == IF fresh = {} THEN Versions(name) ELSE fresh
           last == {i \in pool : \A j \in pool : arts[j].version <= arts[i].version}
           N == Len(arts)
<1>1. /\ Versions(name) \subseteq 1..N /\ N \in Nat
      /\ \A i \in 1..N : arts[i].version \in Nat /\ arts[i].version <= N
  BY RegistryFacts DEF Versions, ArtifactRow
<1>2. Current(name) = IF pool = {} THEN 0 ELSE Min(last)
  BY DEF Current
<1>3. CASE Versions(name) = {}
  BY <1>2, <1>3
<1>4. CASE Versions(name) # {}
  <2> HIDE DEF N
  <2>1. pool # {} /\ pool \subseteq Versions(name)
    BY <1>4
  <2> DEFINE gaps == {N - arts[i].version : i \in pool}
  <2>2. gaps \in SUBSET Nat /\ gaps # {}
    <3> HIDE DEF pool
    <3> QED
      BY <1>1, <2>1
  <2>3. PICK g \in gaps : \A k \in gaps : g <= k
    <3> HIDE DEF gaps
    <3> QED
      BY <2>2, LeastNumber
  <2>4. PICK i \in pool : g = N - arts[i].version
    BY <2>3
  <2>5. \A j \in pool : arts[j].version <= arts[i].version
    <3> TAKE j \in pool
    <3>1. N - arts[i].version <= N - arts[j].version
      BY <2>3, <2>4
    <3> HIDE DEF pool, gaps
    <3> QED
      BY <1>1, <2>1, <2>4, <3>1
  <2>6. last # {} /\ last \subseteq pool /\ last \in SUBSET Nat
    <3> HIDE DEF pool
    <3> QED
      BY <1>1, <2>1, <2>4, <2>5
  <2>7. Current(name) \in pool /\ Current(name) \in last
    <3> HIDE DEF pool, last
    <3> QED
      BY <1>2, <2>1, <2>6, MinOf
  <2>8. Current(name) \in Versions(name)
    <3> HIDE DEF pool
    <3> QED
      BY <2>1, <2>7
  <2>9. arts[Current(name)].stale => \A k \in Versions(name) : arts[k].stale
    BY <2>7, <2>8
  <2>10. \A k \in Versions(name) : ~arts[k].stale => arts[k].version <= arts[Current(name)].version
    BY <2>7, <2>8
  <2> QED
    BY <1>1, <1>4, <2>8, <2>9, <2>10 DEF N
<1> QED
  BY <1>3, <1>4

\* A new row for the end of the table.
Fits(row) ==
    /\ row \in ArtifactRow
    /\ row.parents \subseteq 1..Len(arts)
    /\ row.version <= Len(arts) + 1

LEMMA ArtifactOf ==
    ASSUME RegistryOK, NEW name \in ArtifactNames, NEW parents, NEW by \in Tasks \cup {"revision"},
           NEW content \in Nat, NEW row, row = Artifact(name, parents, by, content)
    PROVE  Fits(row)
<1> DEFINE c == Current(name)
           from == {Current(p) : p \in parents} \ {0}
           version == 1 + (IF c = 0 THEN 0 ELSE arts[c].version)
<1>1. from \subseteq 1..Len(arts)
  BY CurrentOf
<1>2. c = 0 \/ c \in 1..Len(arts)
  BY CurrentOf
<1>3. version \in 1..Len(arts) + 1
  <2> HIDE DEF c
  <2>1. CASE c = 0
    BY <2>1, RegistryFacts
  <2>2. CASE c # 0
    <3>1. arts[c].version \in Nat /\ arts[c].version <= c
      BY <1>2, <2>2, RegistryFacts DEF ArtifactRow
    <3> QED
      BY <1>2, <2>2, <3>1, RegistryFacts
  <2> QED
    BY <2>1, <2>2
<1>4. row = [name |-> name, by |-> by, content |-> content, stale |-> FALSE,
             version |-> version, parents |-> from]
  BY DEF Artifact
<1>5. version \in Nat /\ version <= Len(arts) + 1 /\ from \in SUBSET Nat
  BY <1>1, <1>3, RegistryFacts
<1> HIDE DEF version, from
<1>6. /\ row \in ArtifactRow
      /\ row.name = name /\ row.by = by /\ row.content = content /\ ~row.stale
      /\ row.parents = from /\ row.version = version
  BY <1>4, <1>5 DEF ArtifactRow
<1> QED
  BY <1>1, <1>5, <1>6 DEF from, Fits

LEMMA PublishKeeps ==
    ASSUME RegistryOK, NEW name \in ArtifactNames, NEW parents, NEW by \in Tasks \cup {"revision"},
           NEW content \in Nat, Publish(name, parents, by, content),
           plan' \in [replans : Nat, applied : BOOLEAN, version : Nat]
    PROVE  /\ RegistryOK'
           /\ Len(arts') = Len(arts) + 1
           /\ \A i \in DOMAIN arts : arts'[i] = arts[i]
           /\ arts'[Len(arts) + 1] = Artifact(name, parents, by, content)
<1>1. PICK row : row = Artifact(name, parents, by, content)
  OBVIOUS
<1>2. PICK N : N = Len(arts)
  OBVIOUS
<1>3. /\ row \in ArtifactRow /\ row.parents \subseteq 1..N /\ row.version <= N + 1
  <2>1. Fits(row)
    BY <1>1, ArtifactOf
  <2> QED
    BY <1>2, <2>1 DEF Fits
<1>4. arts' = Append(arts, row)
  BY <1>1 DEF Publish
<1>5. N \in Nat /\ DOMAIN arts = 1..N /\ arts \in Seq(ArtifactRow)
  BY <1>2, RegistryFacts DEF RegistryOK
<1> HIDE DEF ArtifactRow
<1>6. /\ arts' \in Seq(ArtifactRow) /\ Len(arts') = N + 1
      /\ \A i \in 1..N : arts'[i] = arts[i]
      /\ arts'[N + 1] = row
  BY <1>2, <1>3, <1>4, <1>5
<1>7. DOMAIN arts' = 1..N + 1
  BY <1>5, <1>6
<1>8. \A i \in DOMAIN arts' : arts'[i].parents \subseteq 1..i - 1 /\ arts'[i].version <= i
  <2> TAKE i \in DOMAIN arts'
  <2>1. CASE i \in 1..N
    BY <1>5, <1>6, <2>1, RegistryFacts
  <2>2. CASE i = N + 1
    <3>1. i - 1 = N /\ arts'[i] = row
      BY <1>5, <1>6, <2>2
    <3> QED
      BY <1>3, <2>2, <3>1
  <2> QED
    BY <1>5, <1>7, <2>1, <2>2
<1>9. RegistryOK'
  BY <1>6, <1>8 DEF RegistryOK
<1> QED
  BY <1>1, <1>2, <1>5, <1>6, <1>9

\* The two rows of normalize.
LEMMA PublishTwice ==
    ASSUME RegistryOK,
           arts' = arts \o <<Artifact("requirement", {}, "normalize", 0),
                             [Artifact(Contract, {}, "normalize", 0) EXCEPT !.parents = {Len(arts) + 1}]>>,
           plan' \in [replans : Nat, applied : BOOLEAN, version : Nat]
    PROVE  /\ RegistryOK'
           /\ Len(arts') = Len(arts) + 2
           /\ \A i \in DOMAIN arts : arts'[i] = arts[i]
           /\ LET first == arts'[Len(arts) + 1] IN
              first.name = "requirement" /\ first.by = "normalize" /\ first.parents = {} /\ ~first.stale
           /\ LET second == arts'[Len(arts) + 2] IN
              /\ second.name = Contract /\ second.by = "normalize" /\ ~second.stale
              /\ second.parents = {Len(arts) + 1}
<1>1. PICK first : first = Artifact("requirement", {}, "normalize", 0)
  OBVIOUS
<1>2. PICK made : made = Artifact(Contract, {}, "normalize", 0)
  OBVIOUS
<1>3. PICK N : N = Len(arts)
  OBVIOUS
<1>4. PICK second : second = [made EXCEPT !.parents = {N + 1}]
  OBVIOUS
<1>5. /\ "normalize" \in Tasks \cup {"revision"}
      /\ "requirement" \in ArtifactNames /\ Contract \in ArtifactNames
      /\ N \in Nat /\ DOMAIN arts = 1..N
      /\ arts \in Seq(ArtifactRow)
  BY <1>3, RegistryFacts DEF Tasks, Bootstrap, RegistryOK, ArtifactNames
<1>6. arts' = arts \o <<first, second>>
  BY <1>1, <1>2, <1>3, <1>4
<1> HIDE DEF ArtifactRow
<1>7. Fits(first) /\ Fits(made)
  BY <1>1, <1>2, <1>5, ArtifactOf
<1>8. /\ first.name = "requirement" /\ first.by = "normalize"
      /\ ~first.stale /\ first.parents = {}
  BY <1>1 DEF Artifact
<1>9. /\ made.name = Contract /\ made.by = "normalize" /\ ~made.stale
  BY <1>2 DEF Artifact
<1>16. /\ first \in ArtifactRow /\ first.version <= N + 1
       /\ made \in ArtifactRow /\ made.version <= N + 1
  BY <1>3, <1>7 DEF Fits
<1>10. made.version \in Nat
  BY <1>16 DEF ArtifactRow
<1>11. /\ second \in ArtifactRow /\ second.name = Contract /\ second.by = "normalize"
       /\ ~second.stale /\ second.parents = {N + 1} /\ second.version = made.version
  <2>1. {N + 1} \in SUBSET Nat
    BY <1>5
  <2> QED
    BY <1>4, <1>9, <1>16, <2>1 DEF ArtifactRow
<1>12. /\ arts' \in Seq(ArtifactRow) /\ Len(arts') = N + 2
       /\ \A i \in 1..N : arts'[i] = arts[i]
       /\ arts'[N + 1] = first /\ arts'[N + 2] = second
  <2>1. PICK two : two = <<first, second>>
    OBVIOUS
  <2>2. two \in Seq(ArtifactRow) /\ Len(two) = 2 /\ two[1] = first /\ two[2] = second
    BY <1>11, <1>16, <2>1
  <2>3. arts' = arts \o two
    BY <1>6, <2>1
  <2>4. /\ arts \o two \in Seq(ArtifactRow)
        /\ Len(arts \o two) = Len(arts) + Len(two)
        /\ \A i \in 1..Len(arts) + Len(two) :
              (arts \o two)[i] = IF i <= Len(arts) THEN arts[i] ELSE two[i - Len(arts)]
    BY <1>5, <2>2, ConcatProperties, Zenon
  <2>6. /\ arts' \in Seq(ArtifactRow) /\ Len(arts') = N + 2
        /\ \A i \in 1..N + 2 : arts'[i] = IF i <= N THEN arts[i] ELSE two[i - N]
    BY <1>3, <2>2, <2>3, <2>4, Zenon
  <2>5. /\ N + 1 \in 1..N + 2 /\ N + 2 \in 1..N + 2 /\ N + 1 - N = 1 /\ N + 2 - N = 2
        /\ ~(N + 1 <= N) /\ ~(N + 2 <= N) /\ \A i \in 1..N : i \in 1..N + 2 /\ i <= N
    BY <1>5
  <2> QED
    <3>1. \A i \in 1..N : arts'[i] = arts[i]
      BY <2>5, <2>6
    <3>2. ASSUME NEW k \in 1..2, NEW p, p = N + k
          PROVE  arts'[p] = two[k]
      <4>1. p \in 1..N + 2 /\ ~(p <= N) /\ p - N = k
        BY <1>5, <3>2
      <4> QED
        BY <2>6, <4>1
    <3>3. arts'[N + 1] = two[1] /\ arts'[N + 2] = two[2]
      <4>1. 1 \in 1..2 /\ 2 \in 1..2
        OBVIOUS
      <4> QED
        BY <3>2, <4>1, Zenon
    <3> QED
      BY <2>2, <2>6, <3>1, <3>3, Zenon
<1>13. DOMAIN arts' = 1..N + 2
  BY <1>5, <1>12
<1>14. \A i \in DOMAIN arts' : arts'[i].parents \subseteq 1..i - 1 /\ arts'[i].version <= i
  <2> TAKE i \in DOMAIN arts'
  <2>1. CASE i \in 1..N
    BY <1>5, <1>12, <2>1, RegistryFacts
  <2>2. CASE i = N + 1
    BY <1>5, <1>8, <1>12, <1>16, <2>2
  <2>3. CASE i = N + 2
    <3>1. arts'[i] = second
      BY <1>12, <2>3
    <3>2. N + 1 \in 1..i - 1 /\ N + 1 <= i
      BY <1>5, <2>3
    <3>3. second.parents \subseteq 1..i - 1
      BY <1>11, <3>2
    <3>4. second.version <= i
      BY <1>5, <1>10, <1>11, <1>16, <2>3
    <3> QED
      BY <3>1, <3>3, <3>4
  <2>4. i \in 1..N \/ i = N + 1 \/ i = N + 2
    BY <1>5, <1>13
  <2> QED
    BY <2>1, <2>2, <2>3, <2>4
<1>15. RegistryOK'
  BY <1>12, <1>14 DEF RegistryOK
<1> QED
  BY <1>3, <1>5, <1>8, <1>11, <1>12, <1>15

\* How the table of artifacts changes: rows come at its end, and become stale.
Extended ==
    /\ Len(arts) <= Len(arts')
    /\ \A i \in DOMAIN arts :
          /\ i \in DOMAIN arts'
          /\ arts'[i].name = arts[i].name /\ arts'[i].by = arts[i].by
          /\ arts'[i].parents = arts[i].parents /\ arts'[i].version = arts[i].version
          /\ arts'[i].stale = arts[i].stale \/ (arts'[i].stale /\ Invalidate(i))

MadeBy(t, i) ==
    /\ PublishOutput(t)
    /\ arts'[i].by = t
    /\ IF t = "normalize"
       THEN \/ arts'[i].name = "requirement" /\ arts'[i].parents = {}
            \/ arts'[i].name = Contract /\ arts'[i].parents = {Len(arts) + 1}
       ELSE /\ Produces[t] # "" /\ arts'[i].name = Produces[t]
            /\ arts'[i].parents = {Current(p) : p \in Reads[t]} \ {0}

MadeByRevision(i) ==
    /\ arts'[i].by = "revision"
    /\ \/ PublishContract /\ arts'[i].name = Contract
       \/ /\ PublishPlan /\ arts'[i].name = "plan"
          /\ arts'[i].parents = {Current(p) : p \in {"requirement", "impact_report"}} \ {0}

LEMMA OutputRows ==
    ASSUME RType, RegistryOK, NEW t \in Tasks, PublishOutput(t)
    PROVE  /\ RegistryOK' /\ Extended
           /\ \A i \in DOMAIN arts' \ DOMAIN arts : MadeBy(t, i) /\ ~arts'[i].stale
<1>1. plan' \in [replans : Nat, applied : BOOLEAN, version : Nat]
  <2>1. plan \in [replans : Nat, applied : BOOLEAN, version : Nat]
    BY DEF RegistryOK
  <2>2. plan' = plan \/ plan' = [plan EXCEPT !.version = @ + 1]
    BY DEF PublishOutput
  <2> QED
    BY <2>1, <2>2
<1>2. PICK N : N = Len(arts)
  OBVIOUS
<1>3. N \in Nat /\ DOMAIN arts = 1..N
  BY <1>2, RegistryFacts
<1>4. CASE t = "normalize"
  <2>1. /\ RegistryOK'
        /\ Len(arts') = N + 2 /\ \A i \in DOMAIN arts : arts'[i] = arts[i]
        /\ /\ arts'[N + 1].name = "requirement" /\ arts'[N + 1].by = "normalize"
           /\ arts'[N + 1].parents = {} /\ ~arts'[N + 1].stale
        /\ /\ arts'[N + 2].name = Contract /\ arts'[N + 2].by = "normalize"
           /\ ~arts'[N + 2].stale /\ arts'[N + 2].parents = {N + 1}
    BY <1>1, <1>2, <1>4, PublishTwice DEF PublishOutput
  <2>2. DOMAIN arts' = 1..N + 2
    BY <2>1 DEF RegistryOK
  <2>3. DOMAIN arts \subseteq DOMAIN arts' /\ Len(arts) <= Len(arts')
    BY <1>2, <1>3, <2>1, <2>2
  <2>4. Extended
    BY <2>1, <2>3 DEF Extended
  <2>5. \A i \in DOMAIN arts' \ DOMAIN arts : MadeBy(t, i) /\ ~arts'[i].stale
    <3> TAKE i \in DOMAIN arts' \ DOMAIN arts
    <3>1. i = N + 1 \/ i = N + 2
      BY <1>3, <2>2
    <3> QED
      BY <1>2, <1>4, <2>1, <3>1 DEF MadeBy
  <2> QED
    BY <2>1, <2>4, <2>5
<1>5. CASE t # "normalize" /\ Produces[t] = ""
  <2>1. arts' = arts
    BY <1>5 DEF PublishOutput
  <2> QED
    BY <1>1, <1>2, <1>3, <2>1 DEF RegistryOK, Extended
<1>6. CASE t # "normalize" /\ Produces[t] # ""
  <2> DEFINE content == IF t \in SameEachTime THEN 0 ELSE plan'.version
  <2>1. Publish(Produces[t], Reads[t], t, content)
    BY <1>6 DEF PublishOutput
  <2>2. content \in Nat /\ Produces[t] \in ArtifactNames
    BY <1>1 DEF ArtifactNames
  <2> HIDE DEF content
  <2>3. PICK row : row = Artifact(Produces[t], Reads[t], t, content)
    OBVIOUS
  <2>4. /\ RegistryOK' /\ Len(arts') = N + 1
        /\ \A i \in DOMAIN arts : arts'[i] = arts[i]
        /\ arts'[N + 1] = row
    BY <1>1, <1>2, <2>1, <2>2, <2>3, PublishKeeps
  <2>5. DOMAIN arts' = 1..N + 1
    BY <2>4 DEF RegistryOK
  <2>6. DOMAIN arts \subseteq DOMAIN arts' /\ Len(arts) <= Len(arts')
    BY <1>2, <1>3, <2>4, <2>5
  <2>7. Extended
    BY <2>4, <2>6 DEF Extended
  <2>8. /\ row.name = Produces[t] /\ row.by = t /\ ~row.stale
        /\ row.parents = {Current(p) : p \in Reads[t]} \ {0}
    BY <2>3 DEF Artifact
  <2>9. \A i \in DOMAIN arts' \ DOMAIN arts : MadeBy(t, i) /\ ~arts'[i].stale
    <3> TAKE i \in DOMAIN arts' \ DOMAIN arts
    <3>1. i = N + 1
      BY <1>3, <2>5
    <3> QED
      BY <1>6, <2>4, <2>8, <3>1 DEF MadeBy
  <2> QED
    BY <2>4, <2>7, <2>9
<1> QED
  BY <1>4, <1>5, <1>6

LEMMA RevisionRows ==
    ASSUME RType, RegistryOK, PublishContract \/ PublishPlan
    PROVE  /\ RegistryOK' /\ Extended /\ Len(arts') = Len(arts) + 1
           /\ \A i \in DOMAIN arts' \ DOMAIN arts : MadeByRevision(i) /\ ~arts'[i].stale
<1> DEFINE Named(name, from) ==
              /\ RegistryOK' /\ Extended /\ Len(arts') = Len(arts) + 1
              /\ \A i \in DOMAIN arts' \ DOMAIN arts :
                    /\ arts'[i].name = name /\ arts'[i].by = "revision" /\ ~arts'[i].stale
                    /\ arts'[i].parents = {Current(p) : p \in from} \ {0}
<1>1. plan' \in [replans : Nat, applied : BOOLEAN, version : Nat]
  BY DEF RegistryOK, PublishContract, PublishPlan
<1>2. PICK N : N = Len(arts)
  OBVIOUS
<1>3. N \in Nat /\ DOMAIN arts = 1..N
  BY <1>2, RegistryFacts
<1> DEFINE inputs == {"requirement", "impact_report"}
<1>4. /\ PublishContract =>
            \E parents : \E n \in Nat : Publish(Contract, parents, "revision", n)
      /\ PublishPlan =>
            \E n \in Nat : Publish("plan", inputs, "revision", n)
  BY DEF RegistryOK, PublishContract, PublishPlan
<1> HIDE DEF inputs
<1>5. ASSUME NEW name \in ArtifactNames, NEW parents, NEW content \in Nat,
             Publish(name, parents, "revision", content)
      PROVE  Named(name, parents)
  <2>1. PICK row : row = Artifact(name, parents, "revision", content)
    OBVIOUS
  <2>2. "revision" \in Tasks \cup {"revision"}
    OBVIOUS
  <2>3. /\ RegistryOK' /\ Len(arts') = N + 1
        /\ \A i \in DOMAIN arts : arts'[i] = arts[i]
        /\ arts'[N + 1] = row
    BY <1>1, <1>2, <1>5, <2>1, <2>2, PublishKeeps, Zenon
  <2>4. DOMAIN arts' = 1..N + 1
    BY <2>3 DEF RegistryOK
  <2>5. DOMAIN arts \subseteq DOMAIN arts' /\ Len(arts) <= Len(arts')
    BY <1>2, <1>3, <2>3, <2>4
  <2>6. Extended
    BY <2>3, <2>5 DEF Extended
  <2>7. /\ row.name = name /\ row.by = "revision" /\ ~row.stale
        /\ row.parents = {Current(p) : p \in parents} \ {0}
    BY <2>1 DEF Artifact
  <2>8. \A i \in DOMAIN arts' \ DOMAIN arts :
           /\ arts'[i].name = name /\ arts'[i].by = "revision" /\ ~arts'[i].stale
           /\ arts'[i].parents = {Current(p) : p \in parents} \ {0}
    <3> TAKE i \in DOMAIN arts' \ DOMAIN arts
    <3>1. i = N + 1
      BY <1>3, <2>4
    <3> QED
      BY <2>3, <2>7, <3>1
  <2> QED
    BY <1>2, <2>3, <2>6, <2>8
<1> HIDE DEF Named
<1>6. Contract \in ArtifactNames /\ "plan" \in ArtifactNames
  BY DEF ArtifactNames
<1>7. PublishContract => \E parents : Named(Contract, parents)
  BY <1>4, <1>5, <1>6
<1>8. PublishPlan => Named("plan", inputs)
  BY <1>4, <1>5, <1>6
<1> QED
  BY <1>7, <1>8 DEF Named, MadeByRevision, inputs

LEMMA InvalidRows ==
    ASSUME RType, RegistryOK, NEW i \in DOMAIN arts, Invalidate(i)
    PROVE  /\ RegistryOK' /\ Extended /\ DOMAIN arts' = DOMAIN arts
           /\ arts'[i].stale /\ \A j \in DOMAIN arts \ {i} : arts'[j] = arts[j]
<1>1. arts[i] \in ArtifactRow /\ arts' = [arts EXCEPT ![i].stale = TRUE] /\ plan' = plan
  BY RegistryFacts DEF Invalidate
<1>2. PICK row : row = [arts[i] EXCEPT !.stale = TRUE]
  OBVIOUS
<1>3. /\ row \in ArtifactRow /\ row.stale /\ row.name = arts[i].name /\ row.by = arts[i].by
      /\ row.parents = arts[i].parents /\ row.version = arts[i].version
  BY <1>1, <1>2 DEF ArtifactRow
<1>4. arts' = [arts EXCEPT ![i] = row]
  BY <1>1, <1>2
<1> HIDE DEF ArtifactRow
<1>5. /\ arts' \in Seq(ArtifactRow) /\ DOMAIN arts' = DOMAIN arts /\ Len(arts') = Len(arts)
      /\ arts'[i] = row /\ \A j \in DOMAIN arts \ {i} : arts'[j] = arts[j]
  BY <1>3, <1>4 DEF RegistryOK
<1>6. RegistryOK'
  BY <1>1, <1>3, <1>5, RegistryFacts DEF RegistryOK
<1>7. Extended
  BY <1>3, <1>5, RegistryFacts DEF Extended
<1> QED
  BY <1>3, <1>5, <1>6, <1>7

LEMMA ArtsMoves ==
    ASSUME RNext
    PROVE  \/ UNCHANGED <<arts, plan>>
           \/ SaveRevision
           \/ \E t \in Tasks : PublishOutput(t)
           \/ PublishContract \/ PublishPlan
           \/ \E i \in DOMAIN arts : Invalidate(i)
BY DEF RNext, Tick, OperatorRevises, EndPass, ConsumeCurrent, ConsumeStale, ClearTaskGate,
       ClearRevision, BeginTask, EndTask, Ask, CrashEngine, Revise, RevisionRefused,
       CloseApproval, FindAffected, SaveRevision, RequestRenewal, PauseRevised, GoOn,
       CutRevision, ResetTask, RedefineTask, Decide, rvars

LEMMA RegistryStep ==
    ASSUME RType, RegistryOK, RNext
    PROVE  /\ RegistryOK' /\ Extended
           /\ \A i \in DOMAIN arts' \ DOMAIN arts :
                 /\ ~arts'[i].stale
                 /\ MadeByRevision(i) \/ \E t \in Tasks : MadeBy(t, i)
<1>1. CASE \E t \in Tasks : PublishOutput(t)
  BY <1>1, OutputRows
<1>2. CASE PublishContract \/ PublishPlan
  BY <1>2, RevisionRows
<1>3. CASE \E i \in DOMAIN arts : Invalidate(i)
  BY <1>3, InvalidRows
<1>4. CASE UNCHANGED arts /\ plan' \in [replans : Nat, applied : BOOLEAN, version : Nat]
  <2>1. RegistryOK'
    BY <1>4 DEF RegistryOK
  <2>2. Extended
    BY <1>4, RegistryFacts DEF Extended
  <2> QED
    BY <1>4, <2>1, <2>2
<1>5. CASE SaveRevision
  BY <1>4, <1>5 DEF SaveRevision, RegistryOK
<1>6. CASE UNCHANGED <<arts, plan>>
  BY <1>4, <1>6 DEF RegistryOK
<1> QED
  BY <1>1, <1>2, <1>3, <1>5, <1>6, ArtsMoves

-------------------------------------------------------------------------------
(* The types are kept *)

LEMMA ApprovalsGrow ==
    ASSUME RType, RNext
    PROVE  ApprovalsOK' /\ DOMAIN approvals \subseteq DOMAIN approvals'
<1>1. CASE EngineStep
  <2>1. E!Next /\ ApprovalsOK'
    BY <1>1, EngineUnderstood
  <2>2. DOMAIN understood \subseteq DOMAIN understood'
    BY <2>1, SameAssumptions, E!ApprovalStep DEF RType
  <2> QED
    BY <2>1, <2>2, UnderstoodNext, UnderstoodType DEF RType, UnderstoodOK
<1>2. CASE OwnStep
  BY <1>2, OwnApprovals
<1> QED
  BY <1>1, <1>2, StepKinds

LEMMA InvalidMemory ==
    ASSUME RegistryOK, MemoryOK, NEW i \in DOMAIN arts, Invalidate(i)
    PROVE  /\ mem' \in [seen : SUBSET DOMAIN arts, names : SUBSET ArtifactNames,
                        affected : SUBSET Tasks, asked : Nat]
           /\ mem'.asked = mem.asked /\ mem'.affected = mem.affected
           /\ mem'.seen \subseteq mem.seen \cup {i}
           /\ mem'.names \subseteq mem.names \cup {arts[i].name}
           /\ arts[i].name = Contract => mem' = mem
           /\ arts[i].name # Contract => i \in mem'.seen
<1> DEFINE names == IF arts[i].stale THEN mem.names ELSE mem.names \cup {arts[i].name}
           seen == mem.seen \cup {i}
<1>1. /\ mem \in [seen : SUBSET DOMAIN arts, names : SUBSET ArtifactNames,
                  affected : SUBSET Tasks, asked : Nat]
      /\ arts[i].name \in ArtifactNames
  BY RegistryFacts DEF MemoryOK, ArtifactRow
<1>2. \/ arts[i].name = Contract /\ mem' = mem
      \/ arts[i].name # Contract /\ mem' = [mem EXCEPT !.seen = seen, !.names = names]
  BY DEF Invalidate
<1>3. /\ seen \in SUBSET DOMAIN arts /\ names \in SUBSET ArtifactNames
      /\ names \subseteq mem.names \cup {arts[i].name}
  BY <1>1
<1> HIDE DEF names
<1> QED
  BY <1>1, <1>2, <1>3

LEMMA DependentsAreTasks == \A roots : Dependents(roots) \in SUBSET Tasks
BY DEF Dependents

LEMMA MemoryStep ==
    ASSUME RType, RegistryOK, MemoryOK, RNext
    PROVE  MemoryOK'
<1> DEFINE Row == [seen : SUBSET DOMAIN arts, names : SUBSET ArtifactNames,
                   affected : SUBSET Tasks, asked : Nat]
<1>0. /\ DOMAIN arts \subseteq DOMAIN arts' /\ DOMAIN approvals \subseteq DOMAIN approvals'
      /\ mem \in Row
      /\ at = "pause" => mem.asked \in DOMAIN approvals
  BY RegistryStep, ApprovalsGrow DEF Extended, MemoryOK
<1>1. ASSUME mem' \in Row, at' = "pause" => mem'.asked \in DOMAIN approvals'
      PROVE  MemoryOK'
  BY <1>0, <1>1 DEF MemoryOK
<1>2. CASE \E i \in DOMAIN arts : Invalidate(i)
  <2>1. PICK i \in DOMAIN arts : Invalidate(i)
    BY <1>2
  <2>2. mem' \in Row /\ at' = "invalidate"
    BY <2>1, InvalidMemory DEF Invalidate
  <2> QED
    BY <1>1, <2>2
<1>3. CASE FindAffected
  <2>1. PICK S \in SUBSET Tasks : S = Dependents(Producers)
    BY DependentsAreTasks
  <2>2. mem' = [mem EXCEPT !.affected = S] /\ at' = "reset"
    BY <1>3, <2>1 DEF FindAffected, Move
  <2>3. mem' \in Row
    BY <1>0, <2>2
  <2> HIDE DEF Row
  <2> QED
    BY <1>1, <2>2, <2>3
<1>4. CASE RequestRenewal
  <2>1. approvals' = Append(approvals, [task |-> "plan.revised", status |-> "pending"])
    BY <1>4 DEF RequestRenewal
  <2>2. PICK n : n = Len(approvals) + 1
    OBVIOUS
  <2>3. n \in Nat /\ n \in DOMAIN approvals'
    BY <2>1, <2>2 DEF RType, ApprovalsOK
  <2>4. mem' = [mem EXCEPT !.asked = n]
    BY <1>4, <2>2 DEF RequestRenewal
  <2>5. mem' \in Row /\ mem'.asked = n
    BY <1>0, <2>3, <2>4
  <2> HIDE DEF Row
  <2> QED
    BY <1>1, <2>3, <2>5
<1>5. CASE Leave
  <2>1. Nothing \in Row
    BY DEF Nothing
  <2> QED
    BY <1>1, <1>5, <2>1 DEF Leave
<1> HIDE DEF Row
<1>6. CASE mem' = mem /\ at' # "pause"
  BY <1>0, <1>1, <1>6
<1>7. CASE mem' = mem /\ at' = at
  BY <1>0, <1>1, <1>7
<1>8. \/ mem' = mem /\ (at' # "pause" \/ at' = at)
      \/ Leave \/ RequestRenewal \/ FindAffected \/ \E i \in DOMAIN arts : Invalidate(i)
  BY DEF RNext, Tick, OperatorRevises, EndPass, ConsumeCurrent, ConsumeStale, ClearTaskGate,
         ClearRevision, BeginTask, EndTask, Ask, CrashEngine, Revise, RevisionRefused,
         CloseApproval, SaveRevision, PauseRevised, GoOn, PublishOutput,
         PublishContract, PublishPlan,
         CutRevision, ResetTask, RedefineTask, Decide, rvars, Move
<1> QED
  BY <1>2, <1>3, <1>4, <1>5, <1>6, <1>7, <1>8

LEMMA FrozenStep ==
    ASSUME RType, RNext
    PROVE  Frozen'
<1>1. CASE \E i \in DOMAIN approvals, decision \in {"approved", "rejected"} : Decide(i, decision)
  BY <1>1 DEF Decide, Resolve, rvars, Frozen, RType
<1>2. CASE EndPass
  BY <1>2 DEF EndPass, GatesDone, Goto, Frozen
<1>3. CASE at' = "none"
  BY <1>3 DEF Frozen
<1>4. CASE OperatorRevises
  BY <1>4 DEF OperatorRevises, vars, Frozen
<1>5. CASE Revise
  <2>1. at # "none"
    BY <1>5 DEF Revise, RevisionRefused, CloseApproval, PublishContract, FindAffected, PublishPlan,
         SaveRevision, RequestRenewal, PauseRevised, GoOn, CutRevision, Invalidate,
         ResetTask, RedefineTask, Move
  <2>2. pc' = pc \/ pc' = "idle"
    BY <1>5 DEF Revise, RevisionRefused, CloseApproval, PublishContract, FindAffected, PublishPlan,
         SaveRevision, RequestRenewal, PauseRevised, GoOn, CutRevision, Invalidate,
         ResetTask, RedefineTask, Stop, vars
  <2> QED
    BY <2>1, <2>2 DEF Frozen, RType
<1>6. CASE at = "none" /\ Tick /\ ~EndPass
  BY <1>3, <1>6 DEF Tick, ConsumeCurrent, ConsumeStale, ClearTaskGate,
         ClearRevision, BeginTask, EndTask, Ask, CrashEngine, PublishOutput, rvars
<1> QED
  BY <1>1, <1>2, <1>4, <1>5, <1>6 DEF RNext

LEMMA TypeStep ==
    ASSUME RType, MemoryOK, RNext
    PROVE  RType'
<1> HIDE DEF TaskRow
<1>1. CASE EngineStep
  <2>1. E!Next /\ ApprovalsOK'
    BY <1>1, EngineUnderstood
  <2>2. E!TypeInv' /\ E!WaveOK'
    BY <2>1, SameAssumptions, E!NextType, E!WaveStep DEF RType
  <2> QED
    BY <2>1, <2>2, FrozenStep DEF RType
<1>2. CASE OwnStep
  <2>1. /\ UNCHANGED <<main, wave, hand, died>>
        /\ RowsTouched \/ UNCHANGED task
        /\ \/ pc' = pc
           \/ pc' = "idle" /\ pc \in {"idle", "loop"}
           \/ pc' = "proceed" /\ ClearRevision
        /\ pc # "wave" \/ UNCHANGED vars
    BY <1>2, OwnMoves
  <2>2. /\ ApprovalsOK' /\ DOMAIN approvals \subseteq DOMAIN approvals'
        /\ run' \in [status : RunStatus, waves : Nat, repairs : 0..MaxRepairs, pending : Nat]
        /\ run'.repairs = run.repairs
        /\ run'.pending \in {0} \cup DOMAIN approvals
    BY <1>2, OwnApprovals, OwnRun DEF MemoryOK
  <2>3. UnderstoodOK'
    BY <2>2, UnderstoodNext
  <2>4. task' \in [Tasks -> TaskRow]
    BY <2>1, RTypeFacts, TouchedRow DEF RowsTouched
  <2>5. pc' \in PC
    BY <2>1, RTypeFacts DEF PC
  <2>6. E!TypeOK'
    BY <2>1, <2>2, <2>3, <2>4, <2>5, SameNames, RTypeFacts DEF RType, E!TypeInv, E!TypeOK, UnderstoodOK
  <2>7. E!PlaceOK' /\ E!WaveOK'
    <3>1. CASE UNCHANGED vars
      BY <3>1 DEF RType, E!TypeInv, E!PlaceOK, E!WaveOK, vars, E!IsFirst, E!FailedTasks, E!CanRepair
    <3>2. CASE pc # "wave" /\ pc' \in {"idle", "loop", "proceed"}
      BY <2>1, <3>2 DEF RType, E!PlaceOK, E!WaveOK
    <3>3. CASE pc # "wave" /\ pc' = pc /\ at # "none"
      BY <2>1, <3>3 DEF RType, E!PlaceOK, E!WaveOK, Frozen
    <3>4. CASE pc' = pc /\ at = "none" /\ ~UNCHANGED vars
      <4>1. pc' = "idle"
        BY <1>2, <3>4 DEF OwnStep, ConsumeStale, ClearRevision, OperatorRevises, PublishOutput,
                          Stop, Goto, Revise
      <4> QED
        BY <2>1, <3>2, <3>4, <4>1
    <3> QED
      BY <2>1, <3>1, <3>2, <3>3, <3>4
  <2> QED
    BY <2>2, <2>6, <2>7, FrozenStep DEF RType, E!TypeInv
<1> QED
  BY <1>1, <1>2, StepKinds

LEMMA InitTypes == RInit => RType /\ RegistryOK /\ MemoryOK
<1> SUFFICES ASSUME RInit
             PROVE  RType /\ RegistryOK /\ MemoryOK
  OBVIOUS
<1>1. ApprovalsOK
  BY DEF RInit, Init, ApprovalsOK
<1>2. E!Init
  <2>1. understood = <<>>
    BY DEF RInit, Init, understood
  <2> QED
    BY <2>1, SameNames DEF RInit, Init, E!Init
<1>3. E!TypeInv /\ E!WaveOK
  BY <1>2, SameAssumptions, E!InitSafe DEF E!SafeInv
<1>4. Frozen
  BY DEF RInit, Frozen
<1>5. RegistryOK
  BY DEF RInit, RegistryOK
<1>6. MemoryOK
  BY DEF RInit, MemoryOK, Nothing
<1> QED
  BY <1>1, <1>3, <1>4, <1>5, <1>6 DEF RType

TypesOK == RType /\ RegistryOK /\ MemoryOK

LEMMA TypesStep == TypesOK /\ [RNext]_<<vars, rvars>> => TypesOK'
<1> SUFFICES ASSUME TypesOK, [RNext]_<<vars, rvars>>
             PROVE  TypesOK'
  OBVIOUS
<1>1. CASE RNext
  BY <1>1, TypeStep, RegistryStep, MemoryStep DEF TypesOK
<1>2. CASE UNCHANGED <<vars, rvars>>
  <2>1. UNCHANGED understood
    BY <1>2 DEF vars, understood
  <2>2. ApprovalsOK' /\ Frozen'
    BY <1>2 DEF TypesOK, RType, ApprovalsOK, Frozen, vars, rvars
  <2>3. E!TypeInv' /\ E!WaveOK'
    BY <1>2, <2>1 DEF TypesOK, RType, E!TypeInv, E!TypeOK, E!PlaceOK, E!WaveOK, vars,
                      E!IsFirst, E!FailedTasks, E!CanRepair
  <2>4. RegistryOK' /\ MemoryOK'
    BY <1>2 DEF TypesOK, RegistryOK, MemoryOK, vars, rvars
  <2> QED
    BY <2>2, <2>3, <2>4 DEF TypesOK, RType
<1> QED
  BY <1>1, <1>2

-------------------------------------------------------------------------------
(* Which tasks a revision reaches: the artifacts made from the contract are   *)
(* those of the tasks downstream of it, and so are the tasks that wait        *)

\* The dependencies of a row stay those of its kind: of the adopted plan or of
\* the revised one, with the repairs that were added.
PlanShaped ==
    \A t \in Tasks :
        /\ task[t].status = "ABSENT" => task[t].deps = {}
        /\ task[t].status # "ABSENT" =>
              /\ t \in Bootstrap => task[t].deps = BootstrapDeps[t]
              /\ t \in PlanTasks =>
                    /\ PlanDeps[t] \cap RevisedDeps[t] \subseteq task[t].deps
                    /\ task[t].deps \subseteq PlanDeps[t] \cup RevisedDeps[t] \cup ReintegrateTasks
              /\ t \in ReintegrateTasks => task[t].deps \subseteq RepairTasks
              /\ t \in RepairTasks => task[t].deps = {}

\* Every artifact says which task made it, or that a revision did.
ArtifactsSigned ==
    \A i \in DOMAIN arts :
        IF arts[i].by = "revision" THEN arts[i].name = Contract \/ arts[i].name = "plan"
        ELSE IF arts[i].by = "normalize"
        THEN arts[i].name = "requirement" \/ arts[i].name = Contract
        ELSE arts[i].name = Produces[arts[i].by] /\ arts[i].name # ""

Rests(i) == arts[i].name = Contract \/ arts[i].by \in Downstream

DescentKnown ==
    \A i \in DOMAIN arts :
        arts[i].name # Contract /\ (\E p \in arts[i].parents : Rests(p)) => arts[i].by \in Downstream

StaleRests == \A i \in DOMAIN arts : arts[i].stale => Rests(i)

AffectedRest ==
    /\ \A i \in mem.seen : arts[i].name # Contract /\ arts[i].by \in Downstream
    /\ Contract \notin mem.names
    /\ mem.affected \subseteq Downstream

LEMMA DownstreamClosed ==
    /\ Downstream \subseteq PlanTasks
    /\ \A t \in PlanTasks :
          (\/ Contract \in Reads[t]
           \/ \E u \in Downstream : Produces[u] \in Reads[t] \/ u \in PlanDeps[t] \cup RevisedDeps[t])
          => t \in Downstream
<1> DEFINE Closed(S) == \A t \in PlanTasks :
            (\/ Contract \in Reads[t]
             \/ \E u \in S : Produces[u] \in Reads[t] \/ u \in PlanDeps[t] \cup RevisedDeps[t])
            => t \in S
<1>1. Downstream = {t \in PlanTasks : \A S \in SUBSET PlanTasks : Closed(S) => t \in S}
  BY DEF Downstream
<1>2. ASSUME NEW t \in PlanTasks, NEW S \in SUBSET PlanTasks, Closed(S),
             \/ Contract \in Reads[t]
             \/ \E u \in Downstream : Produces[u] \in Reads[t] \/ u \in PlanDeps[t] \cup RevisedDeps[t]
      PROVE  t \in S
  <2>1. Downstream \subseteq S
    <3> HIDE DEF Closed
    <3> QED
      BY <1>1, <1>2
  <2> QED
    BY <1>2, <2>1
<1> HIDE DEF Closed
<1> QED
  BY <1>1, <1>2

LEMMA TaskMoves ==
    ASSUME RType, RNext, NEW t \in Tasks
    PROVE  \/ EngineStep /\ E!Next /\ E!RowStep(t)
           \/ OwnStep /\ task'[t] = task[t]
           \/ ResetTask(t) \/ RedefineTask(t)
<1>1. CASE EngineStep
  <2>1. E!Next /\ t \in E!Tasks
    BY <1>1, EngineUnderstood, SameNames
  <2>2. E!RowStep(t)
    BY <2>1, SameAssumptions, E!RowSteps DEF RType
  <2> QED
    BY <1>1, <2>1, <2>2
<1>2. CASE OwnStep
  <2>1. CASE UNCHANGED task
    BY <1>2, <2>1
  <2>2. CASE RowsTouched
    <3>1. PICK u \in Tasks : ResetTask(u) \/ RedefineTask(u)
      BY <2>2 DEF RowsTouched
    <3>2. t # u => task'[t] = task[t]
      BY <3>1, TouchedRow
    <3> QED
      BY <1>2, <3>1, <3>2
  <2> QED
    BY <1>2, <2>1, <2>2, OwnMoves
<1> QED
  BY <1>1, <1>2, StepKinds

LEMMA KindsApart ==
    /\ Bootstrap \cap PlanTasks = {} /\ Repairable \subseteq PlanTasks
    /\ (RepairTasks \cup ReintegrateTasks) \cap (Bootstrap \cup PlanTasks) = {}
    /\ RepairTasks \cap ReintegrateTasks = {}
BY SameNames, SameAssumptions, E!Kinds

LEMMA ShapedStep ==
    ASSUME RType, PlanShaped, RNext
    PROVE  PlanShaped'
<1> DEFINE Shape(t, deps) ==
              /\ t \in Bootstrap => deps = BootstrapDeps[t]
              /\ t \in PlanTasks =>
                    /\ PlanDeps[t] \cap RevisedDeps[t] \subseteq deps
                    /\ deps \subseteq PlanDeps[t] \cup RevisedDeps[t] \cup ReintegrateTasks
              /\ t \in ReintegrateTasks => deps \subseteq RepairTasks
              /\ t \in RepairTasks => deps = {}
<1> SUFFICES ASSUME NEW t \in Tasks
             PROVE  /\ task'[t].status = "ABSENT" => task'[t].deps = {}
                    /\ task'[t].status # "ABSENT" => Shape(t, task'[t].deps)
  BY DEF PlanShaped
<1>0. /\ task[t].status = "ABSENT" => task[t].deps = {}
      /\ task[t].status # "ABSENT" => Shape(t, task[t].deps)
  BY DEF PlanShaped
<1>1. CASE task'[t].deps = task[t].deps /\ task[t].status # "ABSENT" /\ task'[t].status # "ABSENT"
  BY <1>0, <1>1
<1>2. CASE task'[t] = task[t]
  BY <1>0, <1>2
<1>3. CASE EngineStep /\ E!Next /\ E!Created(t)
  <2>0. task'[t].status # "ABSENT"
    BY <1>3 DEF E!Created
  <2>1. CASE t \in RepairTasks /\ task'[t].deps = {}
    BY <2>0, <2>1, KindsApart
  <2>2. CASE E!SaveBootstrapTask(t) /\ task'[t].deps = BootstrapDeps[t]
    <3>1. t \in Bootstrap
      BY <2>2, SameNames DEF E!SaveBootstrapTask, E!IsFirst, E!Missing
    <3> QED
      BY <2>0, <2>2, <3>1, KindsApart
  <2>3. CASE t \in ReintegrateTasks /\ task'[t].deps \subseteq RepairTasks
    BY <2>0, <2>3, KindsApart
  <2>4. CASE t \in PlanTasks /\ task'[t].deps = PlanDeps[t]
    BY <2>0, <2>4, KindsApart
  <2> HIDE DEF Shape
  <2> QED
    BY <1>3, <2>1, <2>2, <2>3, <2>4, SameNames DEF E!Created
<1>4. CASE E!Routed(t)
  <2>1. task'[t].status # "ABSENT" /\ task[t].status # "ABSENT"
    BY <1>4 DEF E!Routed
  <2>2. CASE task'[t].deps = task[t].deps
    BY <1>1, <2>1, <2>2
  <2>3. CASE E!CanRepair(t) /\ \E again \in ReintegrateTasks : task'[t].deps = task[t].deps \cup {again}
    <3>1. t \in PlanTasks
      BY <2>3, KindsApart DEF E!CanRepair
    <3> QED
      BY <1>0, <2>1, <2>3, <3>1, KindsApart
  <2> HIDE DEF Shape
  <2> QED
    BY <1>4, <2>2, <2>3, SameNames DEF E!Routed
<1>5. CASE ResetTask(t)
  BY <1>1, <1>5, TouchedRow
<1>6. CASE RedefineTask(t)
  <2>1. t \in PlanTasks /\ task'[t].deps = RevisedDeps[t] /\ task'[t].status # "ABSENT"
    BY <1>6, TouchedRow
  <2> QED
    BY <2>1, KindsApart
<1> HIDE DEF Shape
<1>7. E!RowStep(t) => \/ task'[t] = task[t]
                      \/ task'[t].deps = task[t].deps /\ task[t].status # "ABSENT" /\ task'[t].status # "ABSENT"
                      \/ E!Created(t) \/ E!Routed(t)
                      \/ E!Cleared(t)
  BY DEF E!RowStep, E!Kept, E!Requeued, E!Started, E!Ended, RType, E!WaveOK
<1>8. CASE E!Cleared(t)
  BY <1>0, <1>8 DEF E!Cleared
<1> QED
  BY <1>1, <1>2, <1>3, <1>4, <1>5, <1>6, <1>7, <1>8, TaskMoves

LEMMA SignedStep ==
    ASSUME RType, RegistryOK, ArtifactsSigned, RNext
    PROVE  ArtifactsSigned'
<1> DEFINE Signed(name, by) ==
              IF by = "revision" THEN name = Contract \/ name = "plan"
              ELSE IF by = "normalize" THEN name = "requirement" \/ name = Contract
              ELSE name = Produces[by] /\ name # ""
<1> SUFFICES ASSUME NEW i \in DOMAIN arts'
             PROVE  Signed(arts'[i].name, arts'[i].by)
  BY DEF ArtifactsSigned
<1>1. CASE i \in DOMAIN arts
  <2>1. arts'[i].name = arts[i].name /\ arts'[i].by = arts[i].by
    BY <1>1, RegistryStep DEF Extended
  <2> QED
    BY <1>1, <2>1 DEF ArtifactsSigned
<1>2. CASE MadeByRevision(i)
  BY <1>2 DEF MadeByRevision
<1>3. ASSUME NEW t \in Tasks, MadeBy(t, i)
      PROVE  Signed(arts'[i].name, arts'[i].by)
  <2>1. t # "revision"
    BY RevisionAssumption
  <2> QED
    BY <1>3, <2>1 DEF MadeBy
<1> QED
  BY <1>1, <1>2, <1>3, RegistryStep

\* What an artifact that rests on the contract is called.
LEMMA RestingName ==
    ASSUME RegistryOK, ArtifactsSigned, NEW p \in DOMAIN arts, Rests(p)
    PROVE  \/ arts[p].name = Contract
           \/ arts[p].by \in Downstream /\ arts[p].name = Produces[arts[p].by]
<1>1. ASSUME arts[p].by \in Downstream
      PROVE  arts[p].by # "revision" /\ arts[p].by # "normalize"
  <2>1. arts[p].by \in PlanTasks /\ arts[p].by \in Tasks /\ "normalize" \in Bootstrap
    BY <1>1, DownstreamClosed DEF Tasks, Bootstrap
  <2> QED
    BY <2>1, RevisionAssumption, KindsApart
<1> QED
  BY <1>1 DEF Rests, ArtifactsSigned

LEMMA DescentStep ==
    ASSUME RevisionApart, RType, RegistryOK, ArtifactsSigned, DescentKnown, RNext
    PROVE  DescentKnown'
<1> SUFFICES ASSUME NEW i \in DOMAIN arts', arts'[i].name # Contract,
                    NEW p \in arts'[i].parents, Rests(p)'
             PROVE  arts'[i].by \in Downstream
  BY DEF DescentKnown
<1>0. /\ RegistryOK' /\ Extended
      /\ i \notin DOMAIN arts => MadeByRevision(i) \/ \E t \in Tasks : MadeBy(t, i)
  BY RegistryStep
<1>1. p \in DOMAIN arts => Rests(p)
  BY <1>0 DEF Extended, Rests
<1>2. CASE i \in DOMAIN arts
  <2>1. /\ arts'[i].name = arts[i].name /\ arts'[i].by = arts[i].by
        /\ arts'[i].parents = arts[i].parents
    BY <1>0, <1>2 DEF Extended
  <2>2. p \in DOMAIN arts
    <3>1. p \in 1..i - 1
      BY <1>2, <2>1, RegistryFacts
    <3> QED
      BY <1>2, <3>1, RegistryFacts
  <2> QED
    BY <1>1, <1>2, <2>1, <2>2 DEF DescentKnown
<1>3. ASSUME NEW names, arts'[i].parents = {Current(n) : n \in names} \ {0}
      PROVE  \E n \in names : n = Contract \/ \E u \in Downstream : Produces[u] = n
  <2>1. PICK n \in names : p = Current(n) /\ p # 0
    BY <1>3
  <2>2. p \in DOMAIN arts /\ arts[p].name = n
    BY <2>1, CurrentOf, RegistryFacts DEF Versions
  <2> QED
    BY <1>1, <2>2, RestingName
<1>4. CASE MadeByRevision(i)
  <2>1. arts'[i].parents = {Current(n) : n \in {"requirement", "impact_report"}} \ {0}
    BY <1>4 DEF MadeByRevision
  <2> DEFINE inputs == {"requirement", "impact_report"}
  <2>2. arts'[i].parents = {Current(n) : n \in inputs} \ {0}
    BY <2>1
  <2> HIDE DEF inputs
  <2>3. PICK n \in inputs : n = Contract \/ \E u \in Downstream : Produces[u] = n
    BY <1>3, <2>2
  <2> QED
    BY <2>3, RevisionAssumption DEF RevisionApart, inputs
<1>5. ASSUME NEW t \in Tasks, MadeBy(t, i)
      PROVE  arts'[i].by \in Downstream
  <2>1. t # "normalize"
    <3> SUFFICES ASSUME t = "normalize" PROVE FALSE
      OBVIOUS
    <3> QED
      BY <1>5 DEF MadeBy
  <2>2. arts'[i].by = t /\ arts'[i].parents = {Current(n) : n \in Reads[t]} \ {0}
    BY <1>5, <2>1 DEF MadeBy
  <2>3. PICK n \in Reads[t] : n = Contract \/ \E u \in Downstream : Produces[u] = n
    BY <1>3, <2>2
  <2>4. t \in PlanTasks
    BY <2>3 DEF RevisionApart
  <2> QED
    BY <2>2, <2>3, <2>4, DownstreamClosed
<1> QED
  BY <1>0, <1>2, <1>4, <1>5

\* What is marked stale is an older version of the contract, or rests on one.
LEMMA InvalidRests ==
    ASSUME RegistryOK, DescentKnown, AffectedRest, NEW i \in DOMAIN arts, Invalidate(i)
    PROVE  Rests(i)
<1>1. CASE OldVersions # {}
  <2>1. OldVersions \in SUBSET Nat
    BY RegistryFacts DEF OldVersions, Versions
  <2>2. i \in OldVersions
    BY <1>1, <2>1, MinOf DEF Invalidate
  <2> QED
    BY <2>2 DEF OldVersions, Versions, Rests
<1>2. CASE OldVersions = {}
  <2>1. i \in Children(mem.seen)
    BY <1>2 DEF Invalidate
  <2>2. PICK p \in arts[i].parents : arts[p].name = Contract \/ p \in mem.seen
    BY <2>1 DEF Children
  <2>3. Rests(p)
    BY <2>2 DEF Rests, AffectedRest
  <2> QED
    BY <2>1, <2>2, <2>3 DEF DescentKnown, Children, Rests
<1> QED
  BY <1>1, <1>2

LEMMA StaleStep ==
    ASSUME RType, RegistryOK, DescentKnown, StaleRests, AffectedRest, RNext
    PROVE  StaleRests'
<1> SUFFICES ASSUME NEW i \in DOMAIN arts', arts'[i].stale
             PROVE  Rests(i)'
  BY DEF StaleRests
<1>1. i \in DOMAIN arts
  BY RegistryStep
<1>2. /\ arts'[i].name = arts[i].name /\ arts'[i].by = arts[i].by
      /\ arts[i].stale \/ Invalidate(i)
  BY <1>1, RegistryStep DEF Extended
<1>3. Rests(i)
  BY <1>1, <1>2, InvalidRests DEF StaleRests
<1> QED
  BY <1>2, <1>3 DEF Rests

LEMMA DependentsRest ==
    ASSUME RType, RegistryOK, PlanShaped, StaleRests, AffectedRest
    PROVE  Dependents(Producers) \subseteq Downstream
<1>1. Producers \subseteq Downstream
  <2> SUFFICES ASSUME NEW t \in Producers
               PROVE  t \in Downstream
    OBVIOUS
  <2>1. PICK i \in DOMAIN arts : arts[i].stale /\ arts[i].by = t /\ arts[i].name \in mem.names
    BY DEF Producers
  <2>2. arts[i].name # Contract /\ Rests(i)
    BY <2>1 DEF AffectedRest, StaleRests
  <2> QED
    BY <2>1, <2>2 DEF Rests
<1>2. ASSUME NEW t \in Tasks, NEW d \in task[t].deps, d \in Downstream
      PROVE  t \in Downstream
  <2>1. d \in PlanTasks
    BY <1>2, DownstreamClosed
  <2>2. d \notin Bootstrap \cup RepairTasks \cup ReintegrateTasks
    BY <2>1, KindsApart
  <2>3. task[t].status # "ABSENT"
    BY <1>2 DEF PlanShaped
  <2>4. t \notin Bootstrap
    <3>1. \A b \in Bootstrap : BootstrapDeps[b] \subseteq Bootstrap
      BY DEF Bootstrap, BootstrapDeps
    <3> QED
      BY <1>2, <2>2, <2>3, <3>1 DEF PlanShaped
  <2>5. t \in PlanTasks
    BY <1>2, <2>2, <2>3, <2>4 DEF PlanShaped, Tasks
  <2>6. d \in PlanDeps[t] \cup RevisedDeps[t]
    BY <1>2, <2>2, <2>3, <2>5 DEF PlanShaped
  <2> QED
    BY <1>2, <2>5, <2>6, DownstreamClosed
<1>3. Downstream \in SUBSET Tasks
  BY DownstreamClosed DEF Tasks
<1> QED
  BY <1>1, <1>2, <1>3 DEF Dependents

LEMMA AffectedStep ==
    ASSUME RType, RegistryOK, MemoryOK, PlanShaped, DescentKnown, StaleRests, AffectedRest, RNext
    PROVE  AffectedRest'
<1>0. /\ mem.seen \subseteq DOMAIN arts
      /\ mem \in [seen : SUBSET DOMAIN arts, names : SUBSET ArtifactNames,
                  affected : SUBSET Tasks, asked : Nat]
  BY DEF MemoryOK
<1>1. \A i \in DOMAIN arts : arts'[i].name = arts[i].name /\ arts'[i].by = arts[i].by
  BY RegistryStep DEF Extended
<1>2. ASSUME mem'.seen = mem.seen, mem'.names = mem.names, mem'.affected \subseteq Downstream
      PROVE  AffectedRest'
  BY <1>0, <1>1, <1>2 DEF AffectedRest
<1>3. CASE \E i \in DOMAIN arts : Invalidate(i)
  <2>1. PICK i \in DOMAIN arts : Invalidate(i)
    BY <1>3
  <2>2. Rests(i)
    BY <2>1, InvalidRests
  <2>3. CASE arts[i].name = Contract
    <3>1. mem' = mem
      BY <2>1, <2>3, InvalidMemory
    <3> QED
      BY <1>2, <3>1 DEF AffectedRest
  <2>4. CASE arts[i].name # Contract
    <3>1. /\ mem'.seen \subseteq mem.seen \cup {i} /\ mem'.affected = mem.affected
          /\ mem'.names \subseteq mem.names \cup {arts[i].name}
      BY <2>1, InvalidMemory
    <3> QED
      BY <1>0, <1>1, <2>2, <2>4, <3>1 DEF AffectedRest, Rests
  <2> QED
    BY <2>3, <2>4
<1>4. CASE FindAffected
  <2>1. PICK S \in SUBSET Tasks : S = Dependents(Producers)
    BY DependentsAreTasks
  <2>2. mem' = [mem EXCEPT !.affected = S] /\ S \subseteq Downstream
    BY <1>4, <2>1, DependentsRest DEF FindAffected
  <2>3. mem'.seen = mem.seen /\ mem'.names = mem.names /\ mem'.affected = S
    BY <1>0, <2>2
  <2> QED
    BY <1>2, <2>2, <2>3
<1>5. CASE RequestRenewal
  <2>1. PICK n : mem' = [mem EXCEPT !.asked = n]
    BY <1>5 DEF RequestRenewal
  <2>2. mem'.seen = mem.seen /\ mem'.names = mem.names /\ mem'.affected = mem.affected
    BY <1>0, <2>1
  <2> QED
    BY <1>2, <2>2 DEF AffectedRest
<1>6. CASE Leave
  BY <1>6 DEF Leave, Nothing, AffectedRest
<1>7. CASE mem' = mem
  BY <1>2, <1>7 DEF AffectedRest
<1>8. \/ mem' = mem \/ Leave \/ RequestRenewal \/ FindAffected
      \/ \E i \in DOMAIN arts : Invalidate(i)
  BY DEF RNext, Tick, OperatorRevises, EndPass, ConsumeCurrent, ConsumeStale, ClearTaskGate,
         ClearRevision, BeginTask, EndTask, Ask, CrashEngine, Revise, RevisionRefused,
         CloseApproval, SaveRevision, PauseRevised, GoOn, PublishOutput,
         PublishContract, PublishPlan,
         CutRevision, ResetTask, RedefineTask, Decide, rvars
<1> QED
  BY <1>3, <1>4, <1>5, <1>6, <1>7, <1>8

ReachOK ==
    /\ TypesOK /\ PlanShaped
    /\ ArtifactsSigned /\ DescentKnown /\ StaleRests /\ AffectedRest

LEMMA InitReach == RInit => ReachOK
<1> SUFFICES ASSUME RInit
             PROVE  ReachOK
  OBVIOUS
<1>1. PlanShaped
  BY DEF RInit, Init, PlanShaped, NoTask, NewTask
<1>2. ArtifactsSigned /\ DescentKnown /\ StaleRests /\ AffectedRest
  BY DEF RInit, Nothing, ArtifactsSigned, DescentKnown, StaleRests, AffectedRest
<1> QED
  BY <1>1, <1>2, InitTypes DEF ReachOK, TypesOK

LEMMA ReachStep ==
    ASSUME RevisionApart, ReachOK, [RNext]_<<vars, rvars>>
    PROVE  ReachOK'
<1> USE DEF ReachOK, TypesOK
<1>1. CASE RNext
  <2>1. TypesOK'
    BY <1>1, TypesStep
  <2>2. PlanShaped' /\ ArtifactsSigned' /\ DescentKnown' /\ StaleRests' /\ AffectedRest'
    BY <1>1, ShapedStep, SignedStep, DescentStep, StaleStep, AffectedStep
  <2> QED
    BY <2>1, <2>2
<1>2. CASE UNCHANGED <<vars, rvars>>
  <2>1. TypesOK'
    BY <1>2, TypesStep
  <2>2. PlanShaped' /\ ArtifactsSigned' /\ DescentKnown' /\ StaleRests' /\ AffectedRest'
    BY <1>2 DEF PlanShaped, ArtifactsSigned, DescentKnown, StaleRests, AffectedRest, Rests,
                vars, rvars
  <2> QED
    BY <2>1, <2>2
<1> QED
  BY <1>1, <1>2

LEMMA AlwaysReach ==
    ASSUME RevisionApart
    PROVE  RSpec => []ReachOK
<1>1. ReachOK /\ [RNext]_<<vars, rvars>> => ReachOK'
  BY ReachStep
<1> QED
  BY <1>1, InitReach, PTL DEF RSpec

LEMMA KeptStep ==
    ASSUME ReachOK, RNext, NEW t \in PlanTasks \ Downstream, task[t].status = "SUCCEEDED"
    PROVE  task'[t].status = "SUCCEEDED"
<1> USE DEF ReachOK, TypesOK
<1>0. t \in Tasks
  BY DEF Tasks
<1>1. CASE E!Next
  BY <1>0, <1>1, SameNames, SameAssumptions, E!SuccessStays DEF RType
<1>2. CASE ResetTask(t)
  BY <1>0, <1>2, TouchedRow DEF AffectedRest
<1>3. CASE RedefineTask(t)
  BY <1>0, <1>3, TouchedRow
<1>4. CASE task'[t] = task[t]
  BY <1>4
<1> QED
  BY <1>0, <1>1, <1>2, <1>3, <1>4, TaskMoves

\* Work that does not rest on the contract is never done twice, whatever plan,
\* script and revisions, wherever the process died ("everything else keeps its
\* status/evidence", replan.py), as long as the names of the artifacts keep the
\* two apart.
THEOREM UnaffectedStays ==
    ASSUME RevisionApart
    PROVE  RSpec => UnaffectedWorkKept
<1>1. ReachOK /\ [RNext]_<<vars, rvars>> =>
         [\A t \in PlanTasks \ Downstream :
             task[t].status = "SUCCEEDED" => task'[t].status = "SUCCEEDED"]_<<vars, rvars>>
  <2> SUFFICES ASSUME ReachOK, RNext, NEW t \in PlanTasks \ Downstream, task[t].status = "SUCCEEDED"
               PROVE  task'[t].status = "SUCCEEDED"
    OBVIOUS
  <2> QED
    BY KeptStep
<1> QED
  BY <1>1, AlwaysReach, PTL DEF RSpec, UnaffectedWorkKept

-------------------------------------------------------------------------------
(* The plan a revision made, and the approval that is asked for it *)

SubjectRow == [name : ArtifactNames, content : Nat]

SubjectsOK ==
    /\ subjects \in Seq(SUBSET SubjectRow)
    /\ Len(subjects) = Len(approvals)

NamesPlan(i) == [name |-> "plan", content |-> plan.version] \in subjects[i]

\* From the plan published to the run paused on it, the plan in the table is
\* the one the run counts, and the renewal is about that plan.
PlanNamed ==
    /\ at = "redefine" => Digest("plan") = {[name |-> "plan", content |-> plan.version + 1]}
    /\ at = "request" => Digest("plan") = {[name |-> "plan", content |-> plan.version]}
    /\ at = "pause" => Renews(mem.asked) /\ NamesPlan(mem.asked)

\* The planning of a run that was revised after it is never done again.
PlannedOnce ==
    (at \notin {"none", "close"} \/ plan.replans > 0) /\ "unplanned" \notin met
        => task["create_plan"].status = "SUCCEEDED"

\* A revised run whose plan nobody approved yet is at rest, has ended, or has
\* the approval of that plan still to ask for.
RenewalDue ==
    Renewable =>
        \/ PlanRenewed
        \/ at \in {"request", "pause"}
        \/ pc = "idle" /\ run.status \in Terminal
        \/ /\ pc = "idle" /\ run.status = "awaiting_approval" /\ run.pending # 0
           /\ Renews(run.pending) /\ NamesPlan(run.pending)

\* What is published last under a name is the current artifact of that name.
LEMMA PublishedIsCurrent ==
    ASSUME RegistryOK, NEW name \in ArtifactNames, NEW parents, NEW by \in Tasks \cup {"revision"},
           NEW content \in Nat, Publish(name, parents, by, content),
           plan' \in [replans : Nat, applied : BOOLEAN, version : Nat]
    PROVE  /\ Current(name)' = Len(arts) + 1
           /\ Digest(name)' = {[name |-> name, content |-> content]}
<1>1. PICK row : row = Artifact(name, parents, by, content)
  OBVIOUS
<1>2. PICK N : N = Len(arts)
  OBVIOUS
<1>3. /\ RegistryOK' /\ Len(arts') = N + 1 /\ \A i \in DOMAIN arts : arts'[i] = arts[i]
      /\ arts'[N + 1] = row
  BY <1>1, <1>2, PublishKeeps
<1>4. /\ N \in Nat /\ DOMAIN arts = 1..N
      /\ \A i \in 1..N : arts[i].version \in Nat
  BY <1>2, RegistryFacts DEF ArtifactRow
<1>5. DOMAIN arts' = 1..N + 1
  BY <1>3 DEF RegistryOK
<1>6. PICK c : c = Current(name)
  OBVIOUS
<1>7. /\ row.name = name /\ row.content = content /\ ~row.stale
      /\ row.version = 1 + (IF c = 0 THEN 0 ELSE arts[c].version)
  BY <1>1, <1>6 DEF Artifact
<1> DEFINE versions == {i \in DOMAIN arts' : arts'[i].name = name}
           fresh == {i \in versions : ~arts'[i].stale}
           pool == IF fresh = {} THEN versions ELSE fresh
           last == {i \in pool : \A j \in pool : arts'[j].version <= arts'[i].version}
<1>8. Current(name)' = IF pool = {} THEN 0 ELSE Min(last)
  BY DEF Current, Versions
<1>9. N + 1 \in fresh
  BY <1>3, <1>4, <1>5, <1>7
<1>10. \A j \in fresh : j # N + 1 => row.version > arts'[j].version
  <2> SUFFICES ASSUME NEW j \in fresh, j # N + 1
               PROVE  row.version > arts'[j].version
    OBVIOUS
  <2>1. j \in 1..N /\ arts'[j] = arts[j]
    BY <1>3, <1>4, <1>5
  <2>2. j \in Versions(name) /\ ~arts[j].stale
    BY <1>4, <2>1 DEF Versions
  <2>3. c \in 1..N /\ arts[j].version <= arts[c].version
    BY <1>2, <1>6, <2>2, CurrentOf
  <2>4. c # 0
    BY <1>4, <2>3
  <2> HIDE DEF fresh
  <2> QED
    BY <1>4, <1>7, <2>1, <2>3, <2>4
<1>11. pool = fresh
  BY <1>9
<1>12. \A j \in DOMAIN arts' : arts'[j] \in ArtifactRow
  <2> HIDE DEF ArtifactRow, fresh, pool, versions
  <2> QED
    BY <1>3 DEF RegistryOK
<1>13. row.version \in Nat /\ \A j \in fresh : arts'[j].version \in Nat
  <2>1. row \in ArtifactRow
    BY <1>3, <1>4, <1>5, <1>12
  <2> QED
    BY <1>12, <2>1 DEF ArtifactRow
<1> HIDE DEF fresh, pool
<1>14. last = {N + 1}
  <2>1. N + 1 \in last
    BY <1>3, <1>9, <1>10, <1>11, <1>13
  <2>2. \A j \in last : j = N + 1
    BY <1>3, <1>9, <1>10, <1>11, <1>13
  <2> QED
    BY <2>1, <2>2
<1>15. Min(last) = N + 1
  <2> HIDE DEF last
  <2>1. last \in SUBSET Nat /\ last # {}
    BY <1>4, <1>14
  <2>2. Min(last) \in last
    BY <2>1, MinOf
  <2> QED
    BY <1>14, <2>2
<1>16. Current(name)' = N + 1
  BY <1>8, <1>9, <1>11, <1>15
<1>17. N + 1 # 0
  BY <1>4
<1>18. Digest(name)' = {[name |-> name, content |-> content]}
  BY <1>3, <1>7, <1>16, <1>17 DEF Digest
<1> QED
  BY <1>2, <1>16, <1>18

LEMMA DigestType ==
    ASSUME RegistryOK, NEW names
    PROVE  Digests(names) \in SUBSET SubjectRow
<1>1. ASSUME NEW name
      PROVE  Digest(name) \in SUBSET SubjectRow
  <2>1. CASE Current(name) = 0
    BY <2>1 DEF Digest
  <2>2. CASE Current(name) # 0
    <3>1. Current(name) \in DOMAIN arts /\ arts[Current(name)].name = name
      BY <2>2, CurrentOf DEF Versions
    <3>2. name \in ArtifactNames /\ arts[Current(name)].content \in Nat
      BY <3>1, RegistryFacts DEF ArtifactRow
    <3> QED
      BY <2>2, <3>2 DEF Digest, SubjectRow
  <2> QED
    BY <2>1, <2>2
<1> QED
  BY <1>1 DEF Digests

LEMMA SubjectsMoves ==
    ASSUME RType, RNext
    PROVE  \/ UNCHANGED subjects /\ Len(approvals') = Len(approvals)
           \/ \E names : /\ subjects' = Append(subjects, Digests(names))
                         /\ Len(approvals') = Len(approvals) + 1
<1> USE DEF RType
<1>1. ASSUME NEW t \in Tasks, Ask(t)
      PROVE  /\ subjects' = Append(subjects, Digests(Subjects[t]))
             /\ Len(approvals') = Len(approvals) + 1
  <2>1. PICK row : approvals' = Append(approvals, row)
    BY <1>1 DEF Ask, RequestApproval
  <2> QED
    BY <1>1, <2>1 DEF Ask, ApprovalsOK
<1>2. CASE RequestRenewal
  <2>1. PICK row : approvals' = Append(approvals, row)
    BY <1>2 DEF RequestRenewal
  <2>2. /\ subjects' = Append(subjects, Digests({"plan", Contract}))
        /\ Len(approvals') = Len(approvals) + 1
    BY <1>2, <2>1 DEF RequestRenewal, ApprovalsOK
  <2> QED
    BY <2>2
<1>3. CASE UNCHANGED <<subjects, approvals>>
  BY <1>3
<1>4. ASSUME NEW i \in DOMAIN approvals, NEW status \in {"approved", "rejected", "stale"},
             UNCHANGED subjects, approvals' = [approvals EXCEPT ![i].status = status]
      PROVE  UNCHANGED subjects /\ Len(approvals') = Len(approvals)
  <2>1. ApprovalsOK' /\ DOMAIN approvals' = DOMAIN approvals
    BY <1>4, UnderstoodChange
  <2>2. DOMAIN approvals = 1..Len(approvals) /\ DOMAIN approvals' = 1..Len(approvals')
        /\ Len(approvals) \in Nat /\ Len(approvals') \in Nat
    BY <2>1 DEF ApprovalsOK
  <2> QED
    BY <1>4, <2>1, <2>2
<1>5. CASE ConsumeStale
  <2>1. run.pending \in DOMAIN approvals
    BY <1>5, RTypeFacts DEF ConsumeStale
  <2> QED
    BY <1>4, <1>5, <2>1 DEF ConsumeStale, rvars
<1>6. CASE CloseApproval
  <2>1. ClosesGate => run.pending \in DOMAIN approvals
    BY RTypeFacts DEF ClosesGate
  <2> QED
    BY <1>4, <1>6, <2>1 DEF CloseApproval
<1>7. ASSUME NEW i \in DOMAIN approvals, NEW decision \in {"approved", "rejected"}, Decide(i, decision)
      PROVE  UNCHANGED subjects /\ Len(approvals') = Len(approvals)
  BY <1>4, <1>7 DEF Decide, Resolve, rvars
<1>8. ASSUME NEW t \in Tasks, BeginTask(t) \/ PublishOutput(t) \/ EndTask(t)
                              \/ ResetTask(t) \/ RedefineTask(t)
      PROVE  UNCHANGED <<subjects, approvals>>
  BY <1>8 DEF BeginTask, EndTask, PublishOutput, ResetTask, RedefineTask, StartTask,
              TaskSucceeds, TaskFails, vars, rvars
<1>9. CASE EngineAlone /\ UNCHANGED rvars
  <2>1. UNCHANGED approvals
    BY <1>9 DEF EngineAlone, BeginTick, ConsumeRefused, Promote, SavePromoted,
                SaveReviewReady, Proceed, Loop, NextWave, WithinBudget, WavesExhausted,
                TimeExhausted, MaterializeRaises, Schedule, Blocked, Finalize, Scheduling,
                WaveDone, CountRepair, FailuresHandled, SavePause, SaveBootstrapTask,
                RecoverTask, HandleFailure, Retry, RetriesExhausted, TakeFallback, NoFallback,
                SaveRepair, SaveReintegrate, RepairCollides, Rewire, Rollback, NoRepair,
                GateAllowed, GateDenied
  <2> QED
    BY <1>9, <2>1 DEF rvars
<1>10. CASE EndPass \/ ConsumeCurrent \/ ClearTaskGate \/ ClearRevision \/ CrashEngine \/ OperatorRevises
  BY <1>10 DEF EndPass, GatesDone, ConsumeCurrent, ConsumeApproved, ClearTaskGate, ClearGate,
               ClearRevision, CrashEngine, Crash, durable, OperatorRevises, vars, rvars
<1>11. CASE RevisionRefused \/ PublishContract \/ FindAffected \/ PublishPlan \/ SaveRevision
               \/ PauseRevised \/ GoOn \/ CutRevision \/ \E i \in DOMAIN arts : Invalidate(i)
  BY <1>11 DEF RevisionRefused, PublishContract, FindAffected, PublishPlan, SaveRevision,
               PauseRevised, GoOn, CutRevision, Invalidate, vars
<1> QED
  BY <1>1, <1>2, <1>3, <1>5, <1>6, <1>7, <1>8, <1>9, <1>10, <1>11 DEF RNext, Tick, Revise

LEMMA SubjectsStep ==
    ASSUME RType, RegistryOK, SubjectsOK, RNext
    PROVE  /\ SubjectsOK'
           /\ \A i \in DOMAIN subjects : subjects'[i] = subjects[i]
<1> HIDE DEF SubjectRow
<1>1. CASE UNCHANGED subjects /\ Len(approvals') = Len(approvals)
  BY <1>1 DEF SubjectsOK
<1>2. ASSUME NEW names, subjects' = Append(subjects, Digests(names)),
             Len(approvals') = Len(approvals) + 1
      PROVE  SubjectsOK' /\ \A i \in DOMAIN subjects : subjects'[i] = subjects[i]
  <2>1. PICK S \in SUBSET SubjectRow : S = Digests(names)
    BY DigestType
  <2> QED
    BY <1>2, <2>1 DEF SubjectsOK
<1> QED
  BY <1>1, <1>2, SubjectsMoves

\* An approval stays, until consume() finds that its subjects have changed.
LEMMA ApprovedStays ==
    ASSUME RType, RNext, NEW i \in DOMAIN approvals
    PROVE  /\ i \in DOMAIN approvals' /\ approvals'[i].task = approvals[i].task
           /\ approvals[i].status = "approved" => approvals'[i].status = "approved" \/ ConsumeStale
<1> USE DEF RType
<1>1. CASE EngineStep
  <2>1. E!Next /\ ApprovalsOK'
    BY <1>1, EngineUnderstood
  <2>2. UnderstoodOK' /\ UnderstoodOK
    BY <2>1, UnderstoodNext, UnderstoodType DEF UnderstoodOK
  <2>3. CASE Len(approvals') = Len(approvals) /\ approvals' = approvals
    BY <2>3
  <2>4. ASSUME NEW row, approvals' = Append(approvals, row)
        PROVE  i \in DOMAIN approvals' /\ approvals'[i] = approvals[i]
    BY <2>4 DEF ApprovalsOK
  <2>5. ASSUME NEW j \in DOMAIN approvals, NEW decision \in {"approved", "rejected"}, Decide(j, decision)
        PROVE  /\ i \in DOMAIN approvals' /\ approvals'[i].task = approvals[i].task
               /\ approvals[i].status = "approved" => approvals'[i].status = "approved"
    <3>1. PICK status \in {"pending", "approved", "rejected", "stale"} : Resolve(j, status)
      BY <2>5 DEF Decide
    <3> QED
      BY <3>1, UnderstoodChange DEF Resolve
  <2>6. ASSUME NEW t \in Tasks, Ask(t)
        PROVE  i \in DOMAIN approvals' /\ approvals'[i] = approvals[i]
    BY <2>4, <2>6 DEF Ask, RequestApproval
  <2>7. CASE EngineAlone /\ UNCHANGED rvars
    <3>1. UNCHANGED approvals
      BY <2>7 DEF EngineAlone, BeginTick, ConsumeRefused, Promote, SavePromoted,
                  SaveReviewReady, Proceed, Loop, NextWave, WithinBudget, WavesExhausted,
                  TimeExhausted, MaterializeRaises, Schedule, Blocked, Finalize, Scheduling,
                  WaveDone, CountRepair, FailuresHandled, SavePause, SaveBootstrapTask,
                  RecoverTask, HandleFailure, Retry, RetriesExhausted, TakeFallback, NoFallback,
                  SaveRepair, SaveReintegrate, RepairCollides, Rewire, Rollback, NoRepair,
                  GateAllowed, GateDenied
    <3> QED
      BY <3>1
  <2>8. CASE EndPass \/ ConsumeCurrent \/ ClearTaskGate \/ CrashEngine
    BY <2>8 DEF EndPass, GatesDone, ConsumeCurrent, ConsumeApproved, ClearTaskGate, ClearGate,
                CrashEngine, Crash, durable
  <2>9. ASSUME NEW t \in Tasks, BeginTask(t) \/ EndTask(t)
        PROVE  UNCHANGED approvals
    BY <2>9 DEF BeginTask, EndTask, StartTask, TaskSucceeds, TaskFails
  <2> QED
    BY <1>1, <2>5, <2>6, <2>7, <2>8, <2>9 DEF EngineStep
<1>2. CASE OwnStep
  <2>1. /\ i \in DOMAIN approvals' /\ approvals'[i].task = approvals[i].task
        /\ approvals'[i].status = approvals[i].status \/ approvals'[i].status = "stale"
    BY <1>2, OwnApprovals
  <2>2. CASE CloseApproval
    <3>1. ClosesGate => run.pending \in DOMAIN approvals /\ approvals[run.pending].status = "pending"
      BY RTypeFacts DEF ClosesGate
    <3>2. CASE ClosesGate
      BY <2>1, <2>2, <3>1, <3>2, UnderstoodChange DEF CloseApproval
    <3>3. CASE ~ClosesGate
      BY <2>1, <2>2, <3>3 DEF CloseApproval
    <3> QED
      BY <3>2, <3>3
  <2>3. CASE RequestRenewal
    <3>1. PICK row : approvals' = Append(approvals, row)
      BY <2>3 DEF RequestRenewal
    <3> QED
      BY <2>1, <3>1 DEF ApprovalsOK
  <2>4. CASE ~ConsumeStale /\ ~CloseApproval /\ ~RequestRenewal
    <3>1. UNCHANGED approvals
      BY <1>2, <2>4 DEF OwnStep, ClearRevision, OperatorRevises, PublishOutput, vars, Revise,
                RevisionRefused, PublishContract, FindAffected, PublishPlan, SaveRevision,
                PauseRevised, GoOn, CutRevision, Invalidate, ResetTask, RedefineTask
    <3> QED
      BY <2>1, <3>1
  <2> QED
    BY <2>1, <2>2, <2>3, <2>4
<1> QED
  BY <1>1, <1>2, StepKinds

LEMMA PlacesKept ==
    ASSUME RType, MemoryOK, E!PlacesInv, RNext
    PROVE  E!PlacesInv'
<1>1. CASE EngineStep
  BY <1>1, EngineUnderstood, SameAssumptions, E!PlacesStep DEF RType
<1>2. CASE OwnStep
  <2>1. /\ hand' = hand
        /\ \/ pc' = pc
           \/ pc' = "idle" /\ pc \in {"idle", "loop"}
           \/ pc' = "proceed" /\ ClearRevision
    BY <1>2, OwnMoves
  <2>2. \/ UNCHANGED run
        \/ ConsumeStale /\ run'.status = "denied" /\ run'.pending = run.pending
        \/ RevisionRefused /\ run'.status = "safe_stopped" /\ run'.pending = run.pending
        \/ SaveRevision /\ run'.status = run.status /\ run'.pending = 0
        \/ PauseRevised /\ run'.status = "awaiting_approval" /\ run'.pending = mem.asked
        \/ GoOn /\ run'.status = "executing" /\ run'.pending = run.pending
    BY <1>2, OwnRun DEF MemoryOK
  <2>3. CASE UNCHANGED run
    <3>1. CASE ClearRevision
      BY <2>1, <2>3, <3>1 DEF E!PlacesInv, E!ConsumeWindow, E!Terminal, ClearRevision, Goto
    <3>2. CASE ~ClearRevision
      BY <2>1, <2>3, <3>2 DEF E!PlacesInv, E!ConsumeWindow, E!Terminal
    <3> QED
      BY <3>1, <3>2
  <2>4. CASE ConsumeStale \/ RevisionRefused \/ PauseRevised
    <3>1. pc' = "idle"
      BY <2>4 DEF ConsumeStale, RevisionRefused, PauseRevised, Stop
    <3> QED
      BY <3>1 DEF E!PlacesInv, E!ConsumeWindow, E!Terminal
  <2>5. CASE SaveRevision /\ run'.status = run.status /\ run'.pending = 0
    BY <2>1, <2>5 DEF E!PlacesInv, E!ConsumeWindow, E!Terminal, SaveRevision
  <2>6. CASE GoOn /\ run'.status = "executing"
    <3>1. pc' = pc /\ pc \in {"idle", "loop"}
      BY <2>6 DEF GoOn, RType, Frozen
    <3> QED
      BY <2>6, <3>1 DEF E!PlacesInv, E!ConsumeWindow, E!Terminal
  <2> QED
    BY <2>2, <2>3, <2>4, <2>5, <2>6
<1> QED
  BY <1>1, <1>2, StepKinds

\* What a run at rest may do.
LEMMA IdleMoves ==
    ASSUME EngineStep, pc = "idle"
    PROVE  \/ BeginTick /\ UNCHANGED rvars
           \/ ConsumeRefused /\ UNCHANGED rvars
           \/ ConsumeCurrent
           \/ UNCHANGED <<run, pc, plan>>
<1>1. ASSUME NEW t \in Tasks
      PROVE  /\ ~SaveBootstrapTask(t) /\ ~RecoverTask(t) /\ ~HandleFailure(t)
             /\ ~GateAllowed(t) /\ ~GateDenied(t)
             /\ ~BeginTask(t) /\ ~EndTask(t) /\ ~Ask(t)
  BY DEF SaveBootstrapTask, RecoverTask, HandleFailure, Retry, RetriesExhausted, TakeFallback,
         NoFallback, SaveRepair, SaveReintegrate, RepairCollides, Rewire, Rollback, NoRepair,
         Failed, Goto, GateAllowed, GateDenied, NextGate, BeginTask, StartTask, EndTask,
         TaskSucceeds, TaskFails, Ask, RequestApproval
<1>2. /\ ~Promote /\ ~SavePromoted /\ ~SaveReviewReady /\ ~Proceed
      /\ ~Loop /\ ~WaveDone /\ ~CountRepair /\ ~FailuresHandled /\ ~SavePause
      /\ ~EndPass /\ ~ClearTaskGate
  BY DEF Promote, SavePromoted, SaveReviewReady, Proceed, Loop, NextWave, WithinBudget,
         WavesExhausted, TimeExhausted, MaterializeRaises, Schedule, Blocked, Finalize, Scheduling,
         WaveDone, CountRepair, FailuresHandled, SavePause, EndPass, GatesDone, ClearTaskGate,
         ClearGate, Goto
<1>3. EngineAlone /\ UNCHANGED rvars => (BeginTick \/ ConsumeRefused) /\ UNCHANGED rvars
  BY <1>1, <1>2 DEF EngineAlone
<1>4. CrashEngine => UNCHANGED <<run, pc, plan>>
  BY DEF CrashEngine, Crash, durable
<1>5. \A i, d : Decide(i, d) => UNCHANGED <<run, pc, plan>>
  BY DEF Decide, Resolve, rvars
<1> QED
  BY <1>1, <1>2, <1>3, <1>4, <1>5 DEF EngineStep

LEMMA RunAtRest ==
    ASSUME RType, MemoryOK, RNext, pc = "idle", at \notin {"request", "pause"}
    PROVE  \/ UNCHANGED <<run, pc>>
           \/ pc' = "idle" /\ run'.status \in Terminal
           \/ SaveRevision
           \/ run.status \in {"created", "executing"}
           \/ ConsumeCurrent
<1>1. CASE EngineStep
  BY <1>1, IdleMoves DEF BeginTick, ConsumeRefused, Stop, Terminal, RType, UnderstoodOK, E!TypeInv,
                         E!TypeOK
<1>2. CASE OwnStep
  <2>1. pc' = "idle"
    <3>1. ~ClearRevision
      BY DEF ClearRevision, Goto
    <3> QED
      BY <1>2, <3>1, OwnMoves
  <2>2. ~PauseRevised /\ ~GoOn
    BY DEF PauseRevised, GoOn
  <2> QED
    BY <1>2, <2>1, <2>2, OwnRun DEF MemoryOK, Terminal
<1> QED
  BY <1>1, <1>2, StepKinds

\* The two ways in which the version of the plan is counted, and what a run
\* was revised in is remembered.
LEMMA PlanMoves ==
    ASSUME RegistryOK, RNext
    PROVE  /\ cuts \subseteq cuts' /\ met \subseteq met'
           /\ \/ UNCHANGED plan
              \/ SaveRevision
              \/ PublishOutput("create_plan") /\ plan'.replans = plan.replans
<1>1. cuts \subseteq cuts' /\ met \subseteq met'
  BY DEF RNext, Tick, OperatorRevises, EndPass, ConsumeCurrent, ConsumeStale, ClearTaskGate,
         ClearRevision, BeginTask, EndTask, Ask, CrashEngine, Revise, RevisionRefused,
         CloseApproval, FindAffected, SaveRevision, RequestRenewal, PauseRevised, GoOn,
         CutRevision, ResetTask, RedefineTask, Decide, rvars, PublishOutput, PublishContract,
         PublishPlan, Invalidate
<1>2. CASE \E t \in Tasks : PublishOutput(t)
  <2>1. PICK t \in Tasks : PublishOutput(t)
    BY <1>2
  <2>2. CASE t = "create_plan"
    <3>1. plan'.replans = plan.replans
      BY <2>1, <2>2 DEF PublishOutput, RegistryOK
    <3> QED
      BY <1>1, <2>1, <2>2, <3>1
  <2>3. CASE t # "create_plan"
    BY <1>1, <2>1, <2>3 DEF PublishOutput
  <2> QED
    BY <2>2, <2>3
<1>3. CASE PublishContract \/ PublishPlan \/ \E i \in DOMAIN arts : Invalidate(i)
  BY <1>1, <1>3 DEF PublishContract, PublishPlan, Invalidate
<1> QED
  BY <1>1, <1>2, <1>3, ArtsMoves

\* The steps of revise() come in their order.
LEMMA AtMoves ==
    ASSUME RNext
    PROVE  \/ at' = at \/ at' = "none"
           \/ at = "none" /\ at' = "close"
           \/ CloseApproval \/ PublishContract \/ FindAffected \/ PublishPlan
           \/ SaveRevision \/ RequestRenewal
BY DEF RNext, Tick, OperatorRevises, EndPass, ConsumeCurrent, ConsumeStale, ClearTaskGate,
       ClearRevision, BeginTask, EndTask, Ask, CrashEngine, Revise, RevisionRefused,
       PauseRevised, GoOn, Leave, Move, Invalidate, PublishOutput,
       CutRevision, ResetTask, RedefineTask, Decide, rvars

LEMMA HeldMoves ==
    ASSUME RNext, at \in {"redefine", "request", "pause"}, at' = at
    PROVE  UNCHANGED <<arts, subjects, plan, mem, cuts, met>>
BY DEF RNext, Tick, OperatorRevises, Revise, RevisionRefused, CloseApproval, PublishContract,
       FindAffected, PublishPlan, SaveRevision, RequestRenewal, PauseRevised, GoOn, Leave, Move,
       Invalidate, CutRevision, ResetTask, RedefineTask, Decide, rvars

LEMMA PlannedStep ==
    ASSUME ReachOK, PlannedOnce, RNext
    PROVE  PlannedOnce'
<1> USE DEF ReachOK, TypesOK
<1> SUFFICES ASSUME at' \notin {"none", "close"} \/ plan'.replans > 0, "unplanned" \notin met'
             PROVE  task'["create_plan"].status = "SUCCEEDED"
  BY DEF PlannedOnce
<1>1. "create_plan" \in Tasks /\ "create_plan" \notin PlanTasks
  BY KindsApart DEF Tasks, Bootstrap
<1>2. "unplanned" \notin met
  BY PlanMoves
<1>3. CASE CloseApproval
  BY <1>3 DEF CloseApproval, RunState
<1>4. CASE at \notin {"none", "close"} \/ plan.replans > 0
  <2>1. task["create_plan"].status = "SUCCEEDED"
    BY <1>2, <1>4 DEF PlannedOnce
  <2>2. CASE E!Next
    BY <1>1, <2>1, <2>2, SameNames, SameAssumptions, E!SuccessStays DEF RType
  <2>3. ~ResetTask("create_plan") /\ ~RedefineTask("create_plan")
    <3>1. Unreset \subseteq PlanTasks
      BY DownstreamClosed DEF Unreset, AffectedRest
    <3>2. Redefinable \subseteq PlanTasks
      BY RevisionAssumption DEF Redefinable
    <3> QED
      BY <1>1, <3>1, <3>2 DEF ResetTask, RedefineTask, IsFirst
  <2>4. PICK t \in Tasks : t = "create_plan"
    BY <1>1
  <2>5. \/ E!Next \/ task'[t] = task[t] \/ ResetTask(t) \/ RedefineTask(t)
    BY TaskMoves
  <2> QED
    BY <2>1, <2>2, <2>3, <2>4, <2>5
<1>5. CASE ~CloseApproval /\ at \in {"none", "close"} /\ ~(plan.replans > 0)
  <2>1. at' \in {"none", "close"}
    BY <1>5, AtMoves DEF PublishContract, FindAffected, PublishPlan, SaveRevision,
                         RequestRenewal, Move
  <2>2. ~SaveRevision
    BY <1>5 DEF SaveRevision, Move
  <2>3. plan'.replans = plan.replans
    BY <2>2, PlanMoves
  <2> QED
    BY <1>5, <2>1, <2>3
<1> QED
  BY <1>3, <1>4, <1>5

LEMMA NamedStep ==
    ASSUME RType, RegistryOK, MemoryOK, SubjectsOK, PlanNamed, RNext
    PROVE  PlanNamed'
<1>0. RegistryOK' /\ SubjectsOK'
  BY RegistryStep, SubjectsStep
<1>1. CASE at \in {"redefine", "request", "pause"} /\ at' = at
  <2>1. UNCHANGED <<arts, subjects, plan, mem>>
    BY <1>1, HeldMoves
  <2>2. at = "pause" => (Renews(mem.asked) => Renews(mem.asked)')
    BY <2>1, ApprovedStays DEF Renews, MemoryOK
  <2> QED
    BY <1>1, <2>1, <2>2 DEF PlanNamed, NamesPlan, Digest, Current, Versions
<1>2. CASE at' \notin {"redefine", "request", "pause"}
  BY <1>2 DEF PlanNamed
<1>3. CASE PublishPlan
  <2>1. at' = "redefine" /\ UNCHANGED plan
    BY <1>3 DEF PublishPlan, Move
  <2>2. PICK n \in Nat : n = plan.version + 1
    BY DEF RegistryOK
  <2>3. PICK name \in ArtifactNames : name = "plan"
    BY DEF ArtifactNames
  <2>4. PICK by \in Tasks \cup {"revision"} : by = "revision"
    OBVIOUS
  <2>5. \E parents : Publish(name, parents, by, n)
    BY <1>3, <2>2, <2>3, <2>4 DEF PublishPlan
  <2>6. plan' \in [replans : Nat, applied : BOOLEAN, version : Nat]
    BY <2>1 DEF RegistryOK
  <2>7. Digest(name)' = {[name |-> name, content |-> n]}
    BY <2>5, <2>6, PublishedIsCurrent
  <2>8. Digest("plan")' = {[name |-> "plan", content |-> plan'.version + 1]}
    BY <2>1, <2>2, <2>3, <2>7
  <2> QED
    BY <2>1, <2>8 DEF PlanNamed
<1>4. CASE SaveRevision
  <2>1. at = "redefine" /\ at' = "request" /\ UNCHANGED arts /\ plan'.version = plan.version + 1
    BY <1>4 DEF SaveRevision, Move
  <2>2. Digest("plan")' = Digest("plan")
    BY <2>1 DEF Digest, Current, Versions
  <2> QED
    BY <2>1, <2>2 DEF PlanNamed
<1>5. CASE RequestRenewal
  <2>1. at = "request" /\ at' = "pause" /\ UNCHANGED plan
    BY <1>5 DEF RequestRenewal, Move
  <2>2. PICK row : row.task = "plan.revised" /\ approvals' = Append(approvals, row)
    BY <1>5 DEF RequestRenewal
  <2>3. PICK named : named = Digests({"plan", Contract}) /\ subjects' = Append(subjects, named)
    BY <1>5 DEF RequestRenewal
  <2>4. PICK k : k = Len(approvals) + 1
    OBVIOUS
  <2>5. mem'.asked = k
    BY <1>5, <2>4 DEF RequestRenewal, MemoryOK
  <2>6. approvals'[k] = row /\ subjects'[k] = named
    BY <2>2, <2>3, <2>4 DEF RType, ApprovalsOK, SubjectsOK
  <2>7. [name |-> "plan", content |-> plan.version] \in named
    <3>1. [name |-> "plan", content |-> plan.version] \in Digest("plan")
      BY <2>1 DEF PlanNamed
    <3> QED
      BY <2>3, <3>1 DEF Digests
  <2> QED
    BY <2>1, <2>2, <2>5, <2>6, <2>7 DEF PlanNamed, Renews, NamesPlan
<1> QED
  BY <1>1, <1>2, <1>3, <1>4, <1>5, AtMoves DEF CloseApproval, PublishContract, FindAffected, Move

LEMMA DueStep ==
    ASSUME ReachOK, SubjectsOK, PlanNamed, PlannedOnce, RenewalDue, RNext
    PROVE  RenewalDue'
<1> USE DEF ReachOK, TypesOK
<1> SUFFICES ASSUME Renewable'
             PROVE  \/ PlanRenewed' \/ at' \in {"request", "pause"}
                    \/ pc' = "idle" /\ run'.status \in Terminal
                    \/ /\ pc' = "idle" /\ run'.status = "awaiting_approval" /\ run'.pending # 0
                       /\ Renews(run.pending)' /\ NamesPlan(run.pending)'
  BY DEF RenewalDue
<1>1. CASE SaveRevision
  BY <1>1 DEF SaveRevision, Move
<1>2. CASE ~SaveRevision
  <2>0. Renewable /\ "waived" \notin met' /\ cuts' \cap {"request", "pause"} = {}
    BY <1>2, PlanMoves DEF Renewable
  <2>1. plan' = plan
    <3>1. task["create_plan"].status = "SUCCEEDED"
      BY <2>0 DEF PlannedOnce, Renewable
    <3>2. ~PublishOutput("create_plan")
      BY <3>1 DEF PublishOutput
    <3> QED
      BY <1>2, <3>2, PlanMoves
  <2>2. /\ DOMAIN subjects = DOMAIN approvals
        /\ \A i \in DOMAIN approvals : subjects'[i] = subjects[i]
    BY SubjectsStep DEF SubjectsOK, RType, ApprovalsOK
  <2>3. ASSUME NEW i \in DOMAIN approvals
        PROVE  /\ i \in DOMAIN approvals'
               /\ Renews(i) => approvals'[i].task = "plan.revised"
               /\ NamesPlan(i) => [name |-> "plan", content |-> plan'.version] \in subjects'[i]
    BY <2>1, <2>2, ApprovedStays DEF Renews, NamesPlan
  <2>4. ConsumeStale => pc' = "idle" /\ run'.status \in Terminal
    BY OwnRun DEF ConsumeStale, Stop, OwnStep, MemoryOK, Terminal, RType, E!TypeInv, E!TypeOK
  <2>5. CASE PlanRenewed
    <3>1. PICK i \in DOMAIN approvals : /\ Renews(i) /\ approvals[i].status = "approved"
                                        /\ NamesPlan(i)
      BY <2>5 DEF PlanRenewed, NamesPlan
    <3>2. approvals'[i].status = "approved" \/ ConsumeStale
      BY <3>1, ApprovedStays
    <3> QED
      BY <2>3, <2>4, <3>1, <3>2 DEF PlanRenewed, Renews
  <2>6. CASE at \in {"request", "pause"}
    <3>1. CASE at' \in {"request", "pause"}
      BY <3>1
    <3>2. CASE PauseRevised
      <4>1. /\ pc' = "idle" /\ run'.status = "awaiting_approval"
            /\ run'.pending = mem.asked /\ UNCHANGED <<approvals, subjects>>
            /\ at = "pause" /\ mem.asked \in DOMAIN approvals
        BY <3>2, RTypeFacts DEF PauseRevised, MemoryOK
      <4>2. run'.pending # 0
        BY <4>1 DEF RType, ApprovalsOK
      <4>3. Renews(mem.asked) /\ NamesPlan(mem.asked)
        BY <4>1 DEF PlanNamed
      <4> QED
        BY <2>1, <4>1, <4>2, <4>3 DEF Renews, NamesPlan
    <3>3. CASE GoOn \/ CutRevision
      BY <2>0, <2>6, <3>3 DEF GoOn, CutRevision
    <3>4. at' \in {"request", "pause"} \/ PauseRevised \/ GoOn \/ CutRevision
      BY <2>6 DEF RNext, Tick, OperatorRevises, Revise, RevisionRefused, CloseApproval, PublishContract,
           FindAffected, PublishPlan, SaveRevision, RequestRenewal, Move,
           Invalidate, ResetTask, RedefineTask, Decide, rvars
    <3> QED
      BY <3>1, <3>2, <3>3, <3>4
  <2>7. CASE /\ at \notin {"request", "pause"} /\ pc = "idle"
             /\ run.status \in Terminal
    <3>1. ~ConsumeCurrent /\ run.status \notin {"created", "executing"}
      BY <2>7 DEF ConsumeCurrent, ConsumeApproved, Terminal
    <3> QED
      BY <1>2, <2>7, <3>1, RunAtRest
  <2>8. CASE /\ at \notin {"request", "pause"} /\ pc = "idle"
             /\ run.status = "awaiting_approval" /\ run.pending # 0
             /\ Renews(run.pending) /\ NamesPlan(run.pending)
    <3>0. run.pending \in DOMAIN approvals
      BY <2>8, RTypeFacts
    <3>1. CASE ConsumeCurrent
      <4>1. approvals[run.pending].status = "approved" /\ UNCHANGED approvals
        BY <3>1 DEF ConsumeCurrent, ConsumeApproved
      <4> QED
        BY <2>3, <2>8, <3>0, <4>1 DEF PlanRenewed, Renews
    <3>2. CASE UNCHANGED <<run, pc>>
      BY <2>3, <2>8, <3>0, <3>2 DEF Renews, NamesPlan
    <3> QED
      BY <1>2, <2>8, <3>1, <3>2, RunAtRest
  <2> QED
    BY <2>0, <2>5, <2>6, <2>7, <2>8 DEF RenewalDue
<1> QED
  BY <1>1, <1>2

\* Tasks are started in a wave, while nobody revises.
LEMMA StartsInWave ==
    ASSUME RType, RNext, NEW t \in Tasks, task'[t].status = "RUNNING", task[t].status # "RUNNING"
    PROVE  pc = "wave" /\ at = "none"
<1>1. pc = "wave"
  <2>1. CASE E!RowStep(t)
    BY <2>1 DEF E!RowStep, E!Kept, E!Created, E!Cleared, E!Requeued, E!Started, E!Ended, E!Routed
  <2>2. CASE ResetTask(t) \/ RedefineTask(t)
    BY <2>2, TouchedRow
  <2> QED
    BY <2>1, <2>2, TaskMoves
<1> QED
  BY <1>1 DEF RType, Frozen

RenewalOK ==
    /\ ReachOK /\ E!PlacesInv
    /\ SubjectsOK /\ PlanNamed /\ PlannedOnce /\ RenewalDue

LEMMA InitRenewal == RInit => RenewalOK
<1> SUFFICES ASSUME RInit
             PROVE  RenewalOK
  OBVIOUS
<1>1. E!PlacesInv
  BY DEF RInit, Init, E!PlacesInv, E!ConsumeWindow, E!Terminal
<1>2. SubjectsOK /\ PlanNamed /\ PlannedOnce /\ RenewalDue
  BY DEF RInit, Init, SubjectsOK, PlanNamed, PlannedOnce, RenewalDue, Renewable
<1> QED
  BY <1>1, <1>2, InitReach DEF RenewalOK

LEMMA RenewalStep ==
    ASSUME RevisionApart, RenewalOK, [RNext]_<<vars, rvars>>
    PROVE  RenewalOK'
<1> USE DEF RenewalOK
<1>1. CASE RNext
  <2>1. ReachOK'
    BY <1>1, ReachStep
  <2>2. E!PlacesInv' /\ SubjectsOK' /\ PlanNamed' /\ PlannedOnce' /\ RenewalDue'
    BY <1>1, PlacesKept, SubjectsStep, NamedStep, PlannedStep, DueStep DEF ReachOK, TypesOK
  <2> QED
    BY <2>1, <2>2
<1>2. CASE UNCHANGED <<vars, rvars>>
  <2>1. ReachOK'
    BY <1>2, ReachStep
  <2>2. E!PlacesInv'
    BY <1>2 DEF E!PlacesInv, vars
  <2>3. SubjectsOK' /\ PlanNamed'
    BY <1>2 DEF SubjectsOK, PlanNamed, NamesPlan, Renews, Digest, Current, Versions, vars, rvars
  <2>4. PlannedOnce' /\ RenewalDue'
    BY <1>2 DEF PlannedOnce, RenewalDue, Renewable, PlanRenewed, NamesPlan, Renews, vars, rvars
  <2> QED
    BY <2>1, <2>2, <2>3, <2>4
<1> QED
  BY <1>1, <1>2

LEMMA AlwaysRenewal ==
    ASSUME RevisionApart
    PROVE  RSpec => []RenewalOK
<1>1. RenewalOK /\ [RNext]_<<vars, rvars>> => RenewalOK'
  BY RenewalStep
<1> QED
  BY <1>1, InitRenewal, PTL DEF RSpec

\* After a revision no task is started before a human approved the plan it
\* made, whatever plan, script and revisions, however often the process dies
\* elsewhere than between the save of the revised run and its pause ("renewed
\* authority where the contract changed").
THEOREM AuthorityRenewed ==
    ASSUME RevisionApart
    PROVE  RSpec => RenewedAuthority
<1>1. RenewalOK /\ [RNext]_<<vars, rvars>> =>
         [Renewable => \A t \in Tasks :
             task'[t].status = "RUNNING" /\ task[t].status # "RUNNING"
                 => PlanRenewed]_<<vars, rvars>>
  <2> SUFFICES ASSUME RenewalOK, RNext, Renewable, NEW t \in Tasks,
                      task'[t].status = "RUNNING", task[t].status # "RUNNING"
               PROVE  PlanRenewed
    OBVIOUS
  <2>1. pc = "wave" /\ at = "none"
    BY StartsInWave DEF RenewalOK, ReachOK, TypesOK
  <2> QED
    BY <2>1 DEF RenewalOK, RenewalDue
<1> QED
  BY <1>1, AlwaysRenewal, PTL DEF RSpec, RenewedAuthority

-------------------------------------------------------------------------------
(* Gates: what a revision leaves of the order in which the engine passes them *)

\* What GatesUnlessReplaced makes an exception of.
Spoilt == met \cap {"gated", "unplanned"} # {} \/ "reset" \in cuts \/ DiedIn(GateWindow)

\* Planning that is done has put a plan in the table.
PlanPublished ==
    "create_plan" \in told \/ task["create_plan"].status = "SUCCEEDED" => Versions("plan") # {}

LEMMA SameDeaths == \A W : E!DiedIn(W) <=> DiedIn(W)
BY DEF E!DiedIn, DiedIn

LEMMA SpoiltStays ==
    ASSUME RType, RegistryOK, RNext
    PROVE  /\ Spoilt => Spoilt'
           /\ CrashEngine /\ pc \in GateWindow => Spoilt'
<1>1. cuts \subseteq cuts' /\ met \subseteq met'
  BY PlanMoves
<1>2. DiedIn(GateWindow) => DiedIn(GateWindow)'
  <2>1. CASE EngineStep
    <3>1. E!Next /\ E!TypeInv
      BY <2>1, EngineUnderstood DEF RType
    <3>2. E!DiedIn(GateWindow) => E!DiedIn(GateWindow)'
      BY <3>1, SameAssumptions, E!DeathsRecorded
    <3> QED
      BY <3>2 DEF E!DiedIn, DiedIn
  <2>2. CASE OwnStep
    BY <2>2, OwnMoves DEF DiedIn
  <2> QED
    BY <2>1, <2>2, StepKinds
<1>3. CrashEngine /\ pc \in GateWindow => DiedIn(GateWindow)'
  <2> SUFFICES ASSUME CrashEngine, pc \in GateWindow
               PROVE  DiedIn(GateWindow)'
    OBVIOUS
  <2>1. died' = Append(died, pc)
    BY DEF CrashEngine, Crash
  <2>2. died \in Seq(PC)
    BY SameNames DEF RType, E!TypeInv, E!TypeOK
  <2>3. Len(died) + 1 \in DOMAIN died' /\ died'[Len(died) + 1] = pc
    BY <2>1, <2>2
  <2> QED
    BY <2>3 DEF DiedIn
<1> QED
  BY <1>1, <1>2, <1>3 DEF Spoilt

\* Where the process is while it takes a step of its own.
LEMMA OwnPlaces ==
    ASSUME RType, OwnStep
    PROVE  \/ UNCHANGED vars
           \/ ClearRevision /\ UNCHANGED <<run, task, approvals>> /\ pc = "approved" /\ pc' = "proceed"
           \/ pc \in {"idle", "loop"} /\ pc' \in {"idle", "loop"}
<1>1. CASE at = "none"
  BY <1>1 DEF OwnStep, ConsumeStale, ClearRevision, OperatorRevises, PublishOutput, Goto, Stop
<1>2. CASE at # "none"
  <2>1. ~ClearRevision
    BY <1>2 DEF ClearRevision, Goto, RType, Frozen
  <2> QED
    BY <1>2, <2>1, OwnMoves DEF RType, Frozen
<1> QED
  BY <1>1, <1>2

\* A row stays a row.
LEMMA RowStays ==
    ASSUME RType, RNext, NEW t \in Tasks, task[t].status # "ABSENT"
    PROVE  task'[t].status # "ABSENT"
<1>1. CASE E!RowStep(t)
  BY <1>1 DEF E!RowStep, E!Kept, E!Created, E!Cleared, E!Requeued, E!Started, E!Ended, E!Routed
<1>2. CASE ResetTask(t) \/ RedefineTask(t)
  BY <1>2, TouchedRow
<1> QED
  BY <1>1, <1>2, TaskMoves

\* A step of their own touches rows of the plan only.
LEMMA OwnRows ==
    ASSUME ReachOK, OwnStep, NEW t \in Tasks \ PlanTasks
    PROVE  task'[t] = task[t]
<1>0. RType /\ AffectedRest
  BY DEF ReachOK, TypesOK
<1>1. CASE UNCHANGED task
  BY <1>1
<1>2. ASSUME NEW u \in Tasks, ResetTask(u) \/ RedefineTask(u)
      PROVE  task'[t] = task[t]
  <2>1. u \in PlanTasks
    BY <1>0, <1>2, TouchedRow, DownstreamClosed DEF AffectedRest
  <2> QED
    BY <1>0, <1>2, <2>1, TouchedRow
<1> QED
  BY <1>0, <1>1, <1>2, OwnMoves DEF RowsTouched

\* The places of the process, as the engine alone keeps them.
HoldsOK ==
    /\ E!PlacesInv /\ E!Resuming /\ E!Holding /\ E!RepairRows /\ E!RepairsSurvive

LEMMA HoldsStep ==
    ASSUME ReachOK, ReachOK', HoldsOK, RNext
    PROVE  HoldsOK'
<1> USE DEF ReachOK, TypesOK
<1>0. E!PlacesInv'
  BY PlacesKept DEF HoldsOK
<1>1. CASE EngineStep
  <2>1. E!Next /\ E!TypeInv /\ E!TypeInv' /\ E!WaveOK
    BY <1>1, EngineUnderstood DEF RType
  <2>2. E!Resuming' /\ E!Holding' /\ E!RepairRows' /\ E!RepairsSurvive'
    BY <2>1, SameAssumptions, E!ResumingStep, E!HoldingStep, E!RepairStep, E!RepairsStep DEF HoldsOK
  <2> QED
    BY <1>0, <2>2 DEF HoldsOK
<1>2. CASE OwnStep
  <2>1. CASE UNCHANGED vars
    <3>1. UNCHANGED <<understood, run, task, pc, hand, died>>
      BY <2>1 DEF vars, understood
    <3> QED
      BY <1>0, <3>1 DEF HoldsOK, E!Resuming, E!Holding, E!RepairRows, E!RepairsSurvive,
            E!RepairsCounted, E!DiedIn, E!IsFirst, E!FailedTasks, E!Present, E!NextRepair
  <2>2. CASE /\ pc \in {"idle", "loop", "approved"} /\ pc' \in {"idle", "loop", "proceed"}
    <3>1. E!Resuming' /\ E!Holding' /\ E!RepairRows'
      BY <2>2 DEF E!Resuming, E!Holding, E!RepairRows
    <3>2. run'.repairs = run.repairs
      BY <1>2, OwnRun DEF MemoryOK
    <3>3. /\ \A n \in 1..MaxRepairs : task'[Reintegrate[n]] = task[Reintegrate[n]]
          /\ \A t \in Repairable, n \in 1..MaxRepairs : task'[RepairOf[t][n]] = task[RepairOf[t][n]]
      <4>1. \A u \in RepairTasks \cup ReintegrateTasks : task'[u] = task[u]
        BY <1>2, KindsApart, OwnRows DEF Tasks
      <4> QED
        BY <4>1 DEF RepairTasks, ReintegrateTasks
    <3>4. E!RepairsCounted => E!RepairsCounted'
      BY <2>2, <3>2, <3>3 DEF E!RepairsCounted
    <3>5. UNCHANGED died
      BY <1>2, OwnMoves
    <3> QED
      BY <1>0, <3>1, <3>4, <3>5 DEF HoldsOK, E!RepairsSurvive, E!DiedIn
  <2> QED
    BY <1>2, <2>1, <2>2, OwnPlaces
<1> QED
  BY <1>1, <1>2, StepKinds

\* What the process may do while its workers run.
LEMMA WaveActs ==
    ASSUME RType, RNext, pc = "wave"
    PROVE  \/ WaveDone
           \/ \E t \in Tasks : BeginTask(t) \/ EndTask(t)
           \/ CrashEngine
           \/ UNCHANGED vars
           \/ UNCHANGED <<run, task, main, pc, wave, hand, died, told>>
<1>0. at = "none"
  BY DEF RType, Frozen
<1>1. CASE EngineAlone /\ UNCHANGED rvars
  <2>1. ASSUME NEW t \in Tasks
        PROVE  /\ ~SaveBootstrapTask(t) /\ ~RecoverTask(t) /\ ~HandleFailure(t)
               /\ ~GateAllowed(t) /\ ~GateDenied(t)
    BY DEF SaveBootstrapTask, RecoverTask, HandleFailure, Retry, RetriesExhausted, TakeFallback,
           NoFallback, SaveRepair, SaveReintegrate, RepairCollides, Rewire, Rollback, NoRepair,
           Failed, Goto, GateAllowed, GateDenied, NextGate
  <2>2. /\ ~BeginTick /\ ~ConsumeRefused /\ ~Promote /\ ~SavePromoted
        /\ ~SaveReviewReady /\ ~Proceed /\ ~Loop /\ ~CountRepair /\ ~FailuresHandled /\ ~SavePause
    BY DEF BeginTick, ConsumeRefused, Promote, SavePromoted, SaveReviewReady,
           Proceed, Loop, NextWave, WithinBudget, WavesExhausted, TimeExhausted,
           MaterializeRaises, Schedule, Blocked, Finalize, Scheduling,
           CountRepair, FailuresHandled, SavePause, Goto
  <2> QED
    BY <1>1, <2>1, <2>2 DEF EngineAlone
<1>2. ~EndPass /\ ~ConsumeCurrent /\ ~ClearTaskGate /\ \A t \in Tasks : ~Ask(t)
  BY DEF EndPass, GatesDone, Goto, ConsumeCurrent, ConsumeApproved, ClearTaskGate, ClearGate,
         Ask, RequestApproval, NextGate
<1>3. ASSUME NEW i \in DOMAIN approvals, NEW decision, Decide(i, decision)
      PROVE  UNCHANGED <<run, task, main, pc, wave, hand, died, told>>
  BY <1>3 DEF Decide, Resolve, rvars
<1>4. CASE OwnStep
  BY <1>4, OwnPlaces
<1> QED
  BY <1>0, <1>1, <1>2, <1>3, <1>4, StepKinds DEF EngineStep

\* A task has published when it succeeds.
LEMMA SuccessIsTold ==
    ASSUME RType, RNext, NEW t \in Tasks, task'[t].status = "SUCCEEDED", task[t].status # "SUCCEEDED"
    PROVE  t \in told /\ pc = "wave" /\ task[t].status = "RUNNING"
<1>1. E!RowStep(t) => pc = "wave" /\ task[t].status = "RUNNING"
  BY DEF E!RowStep, E!Kept, E!Created, E!Cleared, E!Requeued, E!Started, E!Ended, E!Routed
<1>2. pc = "wave" /\ task[t].status = "RUNNING"
  <2>1. ~ResetTask(t) /\ ~RedefineTask(t)
    BY TouchedRow
  <2> QED
    BY <1>1, <2>1, TaskMoves
<1>3. ASSUME NEW u \in Tasks, NEW row, Save(u, row), row.status = "RUNNING" \/ row.status = "FAILED"
      PROVE  FALSE
  BY <1>3, RTypeFacts DEF Save
<1>4. ~WaveDone /\ ~CrashEngine
  BY DEF WaveDone, CrashEngine, Crash, durable
<1>5. ASSUME NEW u \in Tasks, BeginTask(u)
      PROVE  FALSE
  <2> DEFINE old == task[u]
             row == [old EXCEPT !.status = "RUNNING", !.attempts = old.attempts + 1]
  <2>1. Save(u, row) /\ old \in TaskRow
    <3> HIDE DEF TaskRow
    <3> QED
      BY <1>5, RTypeFacts DEF BeginTask, StartTask
  <2>2. row.status = "RUNNING"
    <3> HIDE DEF old
    <3> QED
      BY <2>1 DEF TaskRow
  <2> HIDE DEF row
  <2> QED
    BY <1>3, <2>1, <2>2
<1>6. ASSUME NEW u \in Tasks, EndTask(u)
      PROVE  t \in told
  <2>1. CASE u \in told /\ TaskSucceeds(u)
    <3>1. PICK row : Save(u, row)
      BY <2>1 DEF TaskSucceeds
    <3>2. u = t
      BY <3>1, RTypeFacts DEF Save
    <3> QED
      BY <2>1, <3>2
  <2>2. ASSUME NEW class \in FailureClass, TaskFails(u, class)
        PROVE  FALSE
    <3> DEFINE old == task[u]
               row == [old EXCEPT !.status = "FAILED", !.class = class]
    <3>1. Save(u, row) /\ old \in TaskRow
      <4> HIDE DEF TaskRow
      <4> QED
        BY <2>2, RTypeFacts DEF TaskFails
    <3>2. row.status = "FAILED"
      <4> HIDE DEF old
      <4> QED
        BY <3>1 DEF TaskRow
    <3> HIDE DEF row
    <3> QED
      BY <1>3, <3>1, <3>2
  <2> QED
    BY <1>6, <2>1, <2>2 DEF EndTask
<1> QED
  BY <1>2, <1>4, <1>5, <1>6, WaveActs DEF vars

LEMMA ToldMoves ==
    ASSUME RNext
    PROVE  \A t \in told' : t \in told \/ PublishOutput(t)
BY DEF RNext, Tick, OperatorRevises, EndPass, ConsumeCurrent, ConsumeStale, ClearTaskGate,
       ClearRevision, BeginTask, EndTask, Ask, CrashEngine, Revise, RevisionRefused,
       CloseApproval, PublishContract, FindAffected, PublishPlan, SaveRevision, RequestRenewal,
       PauseRevised, GoOn, CutRevision, Invalidate, ResetTask, RedefineTask, Decide, rvars,
       PublishOutput

LEMMA VersionsGrow ==
    ASSUME RType, RegistryOK, RNext, NEW name, Versions(name) # {}
    PROVE  Versions(name)' # {}
<1>1. PICK i \in DOMAIN arts : arts[i].name = name
  BY DEF Versions
<1>2. i \in DOMAIN arts' /\ arts'[i].name = name
  BY <1>1, RegistryStep DEF Extended
<1> QED
  BY <1>2 DEF Versions

LEMMA PublishedStep ==
    ASSUME ReachOK, PlanPublished, RNext
    PROVE  PlanPublished'
<1> USE DEF ReachOK, TypesOK
<1> SUFFICES ASSUME "create_plan" \in told' \/ task'["create_plan"].status = "SUCCEEDED"
             PROVE  Versions("plan")' # {}
  BY DEF PlanPublished
<1>0. PICK t \in Tasks : t = "create_plan"
  BY DEF Tasks, Bootstrap
<1>1. CASE t \in told \/ task[t].status = "SUCCEEDED"
  BY <1>0, <1>1, VersionsGrow DEF PlanPublished
<1>2. CASE PublishOutput(t)
  <2>1. t # "normalize" /\ Produces[t] = "plan"
    BY <1>0, RevisionAssumption
  <2>2. PICK row : row.name = "plan" /\ arts' = Append(arts, row)
    BY <1>2, <2>1 DEF PublishOutput, Publish, Artifact
  <2>3. Len(arts) + 1 \in DOMAIN arts' /\ arts'[Len(arts) + 1] = row
    <3> HIDE DEF ArtifactRow
    <3> QED
      BY <2>2 DEF RegistryOK
  <2> QED
    BY <2>2, <2>3 DEF Versions
<1>3. t \in told' => t \in told \/ PublishOutput(t)
  BY ToldMoves
<1>4. task'[t].status = "SUCCEEDED" => t \in told \/ task[t].status = "SUCCEEDED"
  BY SuccessIsTold
<1> QED
  BY <1>0, <1>1, <1>2, <1>3, <1>4

-------------------------------------------------------------------------------
(* What holds of the rows unless the order was spoilt *)

\* What already breaks the order of the rows: a revision before the plan, or a
\* death among the resets.
Disordered == "unplanned" \in met \/ "reset" \in cuts

NoneRunning == pc # "wave" => \A t \in Tasks : task[t].status # "RUNNING"

AllOrNone == \A t, u \in PlanTasks : task[t].status # "ABSENT" => task[u].status # "ABSENT"

\* What a revision has found affected are rows, and what waits for one of them
\* is one of them; the plan it redefines is not the first.
AffectedOK ==
    /\ \A t \in mem.affected : task[t].status # "ABSENT"
    /\ at = "reset" => \A t \in Tasks : task[t].deps \cap mem.affected # {} => t \in mem.affected
    /\ at = "redefine" => OldPlan /\ \A t \in mem.affected : task[t].status = "PENDING"

\* Among the resets DependenciesFirst holds of what is not affected.
DependenciesHold ==
    IF at = "reset"
    THEN \A t \in Tasks \ mem.affected :
            task[t].status \in {"RUNNING", "SUCCEEDED"} =>
                \A d \in task[t].deps : task[d].status = "SUCCEEDED"
    ELSE E!DependenciesFirst

LEMMA RunningStep ==
    ASSUME RType, RegistryOK, NoneRunning, RNext, ~Spoilt'
    PROVE  NoneRunning'
<1> SUFFICES ASSUME pc' # "wave", NEW t \in Tasks, task'[t].status = "RUNNING"
             PROVE  FALSE
  BY DEF NoneRunning
<1>1. CASE pc # "wave"
  BY <1>1, StartsInWave DEF NoneRunning
<1>2. CASE pc = "wave"
  <2>1. ~CrashEngine
    BY <1>2, SpoiltStays DEF GateWindow
  <2>2. \A u \in Tasks : ~BeginTask(u) /\ ~EndTask(u)
    BY <1>2 DEF BeginTask, StartTask, EndTask, TaskSucceeds, TaskFails
  <2>3. WaveDone
    BY <1>2, <2>1, <2>2, WaveActs DEF vars
  <2> QED
    BY <2>3, RTypeFacts DEF WaveDone, RunningTasks
<1> QED
  BY <1>1, <1>2

\* What a redefinition touches was affected, and was reset.
LEMMA RedefinedWasReset ==
    ASSUME AffectedOK, NEW t \in Tasks, RedefineTask(t)
    PROVE  t \in mem.affected /\ task[t].status = "PENDING" /\ t \in PlanTasks
BY DEF RedefineTask, IsFirst, Redefinable, AffectedOK

LEMMA AllStep ==
    ASSUME RType, AllOrNone, AffectedOK, RNext
    PROVE  AllOrNone'
<1> SUFFICES ASSUME NEW t \in PlanTasks, NEW u \in PlanTasks, task'[t].status # "ABSENT"
             PROVE  task'[u].status # "ABSENT"
  BY DEF AllOrNone
<1>0. t \in Tasks /\ u \in Tasks
  BY DEF Tasks
<1>1. CASE task[t].status # "ABSENT"
  BY <1>0, <1>1, RowStays DEF AllOrNone
<1>2. CASE task[t].status = "ABSENT"
  <2>1. ~ResetTask(t) /\ ~RedefineTask(t)
    BY <1>0, <1>2, TouchedRow, RedefinedWasReset
  <2>2. E!Created(t)
    <3>1. E!RowStep(t)
      BY <1>0, <1>2, <2>1, TaskMoves
    <3> QED
      BY <1>2, <3>1 DEF E!RowStep, E!Kept, E!Created, E!Cleared, E!Requeued, E!Started,
                        E!Ended, E!Routed, RType, E!WaveOK
  <2>3. task' = Materialized /\ PlanAdopted
    <3>1. t \notin RepairTasks /\ t \notin ReintegrateTasks /\ t \notin Bootstrap
      BY KindsApart
    <3>2. ~E!SaveBootstrapTask(t)
      BY <3>1, SameNames DEF E!SaveBootstrapTask, E!IsFirst, E!Missing
    <3> QED
      BY <2>2, <3>1, <3>2, SameNames, SameRows DEF E!Created
  <2> QED
    BY <1>0, <2>3 DEF Materialized, NewTask
<1> QED
  BY <1>1, <1>2

LEMMA PlanRowsStep ==
    ASSUME ReachOK, AffectedOK, E!RowsOfAnAdoptedPlan, RNext
    PROVE  E!RowsOfAnAdoptedPlan'
<1> USE DEF ReachOK, TypesOK
<1>1. CASE EngineStep
  <2>1. E!Next /\ E!TypeInv /\ E!WaveOK
    BY <1>1, EngineUnderstood DEF RType
  <2> QED
    BY <2>1, SameAssumptions, E!RowsStep
<1>2. CASE OwnStep
  <2>1. ASSUME NEW t \in PlanTasks, task'[t].status # "ABSENT"
        PROVE  task[t].status # "ABSENT"
    <3>1. t \in Tasks
      BY DEF Tasks
    <3>2. CASE UNCHANGED task
      BY <2>1, <3>2
    <3>3. ASSUME NEW u \in Tasks, ResetTask(u) \/ RedefineTask(u)
          PROVE  task[t].status # "ABSENT"
      <4>1. CASE t = u
        BY <3>3, <4>1, TouchedRow, RedefinedWasReset
      <4>2. CASE t # u
        BY <2>1, <3>1, <3>3, <4>2, TouchedRow
      <4> QED
        BY <4>1, <4>2
    <3> QED
      BY <1>2, <3>2, <3>3, OwnMoves DEF RowsTouched
  <2>2. PICK p \in Tasks \ PlanTasks : p = "create_plan"
    BY KindsApart DEF Tasks, Bootstrap
  <2>3. task'[p] = task[p]
    BY <1>2, <2>2, OwnRows
  <2>4. E!PlanAdopted => E!PlanAdopted'
    BY <2>2, <2>3 DEF E!PlanAdopted
  <2> QED
    BY <2>1, <2>4 DEF E!RowsOfAnAdoptedPlan
<1> QED
  BY <1>1, <1>2, StepKinds

LEMMA PresentRows ==
    /\ RType => E!Present(task) = {t \in Tasks : task[t].status # "ABSENT"}
    /\ RType' => E!Present(task)' = {t \in Tasks : task'[t].status # "ABSENT"}
<1>1. RType => E!Present(task) = {t \in Tasks : task[t].status # "ABSENT"}
  BY RTypeFacts DEF E!Present
<1>2. (RType => E!Present(task) = {t \in Tasks : task[t].status # "ABSENT"})'
  BY <1>1, PTL
<1> QED
  BY <1>1, <1>2

LEMMA DependenciesKnownStep ==
    ASSUME ReachOK, ReachOK', E!RepairRows, AllOrNone, AffectedOK, E!DependenciesKnown, RNext
    PROVE  E!DependenciesKnown'
<1> USE DEF ReachOK, TypesOK
<1>1. CASE EngineStep
  <2>1. E!Next /\ E!TypeInv /\ E!TypeInv' /\ E!WaveOK
    BY <1>1, EngineUnderstood DEF RType
  <2> QED
    BY <2>1, SameAssumptions, E!KnownStep
<1>2. CASE OwnStep
  <2>0. /\ E!Present(task) = {t \in Tasks : task[t].status # "ABSENT"}
        /\ E!Present(task)' = {t \in Tasks : task'[t].status # "ABSENT"}
    BY PresentRows
  <2>1. CASE UNCHANGED task
    BY <2>0, <2>1 DEF E!DependenciesKnown
  <2>2. ASSUME NEW u \in Tasks, ResetTask(u) \/ RedefineTask(u)
        PROVE  E!DependenciesKnown'
    <3> SUFFICES ASSUME NEW t \in Tasks, task'[t].status # "ABSENT", NEW d \in task'[t].deps
                 PROVE  d \in Tasks /\ task'[d].status # "ABSENT"
      BY <2>0 DEF E!DependenciesKnown
    <3>1. ASSUME d \in task[t].deps, task[t].status # "ABSENT"
          PROVE  d \in Tasks /\ task'[d].status # "ABSENT"
      BY <2>0, <3>1, RowStays DEF E!DependenciesKnown
    <3>2. CASE t # u
      BY <2>2, <3>1, <3>2, TouchedRow
    <3>3. CASE t = u /\ ResetTask(u)
      BY <3>1, <3>3, TouchedRow
    <3>4. CASE t = u /\ RedefineTask(u)
      <4>1. task'[t].deps = RevisedDeps[t] /\ t \in PlanTasks /\ task[t].status = "PENDING"
        BY <3>4, TouchedRow, RedefinedWasReset
      <4>2. d \in PlanTasks
        BY <4>1, RevisionAssumption
      <4>3. d \in Tasks /\ task[d].status # "ABSENT"
        BY <4>1, <4>2 DEF AllOrNone, Tasks
      <4> QED
        BY <4>3, RowStays
    <3> QED
      BY <2>2, <3>2, <3>3, <3>4
  <2> QED
    BY <1>2, <2>1, <2>2, OwnMoves DEF RowsTouched
<1> QED
  BY <1>1, <1>2, StepKinds

-------------------------------------------------------------------------------
(* The tasks a revision resets, and the dependencies of the others *)

\* What depends on a member of Dependents(roots) is a member, and every other
\* member than the roots depends on something.
LEMMA DependentsClosed ==
    ASSUME RType, NEW roots \in SUBSET Tasks
    PROVE  /\ \A t \in Tasks : task[t].deps \cap Dependents(roots) # {} => t \in Dependents(roots)
           /\ \A t \in Dependents(roots) : t \in roots \/ task[t].deps # {}
<1> DEFINE Closed(S) == \A t \in Tasks : task[t].deps \cap S # {} => t \in S
<1>1. Dependents(roots) = {t \in Tasks : \A S \in SUBSET Tasks : roots \subseteq S /\ Closed(S) => t \in S}
  BY DEF Dependents
<1>2. ASSUME NEW t \in Tasks, task[t].deps \cap Dependents(roots) # {},
             NEW S \in SUBSET Tasks, roots \subseteq S, Closed(S)
      PROVE  t \in S
  <2>1. Dependents(roots) \subseteq S
    <3> HIDE DEF Closed
    <3> QED
      BY <1>1, <1>2
  <2> QED
    BY <1>2, <2>1
<1>3. ASSUME NEW t \in Dependents(roots)
      PROVE  t \in roots \/ task[t].deps # {}
  <2> DEFINE S == roots \cup {u \in Tasks : task[u].deps # {}}
  <2>1. S \in SUBSET Tasks /\ roots \subseteq S /\ Closed(S)
    OBVIOUS
  <2>2. t \in S
    <3> HIDE DEF S, Closed
    <3> QED
      BY <1>1, <1>3, <2>1
  <2> QED
    BY <2>2
<1> HIDE DEF Closed
<1> QED
  BY <1>1, <1>2, <1>3

LEMMA MemMoves ==
    ASSUME RType, RegistryOK, MemoryOK, RNext
    PROVE  \/ mem'.affected = mem.affected
           \/ at' = "none" /\ mem'.affected = {}
           \/ FindAffected /\ mem'.affected = Dependents(Producers) /\ UNCHANGED task
<1>0. mem \in [seen : SUBSET DOMAIN arts, names : SUBSET ArtifactNames,
               affected : SUBSET Tasks, asked : Nat]
  BY DEF MemoryOK
<1>1. CASE \E i \in DOMAIN arts : Invalidate(i)
  BY <1>1, InvalidMemory
<1>2. CASE FindAffected
  <2>1. PICK S : S = Dependents(Producers)
    OBVIOUS
  <2>2. mem' = [mem EXCEPT !.affected = S]
    BY <1>2, <2>1 DEF FindAffected
  <2>3. mem'.affected = S /\ UNCHANGED task
    BY <1>0, <1>2, <2>2 DEF FindAffected, vars
  <2> QED
    BY <1>2, <2>1, <2>3
<1>3. CASE RequestRenewal
  <2>1. PICK n : mem' = [mem EXCEPT !.asked = n]
    BY <1>3 DEF RequestRenewal
  <2> QED
    BY <1>0, <2>1
<1>4. CASE Leave
  BY <1>4 DEF Leave, Nothing
<1>5. \/ mem' = mem \/ Leave \/ RequestRenewal \/ FindAffected
      \/ \E i \in DOMAIN arts : Invalidate(i)
  BY DEF RNext, Tick, OperatorRevises, EndPass, ConsumeCurrent, ConsumeStale, ClearTaskGate,
         ClearRevision, BeginTask, EndTask, Ask, CrashEngine, Revise, RevisionRefused,
         CloseApproval, SaveRevision, PauseRevised, GoOn, PublishOutput,
         PublishContract, PublishPlan,
         CutRevision, ResetTask, RedefineTask, Decide, rvars
<1> QED
  BY <1>1, <1>2, <1>3, <1>4, <1>5

\* While a revision is at work the rows change only where it resets or
\* redefines them.
LEMMA RevisingRows ==
    ASSUME RType, RNext, at \notin {"none", "close"}
    PROVE  \/ UNCHANGED task
           \/ at = "reset" /\ \E t \in Tasks : ResetTask(t)
           \/ at = "redefine" /\ \E t \in Tasks : RedefineTask(t)
<1>1. CASE EngineStep
  BY <1>1 DEF EngineStep, Decide, Resolve
<1>2. CASE OwnStep
  BY <1>2, OwnMoves DEF RowsTouched, ResetTask, RedefineTask
<1> QED
  BY <1>1, <1>2, StepKinds

LEMMA AffectedOKStep ==
    ASSUME ReachOK, ReachOK', PlanPublished, PlannedOnce', AffectedOK, RNext, ~Disordered'
    PROVE  AffectedOK'
<1> USE DEF ReachOK, TypesOK
<1>0. mem.affected \subseteq Tasks /\ mem'.affected \subseteq Tasks
  BY DEF MemoryOK
<1>1. CASE at' = "none" /\ mem'.affected = {}
  BY <1>1 DEF AffectedOK
<1>2. CASE FindAffected /\ mem'.affected = Dependents(Producers) /\ UNCHANGED task
  <2>1. at' = "reset"
    BY <1>2 DEF FindAffected, Move
  <2>2. Producers \in SUBSET Tasks /\ \A t \in Producers : task[t].status # "ABSENT"
    BY DEF Producers
  <2>3. PICK S : S = Dependents(Producers)
    OBVIOUS
  <2>4. /\ \A t \in Tasks : task[t].deps \cap S # {} => t \in S
        /\ \A t \in S : t \in Producers \/ task[t].deps # {}
    BY <2>2, <2>3, DependentsClosed
  <2>5. \A t \in S : task[t].status # "ABSENT"
    BY <1>0, <1>2, <2>2, <2>3, <2>4 DEF PlanShaped
  <2> QED
    BY <1>2, <2>1, <2>3, <2>4, <2>5 DEF AffectedOK
<1>3. CASE mem'.affected = mem.affected
  <2>1. \A t \in mem'.affected : task'[t].status # "ABSENT"
    BY <1>0, <1>3, RowStays DEF AffectedOK
  <2>2. ASSUME at' = "reset", NEW t \in Tasks, task'[t].deps \cap mem'.affected # {}
        PROVE  t \in mem'.affected
    <3>1. at = "reset" \/ FindAffected
      BY <2>2, AtMoves DEF CloseApproval, PublishContract, PublishPlan, SaveRevision,
                           RequestRenewal, Move
    <3>2. CASE at = "reset"
      <4>1. task'[t].deps = task[t].deps
        BY <3>2, RevisingRows, TouchedRow
      <4> QED
        BY <1>3, <2>2, <3>2, <4>1 DEF AffectedOK
    <3>3. CASE FindAffected
      <4>1. at = "invalidate" /\ UNCHANGED task
        BY <3>3 DEF FindAffected, Move, vars
      <4>2. PICK S : S = Dependents(Producers)
        OBVIOUS
      <4>3. mem' = [mem EXCEPT !.affected = S]
        BY <3>3, <4>2 DEF FindAffected
      <4>4. mem'.affected = S
        BY <4>3 DEF MemoryOK
      <4>5. Producers \in SUBSET Tasks
        BY DEF Producers
      <4>6. \A u \in Tasks : task[u].deps \cap S # {} => u \in S
        BY <4>2, <4>5, DependentsClosed
      <4> QED
        BY <2>2, <4>1, <4>4, <4>6
    <3> QED
      BY <3>1, <3>2, <3>3
  <2>3. ASSUME at' = "redefine"
        PROVE  OldPlan' /\ \A t \in mem'.affected : task'[t].status = "PENDING"
    <3>1. CASE at = "redefine"
      <4>1. UNCHANGED arts
        BY <2>3, <3>1, HeldMoves
      <4>2. \A t \in mem.affected : task'[t].status = "PENDING"
        BY <1>0, <3>1, RevisingRows, TouchedRow, RedefinedWasReset DEF AffectedOK
      <4> QED
        BY <1>3, <3>1, <4>1, <4>2 DEF AffectedOK, OldPlan, Versions
    <3>2. CASE PublishPlan
      <4>1. Versions("plan") # {}
        <5>1. task'["create_plan"].status = "SUCCEEDED"
          BY <2>3 DEF PlannedOnce, Disordered
        <5>2. UNCHANGED task
          BY <3>2 DEF PublishPlan, vars
        <5> QED
          BY <5>1, <5>2 DEF PlanPublished
      <4>2. PICK i \in DOMAIN arts : arts[i].name = "plan"
        BY <4>1 DEF Versions
      <4>3. PICK row : row.name = "plan" /\ arts' = Append(arts, row)
        BY <3>2 DEF PublishPlan, Publish, Artifact
      <4>4. /\ Len(arts) + 1 \in DOMAIN arts' /\ arts'[Len(arts) + 1] = row
            /\ i \in DOMAIN arts' /\ arts'[i].name = "plan" /\ i # Len(arts) + 1
        <5> HIDE DEF ArtifactRow
        <5> QED
          BY <4>2, <4>3 DEF RegistryOK
      <4>5. OldPlan'
        BY <4>3, <4>4 DEF OldPlan, Versions
      <4>6. \A t \in mem.affected : task[t].status = "PENDING"
        BY <3>2 DEF PublishPlan, Unreset, AffectedOK
      <4> QED
        BY <1>3, <3>2, <4>5, <4>6 DEF PublishPlan, vars
    <3> QED
      BY <2>3, <3>1, <3>2, AtMoves DEF CloseApproval, PublishContract, FindAffected, SaveRevision,
                                       RequestRenewal, Move
  <2> QED
    BY <2>1, <2>2, <2>3 DEF AffectedOK
<1> QED
  BY <1>1, <1>2, <1>3, MemMoves

\* At which commit of revise() a step of the engine or of an approver is taken.
LEMMA EngineAt ==
    ASSUME RNext, EngineStep
    PROVE  \/ at = "none" /\ at' \in {"none", "close"}
           \/ UNCHANGED <<run, task, main, pc, wave, hand, died, at, mem>>
BY DEF EngineStep, EndPass, ConsumeCurrent, ClearTaskGate, CrashEngine, BeginTask, EndTask, Ask,
       Decide, Resolve, rvars

LEMMA DependenciesHoldStep ==
    ASSUME ReachOK, ReachOK', E!RepairRows, E!DependenciesKnown, AffectedOK, DependenciesHold,
           RNext, ~Disordered'
    PROVE  DependenciesHold'
<1> USE DEF ReachOK, TypesOK
<1>0. at # "none" => wave = {}
  BY DEF RType, Frozen, E!WaveOK
<1>1. CASE EngineStep
  <2>1. CASE at = "none" /\ at' \in {"none", "close"}
    <3>1. E!Next /\ E!TypeInv /\ E!TypeInv' /\ E!WaveOK
      BY <1>1, EngineUnderstood DEF RType
    <3>2. E!DependenciesFirst'
      BY <2>1, <3>1, SameAssumptions, E!DependenciesStep DEF DependenciesHold
    <3> QED
      BY <2>1, <3>2 DEF DependenciesHold
  <2>2. CASE UNCHANGED <<run, task, main, pc, wave, hand, died, at, mem>>
    BY <2>2 DEF DependenciesHold, E!DependenciesFirst
  <2> QED
    BY <1>1, <2>1, <2>2, EngineAt
<1>2. CASE OwnStep
  <2>0. UNCHANGED wave
    BY <1>2, OwnMoves
  <2>1. ASSUME NEW u \in Tasks, ResetTask(u)
        PROVE  DependenciesHold'
    <3>1. /\ at = "reset" /\ at' = at /\ mem' = mem /\ u \in mem.affected
          /\ \A t \in Tasks \ {u} : task'[t] = task[t]
      BY <2>1, TouchedRow DEF ResetTask, rvars
    <3> SUFFICES ASSUME NEW t \in Tasks \ mem.affected, task'[t].status \in {"RUNNING", "SUCCEEDED"},
                        NEW d \in task'[t].deps
                 PROVE  task'[d].status = "SUCCEEDED"
      BY <3>1 DEF DependenciesHold
    <3>2. task'[t] = task[t]
      BY <3>1
    <3>3. d \in Tasks
      <4>1. task[t] \in TaskRow
        <5> HIDE DEF TaskRow
        <5> QED
          BY RTypeFacts
      <4> QED
        BY <3>2, <4>1 DEF TaskRow
    <3>4. task[d].status = "SUCCEEDED" /\ d \notin mem.affected
      BY <3>1, <3>2 DEF DependenciesHold, AffectedOK
    <3> QED
      BY <3>1, <3>3, <3>4
  <2>2. ASSUME NEW u \in Tasks, RedefineTask(u)
        PROVE  DependenciesHold'
    <3>1. /\ at = "redefine" /\ at' = at /\ task[u].status = "PENDING"
          /\ task'[u].status = "PENDING" /\ \A t \in Tasks \ {u} : task'[t] = task[t]
      BY <2>2, TouchedRow, RedefinedWasReset DEF RedefineTask, rvars
    <3> SUFFICES ASSUME NEW t \in Tasks, task'[t].status \in {"RUNNING", "SUCCEEDED"},
                        NEW d \in task'[t].deps
                 PROVE  task'[d].status = "SUCCEEDED"
      BY <1>0, <2>0, <3>1, SameNames DEF DependenciesHold, E!DependenciesFirst
    <3>2. task'[t] = task[t]
      BY <3>1
    <3>3. d \in Tasks
      <4>1. task[t] \in TaskRow
        <5> HIDE DEF TaskRow
        <5> QED
          BY RTypeFacts
      <4> QED
        BY <3>2, <4>1 DEF TaskRow
    <3>4. task[d].status = "SUCCEEDED"
      BY <3>1, <3>2, SameNames DEF DependenciesHold, E!DependenciesFirst
    <3> QED
      BY <3>1, <3>3, <3>4
  <2>3. CASE UNCHANGED task /\ at = "reset"
    <3>1. CASE at' = "reset"
      <4>1. ~FindAffected
        BY <2>3 DEF FindAffected, Move
      <4>2. mem'.affected = mem.affected
        BY <3>1, <4>1, MemMoves
      <4> QED
        BY <2>3, <3>1, <4>2 DEF DependenciesHold
    <3>2. CASE PublishPlan
      <4>1. at' = "redefine" /\ Unreset = {}
        BY <3>2 DEF PublishPlan, Move
      <4>2. \A t \in Tasks : task[t].status \in {"RUNNING", "SUCCEEDED"} => t \notin mem.affected
        BY <4>1 DEF Unreset
      <4> QED
        BY <1>0, <2>0, <2>3, <4>1, <4>2, SameNames DEF DependenciesHold, E!DependenciesFirst
    <3>3. ~CutRevision
      BY <2>3 DEF CutRevision, Disordered
    <3>4. at' = "reset" \/ PublishPlan \/ CutRevision
      <4>1. Revise
        BY <1>2, <2>3 DEF OwnStep
      <4> QED
        BY <2>3, <4>1
           DEF Revise, RevisionRefused, CloseApproval, PublishContract, FindAffected,
               SaveRevision, RequestRenewal, PauseRevised, GoOn, Invalidate, ResetTask,
               RedefineTask, Move, rvars
    <3> QED
      BY <3>1, <3>2, <3>3, <3>4
  <2>4. CASE UNCHANGED task /\ at # "reset"
    <3>1. E!DependenciesFirst /\ E!DependenciesFirst'
      BY <2>0, <2>4 DEF DependenciesHold, E!DependenciesFirst
    <3> QED
      BY <3>1, SameNames DEF DependenciesHold, E!DependenciesFirst
  <2> QED
    BY <1>2, <2>1, <2>2, <2>3, <2>4, OwnMoves DEF RowsTouched
<1> QED
  BY <1>1, <1>2, StepKinds

-------------------------------------------------------------------------------
(* The gates *)

\* While the process asks, no gate is to be passed but the one it asks about.
AskedClear == E!Asking => \A t \in Tasks : Gated(t) => t = approvals[E!InHand].task

\* A revision goes to work when every gate is passed.
RevisionClear == at \notin {"none", "close"} => \A t \in Tasks : ~Gated(t)

\* The questions of the engine, read as the engine reads them.
LEMMA AskedUnderstood ==
    ASSUME RType, E!PlacesInv, AskedClear
    PROVE  E!AskingClear
<1> SUFFICES ASSUME E!Asking, NEW t \in Tasks, Gated(t)
             PROVE  t = understood[E!InHand].task
  BY SameNames, SameRows DEF E!AskingClear
<1>1. t = approvals[E!InHand].task
  BY DEF AskedClear
<1>2. E!InHand \in DOMAIN approvals
  BY RTypeFacts DEF E!Asking, E!InHand, E!PlacesInv
<1>3. approvals[E!InHand].task # "plan.revised"
  BY <1>1, RevisionAssumption
<1> QED
  BY <1>1, <1>2, <1>3 DEF understood, Understood

\* No step of their own closes a gate.
LEMMA OwnGates ==
    ASSUME RType, OwnStep, NEW t \in Tasks, Gated(t)'
    PROVE  Gated(t)
<1>1. CASE UNCHANGED task
  BY <1>1 DEF Gated
<1>2. ASSUME NEW u \in Tasks, ResetTask(u) \/ RedefineTask(u)
      PROVE  Gated(t)
  BY <1>2, TouchedRow DEF Gated
<1> QED
  BY <1>1, <1>2, OwnMoves DEF RowsTouched

LEMMA RevisionClearStep ==
    ASSUME RType, RegistryOK, RevisionClear, RNext, ~Spoilt'
    PROVE  RevisionClear'
<1> SUFFICES ASSUME at' \notin {"none", "close"}, NEW t \in Tasks, Gated(t)'
             PROVE  FALSE
  BY DEF RevisionClear
<1>1. CASE CloseApproval
  BY <1>1 DEF CloseApproval, RunState, Spoilt, Gated
<1>2. CASE at \notin {"none", "close"}
  <2>1. CASE EngineStep
    BY <1>2, <2>1, EngineAt DEF RevisionClear, Gated
  <2>2. CASE OwnStep
    BY <1>2, <2>2, OwnGates DEF RevisionClear
  <2> QED
    BY <2>1, <2>2, StepKinds
<1> QED
  BY <1>1, <1>2, AtMoves DEF PublishContract, FindAffected, PublishPlan, SaveRevision,
                             RequestRenewal, Move

LEMMA WorkStep ==
    ASSUME RType, RType', DependenciesHold, RevisionClear, E!WorkClear, E!PlacesClear, RNext
    PROVE  E!WorkClear'
<1>1. CASE EngineStep
  <2>1. CASE at = "none"
    <3>1. E!Next /\ E!TypeInv /\ E!TypeInv' /\ E!WaveOK
      BY <1>1, EngineUnderstood DEF RType
    <3> QED
      BY <2>1, <3>1, SameAssumptions, E!WorkClearStep DEF DependenciesHold
  <2>2. CASE UNCHANGED <<run, task, main, pc, wave, hand, died, at, mem>>
    BY <2>2 DEF E!WorkClear, E!Gated
  <2> QED
    BY <1>1, <2>1, <2>2, EngineAt
<1>2. CASE OwnStep
  <2>1. CASE UNCHANGED task
    BY <1>2, <2>1, OwnMoves DEF E!WorkClear, E!Gated
  <2>2. CASE RowsTouched
    <3>1. at \in {"reset", "redefine"}
      BY <2>2 DEF RowsTouched, ResetTask, RedefineTask
    <3>2. \A d \in Tasks : ~Gated(d)'
      BY <1>2, <3>1, OwnGates DEF RevisionClear
    <3>3. \A t \in Tasks : task'[t].deps \subseteq Tasks
      <4>1. \A t \in Tasks : task'[t] \in TaskRow
        <5> HIDE DEF TaskRow
        <5> QED
          BY SameNames DEF RType, E!TypeInv, E!TypeOK
      <4> QED
        BY <4>1 DEF TaskRow
    <3> QED
      BY <3>2, <3>3, SameNames DEF E!WorkClear, E!Gated, Gated
  <2> QED
    BY <1>2, <2>1, <2>2, OwnMoves
<1> QED
  BY <1>1, <1>2, StepKinds

LEMMA PlacesClearStays ==
    ASSUME RType, RType', RegistryOK, MemoryOK, HoldsOK, AskedClear, RevisionClear, E!PlacesClear,
           RNext, ~Spoilt'
    PROVE  E!PlacesClear'
<1> USE DEF HoldsOK
<1>1. CASE EngineStep
  <2>1. E!Next /\ E!TypeInv
    BY <1>1, EngineUnderstood DEF RType
  <2>2. ~E!DiedIn(E!GateWindow)'
    BY DEF Spoilt, DiedIn, E!DiedIn, E!GateWindow, GateWindow, E!RepairWindow, RepairWindow
  <2> QED
    BY <2>1, <2>2, SameAssumptions, AskedUnderstood, E!PlacesClearStep
<1>2. CASE OwnStep
  <2> SUFFICES ASSUME E!AtClearPlace', NEW t \in Tasks, Gated(t)
               PROVE  FALSE
    BY <1>2, OwnGates, SameNames DEF E!PlacesClear, E!Gated, Gated
  <2>0. ~E!AtClearPlace
    BY SameNames, SameRows DEF E!PlacesClear
  <2>1. CASE UNCHANGED vars
    BY <2>0, <2>1 DEF vars, E!AtClearPlace
  <2>2. CASE ClearRevision /\ pc = "approved"
    <3>1. E!Asking /\ approvals[E!InHand].task = "plan.revised"
      BY <2>2 DEF E!Asking, E!InHand, ClearRevision, Renews
    <3>2. t = "plan.revised"
      BY <3>1 DEF AskedClear
    <3> QED
      BY <3>2, RevisionAssumption
  <2>3. CASE pc \in {"idle", "loop"} /\ pc' \in {"idle", "loop"}
    <3>1. pc # "loop" /\ ~(pc = "idle" /\ run.status \in {"created", "executing"})
      BY <2>0 DEF E!AtClearPlace, E!ClearPlaces
    <3>2. pc = "idle" /\ pc' = "idle" /\ run.status \notin {"created", "executing"}
      BY <1>2, <2>3, <3>1, OwnMoves
    <3>3. run'.status \in {"created", "executing"}
      BY <3>2 DEF E!AtClearPlace, E!ClearPlaces
    <3>4. GoOn
      BY <1>2, <3>2, <3>3, OwnRun DEF MemoryOK
    <3>5. at = "request"
      BY <3>4 DEF GoOn
    <3> QED
      BY <3>5 DEF RevisionClear
  <2> QED
    BY <1>2, <2>1, <2>2, <2>3, OwnPlaces
<1> QED
  BY <1>1, <1>2, StepKinds

-------------------------------------------------------------------------------
(* One gate at a time, before and after revisions *)

\* What a finished task waits for, whatever the revisions, is finished and has
\* passed its gate.
LEMMA WaitedAnyway ==
    ASSUME PlanShaped, RType, E!WorkClear, E!DependenciesFirst, E!RowsOfAnAdoptedPlan,
           NEW t \in Bootstrap \cup PlanTasks, NEW u \in Bootstrap \cup PlanTasks,
           task[u].status = "SUCCEEDED", LeadsAnyway(t, u)
    PROVE  t = u \/ (task[t].status = "SUCCEEDED" /\ ~Gated(t))
<1> DEFINE S == {x \in Bootstrap \cup PlanTasks : task[x].status = "SUCCEEDED" /\ ~Gated(x)}
<1>0. Bootstrap \cup PlanTasks \subseteq Tasks
  BY DEF Tasks
<1>1. ASSUME NEW x \in Bootstrap \cup PlanTasks, task[x].status = "SUCCEEDED"
      PROVE  WaitsAnyway(x) \subseteq S
  <2>1. \A d \in task[x].deps : task[d].status = "SUCCEEDED" /\ ~Gated(d)
    BY <1>0, <1>1, SameNames, SameRows DEF E!WorkClear, E!DependenciesFirst
  <2>2. CASE x \in Bootstrap
    <3>1. task[x].deps = BootstrapDeps[x]
      BY <1>0, <1>1, <2>2 DEF PlanShaped
    <3>2. BootstrapDeps[x] \subseteq Bootstrap
      BY <2>2 DEF Bootstrap, BootstrapDeps
    <3> QED
      BY <2>1, <2>2, <3>1, <3>2 DEF WaitsAnyway
  <2>3. CASE x \notin Bootstrap
    <3>1. x \in PlanTasks
      BY <2>3
    <3>2. PlanDeps[x] \cap RevisedDeps[x] \subseteq task[x].deps /\ PlanDeps[x] \subseteq PlanTasks
      BY <1>0, <1>1, <3>1, PlanAssumption DEF PlanShaped
    <3>3. PlanAdopted
      BY <1>1, <3>1, SameRows DEF E!RowsOfAnAdoptedPlan
    <3>4. "create_plan" \in S
      BY <3>3 DEF PlanAdopted, Gated, Bootstrap
    <3> QED
      BY <2>1, <2>3, <3>2, <3>4 DEF WaitsAnyway
  <2> QED
    BY <2>2, <2>3
<1>2. S \cup {u} \in SUBSET (Bootstrap \cup PlanTasks) /\ u \in S \cup {u}
  OBVIOUS
<1>3. \A x \in S \cup {u} : WaitsAnyway(x) \subseteq S \cup {u}
  BY <1>1
<1>4. t \in S \cup {u}
  <2> HIDE DEF S
  <2> QED
    BY <1>2, <1>3 DEF LeadsAnyway
<1> QED
  BY <1>4

LEMMA OneGate ==
    ASSUME RevisedInTurn, PlanShaped, RType, E!WorkClear, E!DependenciesFirst,
           E!RowsOfAnAdoptedPlan, NEW t \in Tasks, NEW u \in Tasks, Gated(t), Gated(u)
    PROVE  t = u
<1> SUFFICES ASSUME t # u PROVE FALSE
  OBVIOUS
<1>1. /\ t \in Bootstrap \cup PlanTasks /\ u \in Bootstrap \cup PlanTasks
      /\ task[t].status = "SUCCEEDED" /\ task[u].status = "SUCCEEDED"
      /\ LeadsAnyway(t, u) \/ LeadsAnyway(u, t)
  BY DEF RevisedInTurn, Gated
<1> QED
  BY <1>1, WaitedAnyway

LEMMA AskActs ==
    ASSUME EngineStep, NEW u \in E!Tasks, E!RequestApproval(u), at = "none"
    PROVE  \E t \in Tasks : Ask(t)
<1>0. pc = "gates" /\ pc' = "request"
  BY DEF E!RequestApproval, E!NextGate
<1>1. ASSUME NEW t \in Tasks
      PROVE  /\ ~SaveBootstrapTask(t) /\ ~RecoverTask(t) /\ ~HandleFailure(t)
             /\ ~GateAllowed(t) /\ ~GateDenied(t) /\ ~BeginTask(t) /\ ~EndTask(t)
  BY <1>0 DEF SaveBootstrapTask, RecoverTask, HandleFailure, Retry, RetriesExhausted, TakeFallback,
         NoFallback, SaveRepair, SaveReintegrate, RepairCollides, Rewire, Rollback, NoRepair,
         Failed, Goto, Stop, GateAllowed, GateDenied, NextGate, BeginTask, StartTask, EndTask,
         TaskSucceeds, TaskFails
<1>2. /\ ~BeginTick /\ ~ConsumeRefused /\ ~Promote /\ ~SavePromoted
      /\ ~SaveReviewReady /\ ~Proceed /\ ~Loop /\ ~WaveDone /\ ~CountRepair
      /\ ~FailuresHandled /\ ~SavePause
  BY <1>0 DEF BeginTick, ConsumeRefused, Promote, SavePromoted,
           SaveReviewReady, Proceed, Loop, NextWave, WithinBudget, WavesExhausted, TimeExhausted,
           MaterializeRaises, Schedule, Blocked, Finalize, Scheduling, WaveDone,
           CountRepair, FailuresHandled, SavePause, Goto, Stop
<1>3. ~EngineAlone
  BY <1>1, <1>2 DEF EngineAlone
<1>4. ~EndPass /\ ~ConsumeCurrent /\ ~ClearTaskGate /\ ~CrashEngine
  BY <1>0 DEF EndPass, GatesDone, Goto, ConsumeCurrent, ConsumeApproved, ClearTaskGate, ClearGate,
              CrashEngine, Crash
<1>5. \A i, d : ~Decide(i, d)
  BY <1>0 DEF Decide, Resolve
<1> QED
  BY <1>1, <1>3, <1>4, <1>5 DEF EngineStep

LEMMA AskedStep ==
    ASSUME RevisedInTurn, ReachOK, HoldsOK, DependenciesHold, E!RowsOfAnAdoptedPlan,
           E!WorkClear, RevisionClear, AskedClear, RNext
    PROVE  AskedClear'
<1> USE DEF ReachOK, TypesOK, HoldsOK
<1> SUFFICES ASSUME E!Asking', NEW t \in Tasks, Gated(t)'
             PROVE  t = approvals'[E!InHand'].task
  BY DEF AskedClear
<1>1. ASSUME E!Asking, E!InHand' = E!InHand, Gated(t)
      PROVE  t = approvals'[E!InHand'].task
  <2>1. E!InHand \in DOMAIN approvals
    BY <1>1, RTypeFacts DEF E!Asking, E!InHand, E!PlacesInv
  <2>2. approvals'[E!InHand].task = approvals[E!InHand].task
    BY <2>1, ApprovedStays
  <2> QED
    BY <1>1, <2>2 DEF AskedClear
<1>2. CASE EngineStep
  <2>1. E!Next /\ E!TypeInv
    BY <1>2, EngineUnderstood DEF RType
  <2>2. CASE \E u \in E!Tasks : E!RequestApproval(u)
    <3>1. at = "none"
      <4>1. pc = "gates"
        BY <2>2 DEF E!RequestApproval, E!NextGate
      <4> QED
        BY <4>1 DEF RType, Frozen
    <3>2. PICK u \in Tasks : Ask(u)
      BY <1>2, <2>2, <3>1, AskActs
    <3>3. /\ Gated(u) /\ UNCHANGED task /\ pc' = "request" /\ hand' = Len(approvals) + 1
          /\ approvals' = Append(approvals, [task |-> u, status |-> "pending"])
      BY <3>2 DEF Ask, RequestApproval, NextGate, IsFirst
    <3>4. t = u
      <4>1. Gated(t)
        BY <3>3 DEF Gated
      <4> QED
        BY <3>1, <3>3, <4>1, OneGate DEF DependenciesHold
    <3>5. approvals'[Len(approvals) + 1].task = u
      <4> DEFINE row == [task |-> u, status |-> "pending"]
      <4>1. row.task = u /\ approvals' = Append(approvals, row)
        BY <3>3
      <4> HIDE DEF row, ApprovalRow
      <4> QED
        BY <4>1 DEF RType, ApprovalsOK
    <3> QED
      BY <3>3, <3>4, <3>5 DEF E!InHand
  <2>3. CASE E!Asking /\ E!InHand' = E!InHand /\ pc # "wave" /\ UNCHANGED task
    BY <1>1, <2>3 DEF Gated
  <2> QED
    BY <2>1, <2>2, <2>3, SameAssumptions, E!AskingMoves
<1>3. CASE OwnStep
  <2>0. Gated(t)
    BY <1>3, OwnGates
  <2>1. CASE UNCHANGED vars
    BY <1>1, <2>0, <2>1 DEF vars, E!Asking, E!InHand
  <2>2. CASE pc \in {"idle", "loop"} /\ pc' \in {"idle", "loop"}
    <3>1. pc' = "idle" /\ run'.status = "awaiting_approval" /\ run'.pending # 0
      BY <2>2 DEF E!Asking
    <3>2. CASE PauseRevised
      BY <2>0, <3>2 DEF PauseRevised, RevisionClear
    <3>3. CASE ~PauseRevised
      <4>1. UNCHANGED run
        BY <1>3, <3>1, <3>3, OwnRun DEF MemoryOK
      <4>2. pc = "idle"
        BY <2>2, <3>1, <4>1 DEF E!PlacesInv, E!ConsumeWindow
      <4> QED
        BY <1>1, <2>0, <3>1, <4>1, <4>2 DEF E!Asking, E!InHand
    <3> QED
      BY <3>2, <3>3
  <2> QED
    BY <1>3, <2>1, <2>2, OwnPlaces DEF E!Asking
<1> QED
  BY <1>2, <1>3, StepKinds

-------------------------------------------------------------------------------
(* Together *)

\* The strengthening of GatesUnlessReplaced: either one of its exceptions, or
\* the run is as the engine alone would leave it.
Clean ==
    /\ NoneRunning /\ AllOrNone
    /\ E!DependenciesKnown /\ E!RowsOfAnAdoptedPlan
    /\ DependenciesHold /\ AffectedOK
    /\ E!WorkClear /\ E!PlacesClear /\ AskedClear /\ RevisionClear

GatesOK == RenewalOK /\ HoldsOK /\ PlanPublished /\ (Spoilt \/ Clean)

LEMMA InitGates == RInit => GatesOK
<1> SUFFICES ASSUME RInit
             PROVE  GatesOK
  OBVIOUS
<1>0. \A t \in Tasks : task[t].status = "ABSENT" /\ ~task[t].cleared /\ task[t].deps = {}
  BY DEF RInit, Init, NoTask, NewTask
<1>1. E!OrderInv
  <2>1. understood = <<>>
    BY DEF RInit, Init, understood
  <2>2. E!Init
    BY <2>1, SameNames DEF RInit, Init, E!Init
  <2> QED
    BY <2>2, SameAssumptions, E!InitOrder
<1>2. HoldsOK
  BY <1>1 DEF E!OrderInv, E!SafeInv, HoldsOK, RInit, Init, E!Resuming
<1>3. PlanPublished
  BY <1>0 DEF PlanPublished, Tasks, Bootstrap, RInit
<1>4. NoneRunning /\ AllOrNone /\ AffectedOK /\ AskedClear /\ RevisionClear
  BY <1>0 DEF RInit, Init, NoneRunning, AllOrNone, AffectedOK, AskedClear, RevisionClear, Gated,
              Nothing, Tasks
<1>5. E!DependenciesKnown /\ E!RowsOfAnAdoptedPlan /\ E!DependenciesFirst
  BY <1>1 DEF E!OrderInv, E!SafeInv
<1>6. E!WorkClear /\ E!PlacesClear
  BY <1>0, SameNames, SameRows DEF RInit, Init, E!WorkClear, E!PlacesClear, Gated
<1>7. DependenciesHold
  BY <1>5 DEF DependenciesHold, RInit
<1> QED
  BY <1>1, <1>2, <1>3, <1>4, <1>5, <1>6, <1>7, InitRenewal DEF GatesOK, HoldsOK, Clean

LEMMA GatesStep ==
    ASSUME RevisionApart, RevisedInTurn, GatesOK, [RNext]_<<vars, rvars>>
    PROVE  GatesOK'
<1> USE DEF GatesOK
<1>1. CASE RNext
  <2>1. RenewalOK'
    BY RenewalStep
  <2>2. ReachOK /\ ReachOK' /\ PlannedOnce' /\ RType /\ RType' /\ RegistryOK /\ MemoryOK
    BY <2>1 DEF RenewalOK, ReachOK, TypesOK
  <2>3. HoldsOK' /\ PlanPublished'
    BY <1>1, <2>2, HoldsStep, PublishedStep
  <2>4. CASE Spoilt'
    BY <2>1, <2>3, <2>4
  <2>5. CASE ~Spoilt'
    <3>1. Clean
      BY <1>1, <2>2, <2>5, SpoiltStays
    <3> USE <3>1 DEF Clean
    <3>2. E!RepairRows /\ E!PlacesInv
      BY DEF HoldsOK
    <3>3. NoneRunning' /\ AllOrNone' /\ E!DependenciesKnown' /\ E!RowsOfAnAdoptedPlan'
      BY <1>1, <2>2, <2>5, <3>2, RunningStep, AllStep, DependenciesKnownStep, PlanRowsStep
    <3>4. DependenciesHold' /\ AffectedOK'
      <4>1. ~Disordered'
        BY <2>5 DEF Spoilt, Disordered
      <4> QED
        BY <1>1, <2>2, <3>2, <4>1, DependenciesHoldStep, AffectedOKStep
    <3>5. E!WorkClear' /\ E!PlacesClear'
      BY <1>1, <2>2, <2>5, WorkStep, PlacesClearStays
    <3>6. AskedClear' /\ RevisionClear'
      BY <1>1, <2>2, <2>5, AskedStep, RevisionClearStep
    <3>7. Clean'
      BY <3>3, <3>4, <3>5, <3>6
    <3> QED
      BY <2>1, <2>3, <3>7
  <2> QED
    BY <2>4, <2>5
<1>2. CASE UNCHANGED <<vars, rvars>>
  <2>1. RenewalOK'
    BY RenewalStep
  <2>2. HoldsOK' /\ PlanPublished'
    BY <1>2 DEF HoldsOK, PlanPublished, Versions, vars, rvars, E!PlacesInv, E!Resuming, E!Holding,
                E!RepairRows, E!RepairsSurvive, E!RepairsCounted, E!DiedIn, E!NextRepair, E!FailedTasks,
                E!IsFirst, E!Present, understood
  <2>3. Spoilt => Spoilt'
    BY <1>2 DEF Spoilt, DiedIn, vars, rvars
  <2>4. Clean => Clean'
    <3>1. NoneRunning /\ AllOrNone /\ AffectedOK => NoneRunning' /\ AllOrNone' /\ AffectedOK'
      BY <1>2 DEF NoneRunning, AllOrNone, AffectedOK, OldPlan, Versions, vars, rvars
    <3>2. DependenciesHold => DependenciesHold'
      BY <1>2 DEF DependenciesHold, E!DependenciesFirst, vars, rvars
    <3>3. AskedClear /\ RevisionClear => AskedClear' /\ RevisionClear'
      BY <1>2 DEF AskedClear, RevisionClear, E!Asking, E!InHand, Gated, vars, rvars
    <3>4. E!DependenciesKnown /\ E!RowsOfAnAdoptedPlan
            => E!DependenciesKnown' /\ E!RowsOfAnAdoptedPlan'
      BY <1>2 DEF E!DependenciesKnown, E!RowsOfAnAdoptedPlan, E!PlanAdopted, E!Present, vars
    <3>5. E!WorkClear /\ E!PlacesClear => E!WorkClear' /\ E!PlacesClear'
      BY <1>2 DEF E!WorkClear, E!PlacesClear, E!AtClearPlace, E!Gated, vars
    <3> QED
      BY <3>1, <3>2, <3>3, <3>4, <3>5 DEF Clean
  <2> QED
    BY <2>1, <2>2, <2>3, <2>4
<1> QED
  BY <1>1, <1>2

LEMMA AlwaysGates ==
    ASSUME RevisionApart, RevisedInTurn
    PROVE  RSpec => []GatesOK
<1>1. GatesOK /\ [RNext]_<<vars, rvars>> => GatesOK'
  BY GatesStep
<1> QED
  BY <1>1, InitGates, PTL DEF RSpec

\* What the strengthening is for: a running task has finished dependencies,
\* and none of them is behind a closed gate.
LEMMA GatesImply == GatesOK => GatesUnlessReplaced
<1> SUFFICES ASSUME GatesOK, ~Spoilt, NEW t \in Tasks, task[t].status = "RUNNING",
                    NEW d \in task[t].deps, Gate[d] # {}
             PROVE  task[d].cleared
  BY DEF GatesUnlessReplaced, GateBeforeDependents, Spoilt
<1>1. Clean /\ RType
  BY DEF GatesOK, RenewalOK, ReachOK, TypesOK
<1>2. at = "none"
  BY <1>1 DEF Clean, NoneRunning, RType, Frozen
<1>3. task[d].status = "SUCCEEDED"
  BY <1>1, <1>2, SameNames DEF Clean, DependenciesHold, E!DependenciesFirst
<1>4. ~Gated(d)
  BY <1>1, SameNames, SameRows DEF Clean, E!WorkClear
<1> QED
  BY <1>3, <1>4 DEF Gated

\* Revisions do not let a task run before the gates it builds on are passed:
\* whatever plan, script and number of revisions, GateBeforeDependents fails
\* only after a revision made with a gate closed or before planning, a death
\* among the resets, or a death between a wave and its gates.
THEOREM GatesOutliveRevisions ==
    ASSUME RevisionApart, RevisedInTurn
    PROVE  RSpec => []GatesUnlessReplaced
BY AlwaysGates, GatesImply, PTL

-------------------------------------------------------------------------------
(* Completion: what is left of work that rests on an older contract *)

\* What CompleteMeansCurrent makes an exception of.
Lost ==
    \/ cuts \cap ReviseWindow # {} \/ (cuts # {} /\ "ended" \in met)
    \/ "unplanned" \in met

\* The task has published, and has succeeded or still may.
Done(t) ==
    \/ task[t].status = "SUCCEEDED"
    \/ pc = "wave" /\ task[t].status = "RUNNING" /\ t \in told

Revising == {"invalidate", "reset", "redefine", "request", "pause"}

AtOK == at \in {"none", "close", "publish"} \cup Revising

\* Normalization that is done has put a contract in the table.
ContractPublished ==
    "normalize" \in told \/ task["normalize"].status = "SUCCEEDED" => Versions(Contract) # {}

\* The fresh versions of an artifact that rests on the contract are counted in
\* the order in which they were published.
FreshInOrder ==
    \A t \in Downstream : \A i, j \in Versions(Produces[t]) :
        i < j /\ ~arts[i].stale /\ ~arts[j].stale => arts[i].version < arts[j].version

SeenStale == \A i \in mem.seen : arts[i].stale

\* A revision of a run that had ended is remembered.
EndedSeen == at \notin {"none", "close"} /\ run.status \in Terminal => "ended" \in met

\* Something t made from the contract is fresh, or has a name in names.
Traced(t, names) ==
    \E i \in DOMAIN arts :
        /\ arts[i].by = t
        /\ \E p \in arts[i].parents : arts[p].name = Contract
        /\ arts[i].stale => arts[i].name \in names

\* t published something after the current contract that is fresh.
Fresh(t) == \E i \in Versions(Produces[t]) : i > Current(Contract) /\ ~arts[i].stale

\* Work that rests on the contract is current, until a revision publishes
\* another one; then what was made from the contract is found, the tasks that
\* rest on it are affected, and none of them is done any more.
WorkTraced ==
    /\ at \in {"none", "close", "publish"} =>
          \A t \in Downstream : Done(t) =>
              (Produces[t] # "" => Fresh(t)) /\ (t \in Roots => Traced(t, {}))
    /\ at = "invalidate" => \A t \in Roots : Done(t) => Traced(t, mem.names)
    /\ at = "reset" => \A t \in Downstream : Done(t) => t \in mem.affected
    /\ at \in {"redefine", "request", "pause"} => \A t \in Downstream : ~Done(t)

InQuestion == E!Asking \/ pc \in {"promote", "promoted", "review"}

\* What the process asks about has succeeded, but for a revision under way.
AskedDone ==
    at \notin {"reset", "redefine"} /\ InQuestion =>
        LET t == approvals[E!InHand].task IN
        t = "plan.revised" \/ task[t].status = "SUCCEEDED"

\* A run that has ended well has no work left that rests on the contract.
Completed ==
    run.status \in {"review_ready", "promoted"} /\ at \in {"none", "close"} =>
        \A t \in Downstream : task[t].status \in {"ABSENT", "SUCCEEDED"}

LEMMA LostStays ==
    ASSUME RegistryOK, RNext
    PROVE  Lost => Lost'
BY PlanMoves DEF Lost

\* A wave begins when no task is running.
LEMMA EntersWave ==
    ASSUME RType, RNext, pc' = "wave", pc # "wave"
    PROVE  RunningTasks(task) = {}
<1>1. ASSUME NEW t \in Tasks
      PROVE  /\ ~SaveBootstrapTask(t) /\ ~RecoverTask(t) /\ ~HandleFailure(t)
             /\ ~GateAllowed(t) /\ ~GateDenied(t) /\ ~BeginTask(t) /\ ~EndTask(t) /\ ~Ask(t)
  BY DEF SaveBootstrapTask, RecoverTask, HandleFailure, Retry, RetriesExhausted, TakeFallback,
         NoFallback, SaveRepair, SaveReintegrate, RepairCollides, Rewire, Rollback, NoRepair,
         Failed, Goto, Stop, GateAllowed, GateDenied, NextGate, BeginTask, StartTask, EndTask,
         TaskSucceeds, TaskFails, Ask, RequestApproval
<1>2. /\ ~BeginTick /\ ~ConsumeRefused /\ ~Promote /\ ~SavePromoted
      /\ ~SaveReviewReady /\ ~Proceed /\ ~WaveDone /\ ~CountRepair
      /\ ~FailuresHandled /\ ~SavePause
  BY DEF BeginTick, ConsumeRefused, Promote, SavePromoted, SaveReviewReady, Proceed,
         WaveDone, CountRepair, FailuresHandled, SavePause, Goto, Stop
<1>3. Loop => RunningTasks(task) = {}
  BY DEF Loop, NextWave, WithinBudget, WavesExhausted, TimeExhausted,
         MaterializeRaises, Schedule, Blocked, Finalize, Scheduling, Goto, Stop
<1>4. ~EndPass /\ ~ConsumeCurrent /\ ~ClearTaskGate /\ ~CrashEngine
  BY DEF EndPass, GatesDone, Goto, ConsumeCurrent, ConsumeApproved, ClearTaskGate, ClearGate,
         CrashEngine, Crash
<1>5. \A i, d : ~Decide(i, d)
  BY DEF Decide, Resolve
<1>6. ~OwnStep
  BY OwnPlaces DEF vars
<1> QED
  BY <1>1, <1>2, <1>3, <1>4, <1>5, <1>6, StepKinds DEF EngineStep, EngineAlone

\* A task is done by publishing.
LEMMA DoneMoves ==
    ASSUME RType, RNext, NEW t \in Tasks, Done(t)'
    PROVE  Done(t) \/ PublishOutput(t)
<1>1. CASE task'[t].status = "SUCCEEDED"
  BY <1>1, SuccessIsTold DEF Done
<1>2. CASE pc' = "wave" /\ task'[t].status = "RUNNING" /\ t \in told'
  <2>1. t \in told \/ PublishOutput(t)
    BY <1>2, ToldMoves
  <2>2. CASE pc # "wave"
    <3>1. task[t].status # "RUNNING"
      BY <1>2, <2>2, EntersWave, RTypeFacts DEF RunningTasks
    <3> QED
      BY <1>2, <2>2, <3>1, StartsInWave
  <2>3. CASE pc = "wave" /\ task[t].status = "RUNNING"
    BY <2>1, <2>3 DEF Done
  <2>4. CASE pc = "wave" /\ task[t].status # "RUNNING"
    <3>1. ~(UNCHANGED task)
      BY <1>2, <2>4
    <3>2. ~WaveDone /\ ~CrashEngine
      BY <1>2 DEF WaveDone, CrashEngine, Crash, Goto
    <3>3. PICK u \in Tasks : BeginTask(u) \/ EndTask(u)
      BY <2>4, <3>1, <3>2, WaveActs DEF vars
    <3>4. CASE u # t
      <4>1. PICK row : Save(u, row)
        BY <3>3 DEF BeginTask, EndTask, StartTask, TaskSucceeds, TaskFails
      <4>2. task'[t] = task[t]
        BY <3>4, <4>1, RTypeFacts DEF Save
      <4> QED
        BY <1>2, <2>4, <4>2
    <3>5. CASE u = t
      <4>1. ~EndTask(t)
        BY <2>4 DEF EndTask, TaskSucceeds, TaskFails
      <4> QED
        BY <1>2, <3>3, <3>5, <4>1 DEF BeginTask
    <3> QED
      BY <3>4, <3>5
  <2> QED
    BY <2>2, <2>3, <2>4
<1> QED
  BY <1>1, <1>2 DEF Done

\* The places of revise(), and how it is left.
LEMMA AtStep == AtOK /\ RNext => AtOK'
BY AtMoves DEF AtOK, Revising, CloseApproval, PublishContract, FindAffected, PublishPlan,
               SaveRevision, RequestRenewal, Move

LEMMA LeavesRevise ==
    ASSUME RNext, at # "none", at' # at
    PROVE  \/ at' = "none" /\ (RevisionRefused \/ PauseRevised \/ GoOn \/ CutRevision)
           \/ CloseApproval \/ PublishContract \/ FindAffected \/ PublishPlan
           \/ SaveRevision \/ RequestRenewal
<1>1. \A i, d : ~Decide(i, d)
  BY DEF Decide, rvars
<1>2. Revise
  BY <1>1 DEF RNext
<1> QED
  BY <1>2 DEF Revise, RevisionRefused, PauseRevised, GoOn, CutRevision, Leave, Invalidate,
              ResetTask, RedefineTask, rvars

\* While it works nobody but an approver does anything else.
LEMMA RevisingAlone ==
    ASSUME RNext, at # "none"
    PROVE  Revise \/ UNCHANGED <<run, task, main, pc, wave, hand, died, rvars>>
BY DEF RNext, Decide, Resolve

LEMMA RevisingRun ==
    ASSUME RType, RNext, at # "none"
    PROVE  run'.status = run.status \/ RevisionRefused \/ PauseRevised \/ GoOn
<1>1. SaveRevision => run'.status = run.status
  BY RTypeFacts DEF SaveRevision
<1> QED
  BY <1>1, RevisingAlone
     DEF Revise, CloseApproval, PublishContract, FindAffected, PublishPlan, SaveRevision,
         RequestRenewal, CutRevision, Invalidate, ResetTask, RedefineTask, vars

-------------------------------------------------------------------------------
(* The versions of an artifact *)

\* Artifacts are marked stale at one place only.
LEMMA InvalidatesThere ==
    ASSUME RNext, NEW i, Invalidate(i)
    PROVE  at = "invalidate" /\ at' = at
BY DEF Invalidate

\* What is current changes with the versions and their staleness.
LEMMA CurrentStays ==
    ASSUME RegistryOK, Extended, NEW name,
           Versions(name)' = Versions(name),
           \A i \in Versions(name) : ~Invalidate(i)
    PROVE  Current(name)' = Current(name)
<1>1. \A i \in Versions(name) :
          i \in DOMAIN arts /\ arts'[i].stale = arts[i].stale /\ arts'[i].version = arts[i].version
  BY DEF Versions, Extended
<1> DEFINE fresh == {i \in Versions(name) : ~arts[i].stale}
           pool == IF fresh = {} THEN Versions(name) ELSE fresh
           last == {i \in pool : \A j \in pool : arts[j].version <= arts[i].version}
<1>2. fresh' = fresh
  BY <1>1
<1>3. pool' = pool
  BY <1>2
<1>4. pool \subseteq Versions(name)
  OBVIOUS
<1>5. last' = last
  <2>1. last' = {i \in pool' : \A j \in pool' : arts'[j].version <= arts'[i].version}
    OBVIOUS
  <2> HIDE DEF pool
  <2> QED
    BY <1>1, <1>3, <1>4, <2>1
<1>6. Current(name) = IF pool = {} THEN 0 ELSE Min(last)
  BY DEF Current
<1>7. Current(name)' = IF pool' = {} THEN 0 ELSE Min(last')
  BY DEF Current
<1> HIDE DEF pool, last
<1> QED
  BY <1>3, <1>5, <1>6, <1>7

\* Only normalization and revisions publish a contract.
LEMMA ContractMoves ==
    ASSUME RevisionReaches, RType, RegistryOK, RNext, ~PublishContract, ~PublishOutput("normalize")
    PROVE  Versions(Contract)' = Versions(Contract)
<1>0. RegistryOK' /\ Extended
  BY RegistryStep
<1>1. ASSUME NEW i \in DOMAIN arts' \ DOMAIN arts
      PROVE  arts'[i].name # Contract
  <2>1. CASE MadeByRevision(i)
    BY <2>1, RevisionAssumption DEF MadeByRevision
  <2>2. ASSUME NEW t \in Tasks, MadeBy(t, i)
        PROVE  arts'[i].name # Contract
    BY <2>2 DEF MadeBy, RevisionReaches
  <2> QED
    BY <1>1, <2>1, <2>2, RegistryStep
<1> QED
  BY <1>0, <1>1 DEF Versions, Extended

\* A contract that is published again leaves none of the older ones current.
LEMMA ContractStays ==
    ASSUME RevisionReaches, RType, RegistryOK, RNext, ~PublishContract, ~PublishOutput("normalize"),
           at # "invalidate"
    PROVE  Current(Contract)' = Current(Contract)
BY ContractMoves, CurrentStays, RegistryStep, InvalidatesThere

\* The next version of an artifact.
LEMMA NextVersion ==
    ASSUME RType, RegistryOK, RNext, NEW i \in DOMAIN arts' \ DOMAIN arts,
           arts'[i].name \notin {"requirement", "plan", Contract}
    PROVE  LET c == Current(arts'[i].name) IN
           /\ i = Len(arts) + 1 /\ Len(arts') = Len(arts) + 1
           /\ arts'[i].version = 1 + (IF c = 0 THEN 0 ELSE arts[c].version)
<1>1. PICK t \in Tasks : MadeBy(t, i)
  BY RegistryStep DEF MadeByRevision
<1>2. t # "normalize" /\ PublishOutput(t) /\ Produces[t] # "" /\ arts'[i].name = Produces[t]
  BY <1>1 DEF MadeBy
<1> DEFINE content == IF t \in SameEachTime THEN 0 ELSE plan'.version
<1>3. Publish(Produces[t], Reads[t], t, content)
  BY <1>2 DEF PublishOutput
<1>4. RegistryOK' /\ plan' \in [replans : Nat, applied : BOOLEAN, version : Nat]
  BY RegistryStep DEF RegistryOK
<1>5. content \in Nat /\ Produces[t] \in ArtifactNames
  BY <1>4 DEF ArtifactNames
<1> HIDE DEF content
<1>6. /\ Len(arts') = Len(arts) + 1
      /\ arts'[Len(arts) + 1] = Artifact(Produces[t], Reads[t], t, content)
  BY <1>3, <1>4, <1>5, PublishKeeps
<1>7. DOMAIN arts = 1..Len(arts) /\ DOMAIN arts' = 1..Len(arts') /\ Len(arts) \in Nat
  BY <1>4, RegistryFacts DEF RegistryOK
<1>8. i = Len(arts) + 1
  BY <1>6, <1>7
<1> DEFINE c == Current(Produces[t])
<1>9. PICK row : row = Artifact(Produces[t], Reads[t], t, content)
  OBVIOUS
<1>10. row.version = 1 + (IF c = 0 THEN 0 ELSE arts[c].version)
  BY <1>9 DEF Artifact
<1> HIDE DEF c
<1>11. arts'[i].version = 1 + (IF c = 0 THEN 0 ELSE arts[c].version)
  BY <1>6, <1>8, <1>9, <1>10
<1> QED
  BY <1>2, <1>6, <1>8, <1>11 DEF c

LEMMA FreshStep ==
    ASSUME RevisionApart, RType, RegistryOK, FreshInOrder, RNext
    PROVE  FreshInOrder'
<1> SUFFICES ASSUME NEW t \in Downstream, NEW i \in Versions(Produces[t])',
                    NEW j \in Versions(Produces[t])', i < j, ~arts'[i].stale, ~arts'[j].stale
             PROVE  arts'[i].version < arts'[j].version
  BY DEF FreshInOrder
<1>0. RegistryOK' /\ Extended
  BY RegistryStep
<1>1. /\ i \in DOMAIN arts' /\ arts'[i].name = Produces[t]
      /\ j \in DOMAIN arts' /\ arts'[j].name = Produces[t]
  BY DEF Versions
<1>2. Produces[t] \notin {"requirement", "plan", Contract}
  BY DEF RevisionApart
<1>3. /\ DOMAIN arts = 1..Len(arts) /\ DOMAIN arts' = 1..Len(arts') /\ Len(arts) \in Nat
  BY <1>0, RegistryFacts DEF RegistryOK
<1>4. ASSUME NEW k \in DOMAIN arts, arts'[k].name = Produces[t], ~arts'[k].stale
      PROVE  k \in Versions(Produces[t]) /\ ~arts[k].stale /\ arts'[k].version = arts[k].version
  BY <1>0, <1>4 DEF Extended, Versions
<1>5. CASE j \in DOMAIN arts
  <2>1. i \in DOMAIN arts
    BY <1>1, <1>3, <1>5
  <2> QED
    BY <1>1, <1>4, <1>5, <2>1 DEF FreshInOrder
<1>6. CASE j \notin DOMAIN arts
  <2> DEFINE c == Current(Produces[t])
  <2>1. /\ j = Len(arts) + 1
        /\ arts'[j].version = 1 + (IF c = 0 THEN 0 ELSE arts[c].version)
    BY <1>1, <1>2, <1>6, NextVersion
  <2>2. i \in DOMAIN arts
    BY <1>1, <1>3, <2>1
  <2>3. i \in Versions(Produces[t]) /\ ~arts[i].stale /\ arts'[i].version = arts[i].version
    BY <1>1, <1>4, <2>2
  <2>4. c \in 1..Len(arts) /\ arts[i].version <= arts[c].version
    BY <2>3, CurrentOf
  <2>5. arts[i].version \in Nat /\ arts[c].version \in Nat /\ c # 0
    BY <1>3, <2>2, <2>4, RegistryFacts DEF ArtifactRow
  <2> HIDE DEF c
  <2> QED
    BY <2>1, <2>3, <2>4, <2>5
<1> QED
  BY <1>5, <1>6

LEMMA SeenStep ==
    ASSUME RType, RegistryOK, MemoryOK, SeenStale, RNext
    PROVE  SeenStale'
<1> SUFFICES ASSUME NEW i \in mem'.seen
             PROVE  arts'[i].stale
  BY DEF SeenStale
<1>0. mem \in [seen : SUBSET DOMAIN arts, names : SUBSET ArtifactNames,
               affected : SUBSET Tasks, asked : Nat]
  BY DEF MemoryOK
<1>1. CASE i \in mem.seen
  BY <1>0, <1>1, RegistryStep DEF SeenStale, Extended
<1>2. CASE i \notin mem.seen
  <2>1. mem' # mem /\ ~Leave
    BY <1>2 DEF Leave, Nothing
  <2>2. ~RequestRenewal
    <3>1. ASSUME RequestRenewal PROVE FALSE
      <4>1. PICK n : mem' = [mem EXCEPT !.asked = n]
        BY <3>1 DEF RequestRenewal
      <4> QED
        BY <1>0, <1>2, <4>1
    <3> QED
      BY <3>1
  <2>3. ~FindAffected
    <3>1. ASSUME FindAffected PROVE FALSE
      <4>1. PICK S : mem' = [mem EXCEPT !.affected = S]
        BY <3>1 DEF FindAffected
      <4> QED
        BY <1>0, <1>2, <4>1
    <3> QED
      BY <3>1
  <2>4. PICK j \in DOMAIN arts : Invalidate(j)
    BY <2>1, <2>2, <2>3
       DEF RNext, Tick, OperatorRevises, EndPass, ConsumeCurrent, ConsumeStale, ClearTaskGate,
           ClearRevision, BeginTask, EndTask, Ask, CrashEngine, Revise, RevisionRefused,
           CloseApproval, SaveRevision, PauseRevised, GoOn, PublishOutput,
           PublishContract, PublishPlan, CutRevision, ResetTask, RedefineTask, Decide, rvars
  <2>5. i = j
    BY <1>2, <2>4, InvalidMemory
  <2> QED
    BY <2>4, <2>5, InvalidRows
<1> QED
  BY <1>1, <1>2

LEMMA EndedStep ==
    ASSUME RType, MemoryOK, RegistryOK, EndedSeen, RNext
    PROVE  EndedSeen'
<1> SUFFICES ASSUME at' \notin {"none", "close"}, run'.status \in Terminal
             PROVE  "ended" \in met'
  BY DEF EndedSeen
<1>1. CASE at \in {"none", "close"}
  <2>1. CloseApproval
    BY <1>1, AtMoves DEF PublishContract, FindAffected, PublishPlan, SaveRevision,
                         RequestRenewal, Move
  <2> QED
    BY <2>1 DEF CloseApproval, RunState
<1>2. CASE at \notin {"none", "close"}
  <2>1. run'.status = run.status
    BY <1>2, RevisingRun DEF RevisionRefused, PauseRevised, GoOn, Leave
  <2> QED
    BY <1>2, <2>1, PlanMoves DEF EndedSeen
<1> QED
  BY <1>1, <1>2

LEMMA ContractStep ==
    ASSUME RType, RegistryOK, ContractPublished, RNext
    PROVE  ContractPublished'
<1> SUFFICES ASSUME "normalize" \in told' \/ task'["normalize"].status = "SUCCEEDED"
             PROVE  Versions(Contract)' # {}
  BY DEF ContractPublished
<1>0. PICK t \in Tasks : t = "normalize"
  BY DEF Tasks, Bootstrap
<1>1. CASE t \in told \/ task[t].status = "SUCCEEDED"
  BY <1>0, <1>1, VersionsGrow DEF ContractPublished
<1>2. CASE PublishOutput(t)
  <2>1. plan' \in [replans : Nat, applied : BOOLEAN, version : Nat]
    BY RegistryStep DEF RegistryOK
  <2>2. /\ RegistryOK' /\ Len(arts') = Len(arts) + 2
        /\ arts'[Len(arts) + 2].name = Contract
    BY <1>0, <1>2, <2>1, PublishTwice DEF PublishOutput
  <2>3. Len(arts) + 2 \in DOMAIN arts'
    BY <2>2, RegistryFacts DEF RegistryOK
  <2> QED
    BY <2>2, <2>3 DEF Versions
<1>3. t \in told' => t \in told \/ PublishOutput(t)
  BY ToldMoves
<1>4. task'[t].status = "SUCCEEDED" => t \in told \/ task[t].status = "SUCCEEDED"
  BY SuccessIsTold
<1> QED
  BY <1>0, <1>1, <1>2, <1>3, <1>4

-------------------------------------------------------------------------------
(* What is done rests on what is done *)

\* The rows are in order, as the engine alone would leave them.
Ordered ==
    /\ AllOrNone /\ E!DependenciesKnown /\ E!RowsOfAnAdoptedPlan
    /\ DependenciesHold /\ AffectedOK

LEMMA OrderedStep ==
    ASSUME ReachOK, ReachOK', E!RepairRows, PlanPublished, PlannedOnce', Ordered, RNext, ~Lost'
    PROVE  Ordered'
<1>1. RType /\ ~Disordered'
  BY DEF ReachOK, TypesOK, Lost, Disordered, ReviseWindow
<1>2. AllOrNone' /\ E!DependenciesKnown' /\ E!RowsOfAnAdoptedPlan'
  BY <1>1, AllStep, DependenciesKnownStep, PlanRowsStep DEF Ordered
<1>3. DependenciesHold' /\ AffectedOK'
  BY <1>1, DependenciesHoldStep, AffectedOKStep DEF Ordered
<1> QED
  BY <1>2, <1>3 DEF Ordered

\* What a finished task waits for, whatever the revisions, is finished too,
\* also outside a set that has all the tasks that depend on its members.
LEMMA LeadsOutside ==
    ASSUME PlanShaped, RType, E!RowsOfAnAdoptedPlan, NEW A \in SUBSET PlanTasks,
           \A x \in Tasks \ A : task[x].status = "SUCCEEDED" =>
               \A d \in task[x].deps : task[d].status = "SUCCEEDED" /\ d \notin A,
           NEW t \in Bootstrap \cup PlanTasks, NEW u \in Bootstrap \cup PlanTasks,
           task[u].status = "SUCCEEDED", u \notin A, LeadsAnyway(t, u)
    PROVE  task[t].status = "SUCCEEDED" /\ t \notin A
<1> DEFINE S == {x \in Bootstrap \cup PlanTasks : task[x].status = "SUCCEEDED" /\ x \notin A}
<1>0. Bootstrap \cup PlanTasks \subseteq Tasks
  BY DEF Tasks
<1>1. ASSUME NEW x \in S
      PROVE  WaitsAnyway(x) \subseteq S
  <2>1. \A d \in task[x].deps : task[d].status = "SUCCEEDED" /\ d \notin A
    BY <1>0, <1>1
  <2>2. CASE x \in Bootstrap
    <3>1. task[x].deps = BootstrapDeps[x]
      BY <1>0, <1>1, <2>2 DEF PlanShaped
    <3>2. BootstrapDeps[x] \subseteq Bootstrap
      BY <2>2 DEF Bootstrap, BootstrapDeps
    <3> QED
      BY <2>1, <2>2, <3>1, <3>2 DEF WaitsAnyway
  <2>3. CASE x \notin Bootstrap
    <3>1. x \in PlanTasks
      BY <1>1, <2>3
    <3>2. PlanDeps[x] \cap RevisedDeps[x] \subseteq task[x].deps /\ PlanDeps[x] \subseteq PlanTasks
      BY <1>0, <1>1, <3>1, PlanAssumption DEF PlanShaped
    <3>3. PlanAdopted
      BY <1>1, <3>1, SameRows DEF E!RowsOfAnAdoptedPlan
    <3>4. "create_plan" \in S
      BY <3>3, KindsApart DEF PlanAdopted, Bootstrap
    <3> QED
      BY <2>1, <2>3, <3>2, <3>4 DEF WaitsAnyway
  <2> QED
    BY <2>2, <2>3
<1>2. S \in SUBSET (Bootstrap \cup PlanTasks) /\ u \in S
  OBVIOUS
<1>3. t \in S
  <2> HIDE DEF S
  <2> QED
    BY <1>1, <1>2 DEF LeadsAnyway
<1> QED
  BY <1>3

\* Tasks of the plan have rows when planning and what it rests on are done.
LEMMA PlanRests ==
    ASSUME PlanShaped, RType, E!DependenciesFirst, E!RowsOfAnAdoptedPlan,
           NEW t \in PlanTasks, task[t].status # "ABSENT"
    PROVE  task["normalize"].status = "SUCCEEDED"
<1>1. \A x \in Bootstrap : x \in Tasks
  BY DEF Tasks
<1>2. "create_plan" \in Bootstrap /\ "analyze" \in Bootstrap
  BY DEF Bootstrap
<1>3. task["create_plan"].status = "SUCCEEDED"
  BY SameRows DEF E!RowsOfAnAdoptedPlan, PlanAdopted
<1>4. task["analyze"].status = "SUCCEEDED"
  <2>1. task["create_plan"].deps = {"analyze"}
    BY <1>1, <1>2, <1>3 DEF PlanShaped, BootstrapDeps
  <2> QED
    BY <1>1, <1>2, <1>3, <2>1, SameNames DEF E!DependenciesFirst
<1>5. task["analyze"].deps = {"normalize"}
  BY <1>1, <1>2, <1>4 DEF PlanShaped, BootstrapDeps
<1> QED
  BY <1>1, <1>2, <1>4, <1>5, SameNames DEF E!DependenciesFirst

-------------------------------------------------------------------------------
(* Work that rests on the contract *)

\* While there is a row of the plan, the contract is published and stays.
LEMMA ContractThere ==
    ASSUME RevisionReaches, ReachOK, Ordered, ContractPublished, RNext,
           at \in {"none", "close", "publish"}, ~PublishContract,
           NEW t \in PlanTasks, task[t].status # "ABSENT"
    PROVE  /\ Current(Contract) \in 1..Len(arts) /\ Current(Contract) \in Versions(Contract)
           /\ Current(Contract)' = Current(Contract)
           /\ Versions(Contract)' = Versions(Contract)
<1> USE DEF ReachOK, TypesOK
<1>1. task["normalize"].status = "SUCCEEDED"
  BY PlanRests DEF Ordered, DependenciesHold
<1>2. Versions(Contract) # {}
  BY <1>1 DEF ContractPublished
<1>3. ~PublishOutput("normalize")
  BY <1>1 DEF PublishOutput
<1> QED
  BY <1>2, <1>3, CurrentOf, ContractMoves, ContractStays

LEMMA LastRow ==
    ASSUME RegistryOK, RegistryOK', Len(arts') = Len(arts) + 1
    PROVE  \E n \in DOMAIN arts' \ DOMAIN arts : \A i \in 1..Len(arts) : n > i /\ i # 0
<1>1. DOMAIN arts = 1..Len(arts) /\ DOMAIN arts' = 1..Len(arts') /\ Len(arts) \in Nat
  <2> HIDE DEF ArtifactRow
  <2> QED
    BY RegistryFacts DEF RegistryOK
<1>2. Len(arts) + 1 \in DOMAIN arts' \ DOMAIN arts /\ \A i \in 1..Len(arts) : Len(arts) + 1 > i /\ i # 0
  BY <1>1
<1> QED
  BY <1>1, <1>2

\* What a task publishes comes after everything else.
LEMMA PublishedLast ==
    ASSUME RType, RegistryOK, NEW t \in Tasks, t # "normalize", PublishOutput(t), Produces[t] # ""
    PROVE  \E n \in DOMAIN arts' \ DOMAIN arts : \A i \in 1..Len(arts) : n > i /\ i # 0
<1> DEFINE content == IF t \in SameEachTime THEN 0 ELSE plan'.version
<1>1. Publish(Produces[t], Reads[t], t, content)
  BY DEF PublishOutput
<1>2. RegistryOK' /\ plan' \in [replans : Nat, applied : BOOLEAN, version : Nat]
  BY OutputRows DEF RegistryOK
<1>3. content \in Nat /\ Produces[t] \in ArtifactNames
  BY <1>2 DEF ArtifactNames
<1> HIDE DEF content
<1>4. Len(arts') = Len(arts) + 1
  BY <1>1, <1>2, <1>3, PublishKeeps
<1> QED
  BY <1>2, <1>4, LastRow

\* What a task that rests on the contract publishes is fresh, and names it.
LEMMA OutputIsFresh ==
    ASSUME RevisionReaches, RevisionApart, ReachOK, Ordered, ContractPublished, RNext,
           NEW t \in Downstream, PublishOutput(t)
    PROVE  /\ Produces[t] # "" => Fresh(t)'
           /\ t \in Roots => Traced(t, {})'
<1> USE DEF ReachOK, TypesOK
<1> SUFFICES ASSUME Produces[t] # ""
             PROVE  Fresh(t)' /\ (t \in Roots => Traced(t, {})')
  BY DEF Roots
<1>1. t \in PlanTasks /\ t \in Tasks /\ t # "normalize"
  BY DownstreamClosed, KindsApart DEF Tasks, Bootstrap
<1>2. task[t].status = "RUNNING" /\ pc = "wave" /\ at = "none"
  BY DEF PublishOutput, RType, Frozen
<1>3. /\ Current(Contract) \in 1..Len(arts) /\ Current(Contract) \in Versions(Contract)
      /\ Current(Contract)' = Current(Contract)
  <2>1. ~PublishContract
    BY <1>2 DEF PublishContract, Move
  <2> QED
    BY <1>1, <1>2, <2>1, ContractThere
<1>5. Extended
  BY RegistryStep
<1>9. PICK n \in DOMAIN arts' \ DOMAIN arts : n > Current(Contract) /\ Current(Contract) # 0
  BY <1>1, <1>3, PublishedLast
<1>10. MadeBy(t, n) /\ ~arts'[n].stale
  BY <1>1, <1>9, OutputRows
<1>11. /\ arts'[n].by = t /\ arts'[n].name = Produces[t]
       /\ arts'[n].parents = {Current(p) : p \in Reads[t]} \ {0}
  BY <1>1, <1>10 DEF MadeBy
<1>12. Fresh(t)'
  <2>1. n \in Versions(Produces[t])'
    BY <1>9, <1>11 DEF Versions
  <2>2. n > Current(Contract)'
    BY <1>3, <1>9
  <2> QED
    BY <1>10, <2>1, <2>2 DEF Fresh
<1>13. ASSUME t \in Roots
       PROVE  Traced(t, {})'
  <2> DEFINE c == Current(Contract)
  <2>1. c \in arts'[n].parents
    <3>1. Contract \in Reads[t]
      BY <1>13 DEF Roots
    <3>2. c # 0
      BY <1>9
    <3> QED
      BY <1>11, <3>1, <3>2
  <2>2. c \in DOMAIN arts /\ arts[c].name = Contract
    BY <1>3 DEF Versions
  <2>3. arts'[c].name = Contract
    BY <1>5, <2>2 DEF Extended
  <2>4. \E p \in arts'[n].parents : arts'[p].name = Contract
    BY <2>1, <2>3
  <2>5. n \in DOMAIN arts' /\ arts'[n].by = t /\ ~arts'[n].stale
    BY <1>9, <1>10, <1>11
  <2> QED
    BY <2>4, <2>5 DEF Traced
<1> QED
  BY <1>12, <1>13

\* Until a revision goes to work, what is fresh stays so.
LEMMA FreshStays ==
    ASSUME RevisionReaches, ReachOK, Ordered, ContractPublished, RNext,
           at \in {"none", "close", "publish"}, ~PublishContract,
           NEW t \in Downstream, Done(t), Fresh(t)
    PROVE  Fresh(t)'
<1> USE DEF ReachOK, TypesOK
<1>1. t \in PlanTasks /\ task[t].status # "ABSENT"
  BY DownstreamClosed DEF Done
<1>2. Current(Contract)' = Current(Contract)
  BY <1>1, ContractThere
<1>3. PICK i \in Versions(Produces[t]) : i > Current(Contract) /\ ~arts[i].stale
  BY DEF Fresh
<1>4. i \in Versions(Produces[t])' /\ ~arts'[i].stale
  BY <1>3, RegistryStep, InvalidatesThere DEF Extended, Versions
<1> QED
  BY <1>2, <1>3, <1>4 DEF Fresh

\* What was made from the contract stays that, and is found when it is marked.
LEMMA TracedStays ==
    ASSUME ReachOK, RNext, NEW t \in Tasks, NEW names, NEW more, names \subseteq more,
           \A i \in DOMAIN arts : Invalidate(i) /\ ~arts[i].stale /\ arts[i].name # Contract
               => arts[i].name \in more,
           t \notin {"normalize"}, Produces[t] # Contract,
           Traced(t, names)
    PROVE  Traced(t, more)'
<1> USE DEF ReachOK, TypesOK
<1>1. PICK i \in DOMAIN arts :
          /\ arts[i].by = t
          /\ \E p \in arts[i].parents : arts[p].name = Contract
          /\ arts[i].stale => arts[i].name \in names
  BY DEF Traced
<1>2. arts[i].name # Contract
  BY <1>1, RevisionAssumption DEF ArtifactsSigned
<1>3. PICK p \in arts[i].parents : arts[p].name = Contract
  BY <1>1
<1>4. p \in DOMAIN arts
  BY <1>3, RegistryFacts
<1>5. /\ i \in DOMAIN arts' /\ arts'[i].by = t /\ p \in arts'[i].parents
      /\ arts'[p].name = Contract /\ arts'[i].name = arts[i].name
  BY <1>1, <1>3, <1>4, RegistryStep DEF Extended
<1>6. arts'[i].stale => arts[i].name \in more
  BY <1>1, <1>2, RegistryStep DEF Extended
<1> QED
  BY <1>5, <1>6 DEF Traced

LEMMA RootsDepend ==
    ASSUME NEW roots \in SUBSET Tasks
    PROVE  roots \subseteq Dependents(roots)
BY DEF Dependents

\* Outside a wave a task is done when it has succeeded.
LEMMA DoneOutside ==
    ASSUME RType, at # "none", NEW t \in Tasks
    PROVE  Done(t) <=> task[t].status = "SUCCEEDED"
BY DEF Done, RType, Frozen

\* Outside revise(), and up to the contract it publishes.
LEMMA CurrentWork ==
    ASSUME RevisionReaches, RevisionApart, ReachOK, ReachOK', AtOK, Ordered, ContractPublished,
           WorkTraced, RNext, ~Lost', at' \in {"none", "close", "publish"},
           NEW t \in Downstream, Done(t)'
    PROVE  (Produces[t] # "" => Fresh(t)') /\ (t \in Roots => Traced(t, {})')
<1>0. RType /\ RType' /\ t \in Tasks /\ t # "normalize" /\ Produces[t] # Contract
  <2>1. t \in PlanTasks /\ "normalize" \in Bootstrap
    BY DownstreamClosed DEF Bootstrap
  <2> QED
    BY <2>1, KindsApart DEF ReachOK, TypesOK, Tasks, RevisionApart
<1>1. CASE at \in {"none", "close", "publish"}
  <2>1. ~PublishContract
    BY DEF PublishContract, Move
  <2>2. CASE PublishOutput(t)
    BY <2>2, OutputIsFresh
  <2>3. CASE Done(t)
    <3>1. (Produces[t] # "" => Fresh(t)) /\ (t \in Roots => Traced(t, {}))
      BY <1>1, <2>3 DEF WorkTraced
    <3>2. Produces[t] # "" => Fresh(t)'
      BY <1>1, <2>1, <2>3, <3>1, FreshStays
    <3>3. \A i \in DOMAIN arts : ~Invalidate(i)
      BY <1>1, InvalidatesThere
    <3>4. t \in Roots => Traced(t, {})'
      BY <1>0, <3>1, <3>3, TracedStays
    <3> QED
      BY <3>2, <3>4
  <2> QED
    BY <1>0, <2>2, <2>3, DoneMoves
<1>2. CASE at \notin {"none", "close", "publish"}
  <2>1. at' = "none" /\ (PauseRevised \/ GoOn \/ CutRevision)
    BY <1>2, LeavesRevise DEF CloseApproval, PublishContract, FindAffected, PublishPlan,
                              SaveRevision, RequestRenewal, Move, RevisionRefused
  <2>2. UNCHANGED <<task, told>> /\ pc' # "wave"
    BY <1>0, <1>2, <2>1 DEF PauseRevised, GoOn, CutRevision, RType, Frozen
  <2>3. Done(t)
    BY <2>2 DEF Done
  <2>4. at \notin {"redefine", "request", "pause"}
    BY <2>3 DEF WorkTraced
  <2>5. CutRevision
    BY <2>1, <2>4 DEF PauseRevised, GoOn
  <2>6. at \in ReviseWindow
    BY <1>2, <2>4 DEF AtOK, Revising, ReviseWindow
  <2> QED
    BY <2>5, <2>6 DEF CutRevision, Lost
<1> QED
  BY <1>1, <1>2

\* While revise() looks for what was made from the older versions.
LEMMA WorkFound ==
    ASSUME RevisionApart, ReachOK, ReachOK', WorkTraced, RNext, at' = "invalidate",
           NEW t \in Roots, Done(t)'
    PROVE  Traced(t, mem.names)'
<1>0. RType /\ RType' /\ RegistryOK /\ MemoryOK
  BY DEF ReachOK, TypesOK
<1>1. t \in Downstream /\ t \in Tasks /\ t # "normalize" /\ Produces[t] # Contract
  <2>1. t \in Downstream /\ t \in PlanTasks /\ "normalize" \in Bootstrap
    BY DownstreamClosed DEF Bootstrap, Roots
  <2> QED
    BY <2>1, KindsApart DEF Tasks, RevisionApart
<1>2. at = "invalidate" \/ PublishContract
  BY AtMoves DEF CloseApproval, FindAffected, PublishPlan, SaveRevision, RequestRenewal, Move
<1>3. at \in {"publish", "invalidate"}
  BY <1>2 DEF PublishContract, Move
<1>4. Done(t)
  <2>1. UNCHANGED task
    BY <1>0, <1>3, RevisingRows
  <2>2. task'[t].status = "SUCCEEDED"
    BY <1>0 DEF Done, RType, Frozen
  <2> QED
    BY <2>1, <2>2 DEF Done
<1>5. PICK more : more = mem'.names
  OBVIOUS
<1>6. CASE at = "publish"
  <2>1. Traced(t, {})
    BY <1>1, <1>4, <1>6 DEF WorkTraced
  <2>2. \A i \in DOMAIN arts : ~Invalidate(i)
    BY <1>6, InvalidatesThere
  <2>3. Traced(t, more)'
    BY <1>1, <2>1, <2>2, TracedStays
  <2> QED
    BY <1>5, <2>3 DEF Traced
<1>7. CASE at = "invalidate"
  <2>1. PICK names : names = mem.names
    OBVIOUS
  <2>2. Traced(t, names)
    BY <1>4, <1>7, <2>1 DEF WorkTraced
  <2>3. mem \in [seen : SUBSET DOMAIN arts, names : SUBSET ArtifactNames,
                 affected : SUBSET Tasks, asked : Nat]
    BY <1>0 DEF MemoryOK
  <2>4. ASSUME NEW i \in DOMAIN arts, Invalidate(i)
        PROVE  /\ names \subseteq more
               /\ ~arts[i].stale /\ arts[i].name # Contract => arts[i].name \in more
    BY <1>5, <2>1, <2>3, <2>4 DEF Invalidate
  <2>5. names \subseteq more
    <3>1. mem' = mem \/ \E i \in DOMAIN arts : Invalidate(i)
      BY <1>7, RevisingAlone
         DEF Revise, RevisionRefused, CloseApproval, PublishContract, FindAffected, PublishPlan,
             SaveRevision, RequestRenewal, PauseRevised, GoOn, CutRevision, Leave, Move,
             ResetTask, RedefineTask, rvars
    <3> QED
      BY <1>5, <2>1, <2>4, <3>1
  <2>6. Traced(t, more)'
    BY <1>1, <2>2, <2>4, <2>5, TracedStays
  <2> QED
    BY <1>5, <2>6 DEF Traced
<1> QED
  BY <1>3, <1>6, <1>7

\* What was made from the contract by a task that is done is found.
LEMMA FoundAffected ==
    ASSUME RevisionReaches, ReachOK, Ordered, SeenStale, WorkTraced, RNext, FindAffected,
           NEW t \in Downstream, task[t].status = "SUCCEEDED"
    PROVE  t \in Dependents(Producers)
<1>0. RType /\ RegistryOK /\ at = "invalidate"
  BY DEF ReachOK, TypesOK, FindAffected, Move
<1>1. Producers \in SUBSET Tasks
  BY DEF Producers
<1>2. PICK A : A = Dependents(Producers)
  OBVIOUS
<1>3. A \subseteq PlanTasks /\ Producers \subseteq A
  BY <1>0, <1>1, <1>2, DependentsRest, DownstreamClosed, RootsDepend DEF ReachOK
<1>4. ASSUME t \notin A PROVE FALSE
  <2>1. PICK r \in Roots : LeadsAnyway(r, t)
    BY DEF RevisionReaches
  <2>2. r \in PlanTasks /\ t \in PlanTasks
    BY DownstreamClosed DEF Roots
  <2>3. ASSUME NEW x \in Tasks \ A, task[x].status = "SUCCEEDED", NEW d \in task[x].deps
        PROVE  task[d].status = "SUCCEEDED" /\ d \notin A
    <3>1. task[d].status = "SUCCEEDED"
      BY <1>0, <2>3, SameNames DEF Ordered, DependenciesHold, E!DependenciesFirst
    <3>2. task[x].deps \cap A = {}
      BY <1>0, <1>1, <1>2, <2>3, DependentsClosed
    <3> QED
      BY <2>3, <3>1, <3>2
  <2>4. task[r].status = "SUCCEEDED" /\ r \notin A
    <3>1. A \in SUBSET PlanTasks /\ r \in Bootstrap \cup PlanTasks /\ t \in Bootstrap \cup PlanTasks
      BY <1>3, <2>2
    <3>2. \A x \in Tasks \ A : task[x].status = "SUCCEEDED" =>
              \A d \in task[x].deps : task[d].status = "SUCCEEDED" /\ d \notin A
      BY <2>3
    <3> QED
      BY <1>0, <1>4, <2>1, <3>1, <3>2, LeadsOutside DEF ReachOK, Ordered
  <2>5. Traced(r, mem.names)
    BY <1>0, <2>4 DEF WorkTraced, Done
  <2>6. PICK i \in DOMAIN arts :
            /\ arts[i].by = r
            /\ \E p \in arts[i].parents : arts[p].name = Contract
            /\ arts[i].stale => arts[i].name \in mem.names
    BY <2>5 DEF Traced
  <2>7. r \in Tasks /\ r \notin {"normalize", "revision"}
    <3>1. "normalize" \in Bootstrap
      BY DEF Bootstrap
    <3> QED
      BY <2>2, <3>1, KindsApart, RevisionAssumption DEF Tasks
  <2>8. arts[i].name # Contract
    <3>1. arts[i].name = Produces[r]
      BY <2>6, <2>7 DEF ReachOK, ArtifactsSigned
    <3> QED
      BY <2>7, <3>1 DEF RevisionReaches
  <2>9. i \in mem.seen
    BY <2>6, <2>8 DEF FindAffected, Children
  <2>10. r \in Producers
    BY <2>4, <2>6, <2>7, <2>9 DEF SeenStale, Producers
  <2> QED
    BY <1>3, <2>4, <2>10
<1> QED
  BY <1>2, <1>4

\* Until all of it is reset.
LEMMA WorkAffected ==
    ASSUME RevisionReaches, ReachOK, ReachOK', Ordered, SeenStale, WorkTraced, RNext,
           at' = "reset", NEW t \in Downstream, Done(t)'
    PROVE  t \in mem'.affected
<1>0. RType /\ RType' /\ RegistryOK /\ MemoryOK /\ t \in Tasks
  BY DownstreamClosed DEF ReachOK, TypesOK, Tasks
<1>1. task'[t].status = "SUCCEEDED"
  BY <1>0 DEF Done, RType, Frozen
<1>2. CASE FindAffected
  <2>1. UNCHANGED task
    BY <1>2 DEF FindAffected, vars
  <2>2. t \in Dependents(Producers)
    BY <1>1, <1>2, <2>1, FoundAffected
  <2>3. PICK A : A = Dependents(Producers)
    OBVIOUS
  <2>4. mem' = [mem EXCEPT !.affected = A]
    BY <1>2, <2>3 DEF FindAffected
  <2> QED
    BY <1>0, <2>2, <2>3, <2>4 DEF MemoryOK
<1>3. CASE at = "reset"
  <2>1. mem'.affected = mem.affected
    BY <1>0, <1>3, MemMoves DEF FindAffected, Move
  <2>2. task[t].status = "SUCCEEDED"
    <3>1. CASE UNCHANGED task
      BY <1>1, <3>1
    <3>2. ASSUME NEW u \in Tasks, ResetTask(u) PROVE task[t].status = "SUCCEEDED"
      BY <1>0, <1>1, <3>2, TouchedRow
    <3> QED
      BY <1>0, <1>3, <3>1, <3>2, RevisingRows
  <2> QED
    BY <1>3, <2>1, <2>2 DEF WorkTraced, Done
<1> QED
  BY <1>2, <1>3, AtMoves DEF CloseApproval, PublishContract, PublishPlan, SaveRevision,
                             RequestRenewal, Move

LEMMA WorkReset ==
    ASSUME ReachOK, ReachOK', WorkTraced, RNext, at' \in {"redefine", "request", "pause"},
           NEW t \in Downstream
    PROVE  ~Done(t)'
<1>0. RType /\ RType' /\ t \in Tasks
  BY DownstreamClosed DEF ReachOK, TypesOK, Tasks
<1> SUFFICES ASSUME task'[t].status = "SUCCEEDED"
             PROVE  FALSE
  BY <1>0 DEF Done, RType, Frozen
<1>1. CASE PublishPlan
  <2>1. at = "reset" /\ task[t].status = "SUCCEEDED"
    BY <1>1 DEF PublishPlan, Move, vars
  <2>2. t \in mem.affected
    BY <2>1 DEF WorkTraced, Done
  <2> QED
    BY <1>1, <2>1, <2>2 DEF PublishPlan, Unreset
<1>2. CASE at \in {"redefine", "request", "pause"}
  <2>1. task[t].status = "SUCCEEDED"
    <3>1. CASE UNCHANGED task
      BY <3>1
    <3>2. ASSUME NEW u \in Tasks, RedefineTask(u) PROVE task[t].status = "SUCCEEDED"
      BY <1>0, <3>2, TouchedRow
    <3> QED
      BY <1>0, <1>2, <3>1, <3>2, RevisingRows
  <2> QED
    BY <1>2, <2>1 DEF WorkTraced, Done
<1> QED
  BY <1>1, <1>2, AtMoves DEF CloseApproval, PublishContract, FindAffected, SaveRevision,
                             RequestRenewal, Move

LEMMA TracedStep ==
    ASSUME RevisionReaches, RevisionApart, ReachOK, ReachOK', AtOK, Ordered, SeenStale,
           ContractPublished, WorkTraced, RNext, ~Lost'
    PROVE  WorkTraced'
BY CurrentWork, WorkFound, WorkAffected, WorkReset DEF WorkTraced

-------------------------------------------------------------------------------
(* The question in hand, and the end of the run *)

\* The approval in question is there, and of a task unless it is a renewal.
LEMMA QuestionThere ==
    ASSUME ReachOK, HoldsOK, InQuestion
    PROVE  /\ E!InHand \in DOMAIN approvals
           /\ approvals[E!InHand].task \in Tasks \cup {"plan.revised"}
<1>1. E!InHand \in DOMAIN approvals
  <2>1. CASE E!Asking
    BY <2>1, RTypeFacts DEF E!Asking, E!InHand, E!PlacesInv, HoldsOK, ReachOK, TypesOK
  <2>2. CASE pc \in {"promote", "promoted", "review"}
    BY <2>2, RTypeFacts DEF E!InHand, E!Resuming, HoldsOK, ReachOK, TypesOK
  <2> QED
    BY <2>1, <2>2 DEF InQuestion
<1>2. approvals[E!InHand] \in ApprovalRow
  <2> HIDE DEF ApprovalRow
  <2> QED
    BY <1>1 DEF ReachOK, TypesOK, RType, ApprovalsOK
<1> QED
  BY <1>1, <1>2 DEF ApprovalRow

\* It stays what it is while the process keeps it and finished tasks stay so.
LEMMA QuestionStays ==
    ASSUME ReachOK, HoldsOK, AskedDone, RNext, at \notin {"reset", "redefine"},
           InQuestion, E!InHand' = E!InHand,
           \A t \in Tasks : task[t].status = "SUCCEEDED" => task'[t].status = "SUCCEEDED"
    PROVE  LET t == approvals'[E!InHand'].task IN
           t = "plan.revised" \/ task'[t].status = "SUCCEEDED"
<1>1. PICK i \in DOMAIN approvals : i = E!InHand /\ approvals[i].task \in Tasks \cup {"plan.revised"}
  BY QuestionThere
<1>2. approvals'[i].task = approvals[i].task
  BY ApprovedStays DEF ReachOK, TypesOK
<1>3. approvals[i].task = "plan.revised" \/ task[approvals[i].task].status = "SUCCEEDED"
  BY <1>1 DEF AskedDone
<1> QED
  BY <1>1, <1>2, <1>3

LEMMA AskedDoneStep ==
    ASSUME ReachOK, HoldsOK, PlanNamed, AskedDone, RNext, ~Lost'
    PROVE  AskedDone'
<1> USE DEF ReachOK, TypesOK
<1> DEFINE Answered == LET t == approvals'[E!InHand'].task IN
                       t = "plan.revised" \/ task'[t].status = "SUCCEEDED"
<1> SUFFICES ASSUME at' \notin {"reset", "redefine"}, InQuestion'
             PROVE  Answered
  BY DEF AskedDone
<1>1. CASE at \in {"reset", "redefine"}
  <2>1. at' # at /\ at # "none"
    BY <1>1
  <2>2. CASE CutRevision
    BY <1>1, <2>2 DEF CutRevision, Lost, ReviseWindow
  <2>3. CASE SaveRevision
    <3>1. pc' = pc /\ pc \in {"idle", "loop"}
      BY <1>1, <2>3 DEF SaveRevision, RType, Frozen
    <3>2. run'.pending = 0
      BY <2>3, RTypeFacts DEF SaveRevision
    <3> QED
      BY <3>1, <3>2 DEF InQuestion, E!Asking
  <2> QED
    BY <1>1, <2>1, <2>2, <2>3, LeavesRevise
       DEF RevisionRefused, PauseRevised, GoOn, CloseApproval, PublishContract, FindAffected,
           PublishPlan, RequestRenewal, Move
<1>2. CASE at \notin {"reset", "redefine"} /\ EngineStep
  <2>1. E!Next /\ E!TypeInv /\ E!WaveOK /\ E!PlacesInv
    BY <1>2, EngineUnderstood DEF RType, HoldsOK
  <2>2. \A t \in Tasks : task[t].status = "SUCCEEDED" => task'[t].status = "SUCCEEDED"
    BY <2>1, SameNames, SameAssumptions, E!SuccessStays
  <2>3. ASSUME NEW u \in E!Tasks, E!RequestApproval(u)
        PROVE  Answered
    <3>1. at = "none"
      BY <2>3 DEF E!RequestApproval, E!NextGate, RType, Frozen
    <3>2. PICK t \in Tasks : Ask(t)
      BY <1>2, <2>3, <3>1, AskActs
    <3>3. /\ task'[t].status = "SUCCEEDED" /\ pc' = "request" /\ hand' = Len(approvals) + 1
          /\ approvals' = Append(approvals, [task |-> t, status |-> "pending"])
      BY <3>2 DEF Ask, RequestApproval, NextGate, IsFirst, Gated
    <3>4. approvals'[Len(approvals) + 1].task = t
      <4> DEFINE row == [task |-> t, status |-> "pending"]
      <4>1. row.task = t /\ approvals' = Append(approvals, row)
        BY <3>3
      <4> HIDE DEF row, ApprovalRow
      <4> QED
        BY <4>1 DEF RType, ApprovalsOK
    <3> QED
      BY <3>3, <3>4 DEF E!InHand
  <2>4. CASE E!Asking /\ E!InHand' = E!InHand
    BY <1>2, <2>2, <2>4, QuestionStays DEF InQuestion
  <2>5. CASE pc' \in {"promote", "promoted", "review"}
    <3>1. pc \in {"approved", "promote", "promoted", "review"} /\ hand' = hand
      BY <2>1, <2>5, SameAssumptions, E!ReleasingMoves
    <3>2. InQuestion /\ E!InHand' = E!InHand
      BY <2>5, <3>1 DEF InQuestion, E!Asking, E!InHand
    <3> QED
      BY <1>2, <2>2, <3>2, QuestionStays
  <2> HIDE DEF Answered
  <2> QED
    BY <2>1, <2>3, <2>4, <2>5, SameAssumptions, E!AskingMoves DEF InQuestion
<1>3. CASE at \notin {"reset", "redefine"} /\ OwnStep
  <2>1. UNCHANGED task
    BY <1>3, OwnMoves DEF RowsTouched, ResetTask, RedefineTask
  <2>2. CASE UNCHANGED vars
    <3>1. InQuestion /\ E!InHand' = E!InHand
      BY <2>2 DEF vars, InQuestion, E!Asking, E!InHand
    <3> QED
      BY <1>3, <2>1, <3>1, QuestionStays
  <2>3. CASE pc \in {"idle", "loop"} /\ pc' \in {"idle", "loop"}
    <3>1. pc' = "idle" /\ run'.status = "awaiting_approval" /\ run'.pending # 0
      BY <2>3 DEF InQuestion, E!Asking
    <3>2. CASE PauseRevised
      <4>1. E!InHand' = mem.asked /\ UNCHANGED approvals /\ Renews(mem.asked)
        BY <3>1, <3>2, RTypeFacts DEF PauseRevised, PlanNamed, E!InHand
      <4> QED
        BY <4>1 DEF Renews
    <3>3. CASE ~PauseRevised
      <4>1. UNCHANGED run
        BY <1>3, <3>1, <3>3, OwnRun DEF MemoryOK
      <4>2. pc = "idle"
        BY <2>3, <3>1, <4>1 DEF HoldsOK, E!PlacesInv, E!ConsumeWindow
      <4>3. InQuestion /\ E!InHand' = E!InHand
        BY <3>1, <4>1, <4>2 DEF InQuestion, E!Asking, E!InHand
      <4> QED
        BY <1>3, <2>1, <4>3, QuestionStays
    <3> QED
      BY <3>2, <3>3
  <2> HIDE DEF Answered
  <2> QED
    BY <1>3, <2>2, <2>3, OwnPlaces DEF InQuestion, E!Asking
<1> HIDE DEF Answered
<1> QED
  BY <1>1, <1>2, <1>3, StepKinds

\* A release that is carried out was asked for when all it waits for was done.
LEMMA ReleasedDone ==
    ASSUME RevisionReaches, ReachOK, HoldsOK, Ordered, AskedDone, pc \in {"promoted", "review"},
           NEW t \in Downstream
    PROVE  task[t].status = "SUCCEEDED"
<1> USE DEF ReachOK, TypesOK
<1>1. at = "none" /\ InQuestion /\ E!InHand = hand
  BY DEF RType, Frozen, InQuestion, E!InHand
<1>2. PICK r : r = approvals[hand].task
  OBVIOUS
<1>3. hand \in DOMAIN approvals /\ r \in Tasks \cup {"plan.revised"}
  BY <1>1, <1>2, QuestionThere
<1>4. r \in ReleaseTasks
  <2>1. understood[hand].task \in ReleaseTasks
    BY DEF HoldsOK, E!Resuming
  <2>2. "create_plan" \notin ReleaseTasks
    BY PlanAssumption, KindsApart DEF Bootstrap
  <2> QED
    BY <1>2, <1>3, <2>1, <2>2 DEF understood, Understood
<1>5. r \in PlanTasks /\ t \in PlanTasks /\ r \in Tasks
  BY <1>4, PlanAssumption, DownstreamClosed DEF Tasks
<1>6. task[r].status = "SUCCEEDED"
  BY <1>1, <1>2, <1>5, RevisionAssumption DEF AskedDone
<1>7. LeadsAnyway(t, r)
  BY <1>4 DEF RevisionReaches
<1>8. \A x \in Tasks \ {} : task[x].status = "SUCCEEDED" =>
          \A d \in task[x].deps : task[d].status = "SUCCEEDED" /\ d \notin {}
  BY <1>1, SameNames DEF Ordered, DependenciesHold, E!DependenciesFirst
<1>9. PICK A \in SUBSET PlanTasks : A = {}
  OBVIOUS
<1> QED
  BY <1>5, <1>6, <1>7, <1>8, <1>9, LeadsOutside DEF Ordered

LEMMA CompletedStep ==
    ASSUME RevisionReaches, ReachOK, ReachOK', HoldsOK, AtOK, EndedSeen, Ordered, AskedDone,
           Completed, RNext, ~Lost'
    PROVE  Completed'
<1> USE DEF ReachOK, TypesOK
<1> SUFFICES ASSUME run'.status \in {"review_ready", "promoted"}, at' \in {"none", "close"},
                    NEW t \in Downstream
             PROVE  task'[t].status \in {"ABSENT", "SUCCEEDED"}
  BY DEF Completed
<1>0. t \in Tasks
  BY DownstreamClosed DEF Tasks
<1>1. CASE at \in {"none", "close"} /\ EngineStep
  <2>1. E!Next /\ E!TypeInv /\ E!PlacesInv
    BY <1>1, EngineUnderstood DEF RType, HoldsOK
  <2>2. CASE run.status \in {"review_ready", "promoted"}
    <3>1. UNCHANGED task
      BY <2>1, <2>2, SameAssumptions, E!TerminalStays DEF E!Terminal
    <3> QED
      BY <1>1, <2>2, <3>1 DEF Completed
  <2>3. CASE E!SavePromoted \/ E!SaveReviewReady
    <3>1. pc \in {"promoted", "review"} /\ UNCHANGED task
      BY <2>3 DEF E!SavePromoted, E!SaveReviewReady
    <3> QED
      BY <3>1, ReleasedDone
  <2>4. CASE E!Finalize
    <3>1. E!TypeInv'
      BY DEF RType
    <3> QED
      BY <1>0, <2>1, <2>4, <3>1, SameNames, SameAssumptions, E!FinalizedRows
  <2> QED
    BY <2>1, <2>2, <2>3, <2>4, SameAssumptions, E!CompletionMoves
<1>2. CASE at \in {"none", "close"} /\ OwnStep
  <2>1. UNCHANGED task
    BY <1>2, OwnMoves DEF RowsTouched, ResetTask, RedefineTask
  <2>2. run'.status = run.status
    <3>1. at # "pause"
      BY <1>2
    <3> QED
      BY <1>2, <3>1, OwnRun
  <2> QED
    BY <1>2, <2>1, <2>2 DEF Completed
<1>3. CASE at \notin {"none", "close"}
  <2>1. ~PauseRevised /\ ~GoOn
    BY RTypeFacts DEF PauseRevised, GoOn
  <2>2. CutRevision
    BY <1>3, <2>1, LeavesRevise
       DEF RevisionRefused, CloseApproval, PublishContract, FindAffected, PublishPlan,
           SaveRevision, RequestRenewal, Move
  <2>3. "ended" \in met
    BY <1>3, <2>2 DEF CutRevision, EndedSeen, Terminal
  <2> QED
    BY <2>2, <2>3 DEF CutRevision, Lost
<1> QED
  BY <1>1, <1>2, <1>3, StepKinds

-------------------------------------------------------------------------------
(* Together *)

\* The strengthening of CompleteMeansCurrent: either one of its exceptions, or
\* all work that rests on the contract is traced.
WorkIsCurrent == Ordered /\ WorkTraced /\ AskedDone /\ Completed

CurrencyOK ==
    /\ RenewalOK /\ HoldsOK /\ PlanPublished
    /\ ContractPublished /\ AtOK /\ FreshInOrder /\ SeenStale /\ EndedSeen
    /\ Lost \/ WorkIsCurrent

LEMMA InitCurrency == RInit => CurrencyOK
<1> SUFFICES ASSUME RInit
             PROVE  CurrencyOK
  OBVIOUS
<1>0. \A t \in Tasks : task[t].status = "ABSENT" /\ task[t].deps = {}
  BY DEF RInit, Init, NoTask, NewTask
<1>1. RenewalOK /\ HoldsOK /\ PlanPublished
  BY InitGates DEF GatesOK
<1>2. ContractPublished
  BY <1>0 DEF ContractPublished, Tasks, Bootstrap, RInit
<1>3. AtOK /\ FreshInOrder /\ SeenStale /\ EndedSeen
  BY DEF RInit, AtOK, FreshInOrder, Versions, SeenStale, EndedSeen, Nothing
<1>4. Ordered
  <2>1. E!OrderInv
    <3>1. understood = <<>>
      BY DEF RInit, Init, understood
    <3>2. E!Init
      BY <3>1, SameNames DEF RInit, Init, E!Init
    <3> QED
      BY <3>2, SameAssumptions, E!InitOrder
  <2>2. AllOrNone /\ AffectedOK
    BY <1>0 DEF RInit, AllOrNone, AffectedOK, Nothing, Tasks
  <2> QED
    BY <2>1, <2>2 DEF RInit, E!OrderInv, E!SafeInv, Ordered, DependenciesHold
<1>5. WorkTraced
  <2>1. \A t \in Downstream : ~Done(t)
    BY <1>0, DownstreamClosed DEF Done, Tasks
  <2> QED
    BY <2>1 DEF WorkTraced, Roots
<1>6. AskedDone /\ Completed
  BY DEF RInit, Init, AskedDone, InQuestion, E!Asking, Completed
<1> QED
  BY <1>1, <1>2, <1>3, <1>4, <1>5, <1>6 DEF CurrencyOK, WorkIsCurrent

LEMMA CurrencyStep ==
    ASSUME RevisionApart, RevisionReaches, CurrencyOK, [RNext]_<<vars, rvars>>
    PROVE  CurrencyOK'
<1> USE DEF CurrencyOK
<1>1. CASE RNext
  <2>1. RenewalOK'
    BY RenewalStep
  <2>2. ReachOK /\ ReachOK' /\ PlannedOnce' /\ PlanNamed /\ RType /\ RType' /\ RegistryOK /\ MemoryOK
    BY <2>1 DEF RenewalOK, ReachOK, TypesOK
  <2>3. HoldsOK' /\ PlanPublished'
    BY <1>1, <2>2, HoldsStep, PublishedStep
  <2>4. ContractPublished' /\ AtOK' /\ FreshInOrder' /\ SeenStale' /\ EndedSeen'
    BY <1>1, <2>2, ContractStep, AtStep, FreshStep, SeenStep, EndedStep
  <2>5. CASE Lost'
    BY <2>1, <2>3, <2>4, <2>5
  <2>6. CASE ~Lost'
    <3>1. Ordered /\ WorkTraced /\ AskedDone /\ Completed
      BY <1>1, <2>2, <2>6, LostStays DEF WorkIsCurrent
    <3>2. E!RepairRows
      BY DEF HoldsOK
    <3>3. Ordered'
      BY <1>1, <2>2, <2>6, <3>1, <3>2, OrderedStep
    <3>4. WorkTraced'
      BY <1>1, <2>2, <2>6, <3>1, TracedStep
    <3>5. AskedDone' /\ Completed'
      BY <1>1, <2>2, <2>6, <3>1, AskedDoneStep, CompletedStep
    <3> QED
      BY <2>1, <2>3, <2>4, <3>3, <3>4, <3>5 DEF WorkIsCurrent
  <2> QED
    BY <2>5, <2>6
<1>2. CASE UNCHANGED <<vars, rvars>>
  <2>1. RenewalOK'
    BY RenewalStep
  <2>2. HoldsOK' /\ PlanPublished'
    BY <1>2 DEF HoldsOK, PlanPublished, Versions, vars, rvars, E!PlacesInv, E!Resuming, E!Holding,
                E!RepairRows, E!RepairsSurvive, E!RepairsCounted, E!DiedIn, E!NextRepair, E!FailedTasks,
                E!IsFirst, E!Present, understood
  <2>3. ContractPublished' /\ AtOK' /\ FreshInOrder' /\ SeenStale' /\ EndedSeen'
    BY <1>2 DEF ContractPublished, AtOK, FreshInOrder, SeenStale, EndedSeen, Versions, vars, rvars
  <2>4. Lost => Lost'
    BY <1>2 DEF Lost, rvars
  <2>5. Ordered => Ordered'
    <3>1. AllOrNone /\ AffectedOK => AllOrNone' /\ AffectedOK'
      BY <1>2 DEF AllOrNone, AffectedOK, OldPlan, Versions, vars, rvars
    <3>2. DependenciesHold => DependenciesHold'
      BY <1>2 DEF DependenciesHold, E!DependenciesFirst, vars, rvars
    <3>3. E!DependenciesKnown /\ E!RowsOfAnAdoptedPlan
            => E!DependenciesKnown' /\ E!RowsOfAnAdoptedPlan'
      BY <1>2 DEF E!DependenciesKnown, E!RowsOfAnAdoptedPlan, E!PlanAdopted, E!Present, vars
    <3> QED
      BY <3>1, <3>2, <3>3 DEF Ordered
  <2>6. WorkTraced => WorkTraced'
    <3>1. \A name : Versions(name)' = Versions(name) /\ Current(name)' = Current(name)
      BY <1>2 DEF Versions, Current, rvars
    <3>2. \A t : (Done(t)' <=> Done(t)) /\ (Fresh(t)' <=> Fresh(t))
      BY <1>2, <3>1 DEF Done, Fresh, vars, rvars
    <3>3. \A t, names : Traced(t, names)' <=> Traced(t, names)
      BY <1>2 DEF Traced, rvars
    <3> QED
      BY <1>2, <3>2, <3>3 DEF WorkTraced, rvars
  <2>7. AskedDone /\ Completed => AskedDone' /\ Completed'
    BY <1>2 DEF AskedDone, Completed, InQuestion, E!Asking, E!InHand, vars, rvars
  <2> QED
    BY <2>1, <2>2, <2>3, <2>4, <2>5, <2>6, <2>7 DEF WorkIsCurrent
<1> QED
  BY <1>1, <1>2

LEMMA AlwaysCurrency ==
    ASSUME RevisionApart, RevisionReaches
    PROVE  RSpec => []CurrencyOK
<1>1. CurrencyOK /\ [RNext]_<<vars, rvars>> => CurrencyOK'
  BY CurrencyStep
<1> QED
  BY <1>1, InitCurrency, PTL DEF RSpec

\* What was published last among the fresh is current.
LEMMA FreshIsCurrent ==
    ASSUME RegistryOK, FreshInOrder, NEW t \in Downstream, Fresh(t)
    PROVE  LET i == Current(Produces[t]) IN i > Current(Contract) /\ ~arts[i].stale
<1>1. PICK i \in Versions(Produces[t]) : i > Current(Contract) /\ ~arts[i].stale
  BY DEF Fresh
<1>2. PICK c : c = Current(Produces[t])
  OBVIOUS
<1>3. c \in Versions(Produces[t]) /\ ~arts[c].stale /\ arts[i].version <= arts[c].version
  BY <1>1, <1>2, CurrentOf
<1> QED
  BY <1>1, <1>2, <1>3, RegistryFacts, CurrentOf DEF FreshInOrder, Versions, ArtifactRow

LEMMA CurrencyImplies == CurrencyOK => CompleteMeansCurrent
<1> SUFFICES ASSUME CurrencyOK, run.status \in {"review_ready", "promoted"}, at = "none", ~Lost,
                    NEW t \in Downstream, task[t].status # "ABSENT", Produces[t] # ""
             PROVE  LET i == Current(Produces[t]) IN i > Current(Contract) /\ ~arts[i].stale
  BY DEF CompleteMeansCurrent, Lost
<1>1. WorkTraced /\ Completed /\ RegistryOK /\ FreshInOrder
  BY DEF CurrencyOK, WorkIsCurrent, RenewalOK, ReachOK, TypesOK
<1>2. Done(t)
  BY <1>1 DEF Completed, Done
<1>3. Fresh(t)
  BY <1>1, <1>2 DEF WorkTraced
<1> QED
  BY <1>1, <1>3, FreshIsCurrent

\* A run that is handed over or promoted has nothing left that was made from
\* an older contract, whatever plan, script and number of revisions, unless the
\* process died inside revise() or there was no plan to revise.
THEOREM CompletionIsCurrent ==
    ASSUME RevisionApart, RevisionReaches
    PROVE  RSpec => []CompleteMeansCurrent
BY AlwaysCurrency, CurrencyImplies, PTL
===============================================================================
