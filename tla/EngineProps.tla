----------------------------- MODULE EngineProps -----------------------------
(* What the engine promises of a run, as properties of Engine. *)
EXTENDS Engine

\* Every row has its columns, and the process is at one of its places.
TypeOK ==
    /\ run \in [status : RunStatus, waves : Nat, repairs : 0..MaxRepairs, pending : Nat]
    /\ run.pending \in {0} \cup DOMAIN approvals
    /\ task \in [Tasks -> TaskRow]
    /\ approvals \in Seq([task : Tasks, status : {"pending", "approved", "rejected"}])
    /\ main \in BOOLEAN
    /\ pc \in PC
    /\ wave \in SUBSET Tasks
    /\ hand \in {0} \cup DOMAIN approvals
    /\ died \in Seq(PC)

-------------------------------------------------------------------------------
(* Where a crash does harm: some promises survive every crash but one in a   *)
(* window of the code, and each window is named here.  A crash cuts start()  *)
(* or tick() short: the process dies, the merge of promote() raises, or the  *)
(* reset or the clean of rollback() does.                                    *)

DiedIn(window) == \E i \in DOMAIN died : died[i] \in window

\* From a task that failed to the count of its repair.
RepairWindow == {"repair", "rewire", "count"}

\* From the first task of a wave to the pause on a gate of it.
GateWindow == {"wave", "failures", "gates", "request"} \cup RepairWindow

\* From the first task of a wave to the end of the routing of its failures.
RouteWindow  == {"wave", "failures"} \cup RepairWindow

\* From the approval consumed to the status it leads to, the merge included.
ConsumeWindow == {"approved", "promote", "promoted", "review", "proceed"}

-------------------------------------------------------------------------------
(* Scheduling *)

\* A task that is started, finished or about to start in this wave has every
\* dependency finished: also when a repair added one, when the wave runs in
\* parallel, and when the process died in the middle (graph.ready_tasks,
\* recovery in tick()).
DependenciesFirst ==
    \A t \in Tasks :
        (t \in wave \/ task[t].status \in {"RUNNING", "SUCCEEDED"})
            => \A d \in task[t].deps : task[d].status = "SUCCEEDED"

\* The refund of a recovered task never buys an execution beyond max_attempts
\* and is never paid twice: a queued task has an attempt left, a started one
\* has used at least one (exec_one, recovery, _handle_failures).
AttemptBudget ==
    \A t \in Tasks :
        CASE task[t].status = "ABSENT"  -> task[t].attempts = 0
          [] task[t].status = "PENDING" -> task[t].attempts < MaxAttempts[t]
          [] OTHER                      -> task[t].attempts \in 1..MaxAttempts[t]

-------------------------------------------------------------------------------
(* Authority *)

Approved(t) == \E i \in DOMAIN approvals :
                   approvals[i].task = t /\ approvals[i].status = "approved"

\* A gate is only ever cleared by policy or by a human who approved that very
\* task, whatever was interrupted on the way (_process_gates, _after_approval).
GateAuthority ==
    \A t \in Tasks : task[t].cleared => "allow" \in Gate[t] \/ Approved(t)

\* Workload main holds the run branch only if a human approved the release,
\* and then the release and everything it depends on had finished
\* (workspace.promote: "only called after the final release approval").
MainlineAuthority ==
    main => \E t \in ReleaseTasks :
                /\ Approved(t)
                /\ task[t].status = "SUCCEEDED" /\ task[t].cleared
                /\ \A d \in task[t].deps : task[d].status = "SUCCEEDED"

\* The approver is asked one question at a time, and the run is paused on
\* that question or just about to be (ApprovalService.request).
OneOpenQuestion ==
    \A i \in DOMAIN approvals : approvals[i].status = "pending" =>
        \/ run.status = "awaiting_approval" /\ run.pending = i
        \/ pc = "request" /\ hand = i

\* A run at rest that waits for approval waits for an approval it can find
\* (consume returns None for ever when pending_approval_id is empty).
PausedOnAnApproval ==
    pc = "idle" /\ run.status = "awaiting_approval" => run.pending # 0

\* PausedOnAnApproval survives every crash that is not between consume() and
\* the status the approval leads to; a merge that raises is such a crash
\* (_after_approval, promote).
PausesSurvive == DiedIn(ConsumeWindow) \/ PausedOnAnApproval

\* Once a human has rejected something no task of the run is started any more
\* and workload main is left alone.
RejectionStops ==
    [][(\E i \in DOMAIN approvals : approvals[i].status = "rejected")
          => /\ \A t \in Tasks : task'[t].status = "RUNNING" => task[t].status = "RUNNING"
             /\ main' = main]_vars

\* Nothing runs on top of a task whose gate is still closed: a gate is "a
\* policy checkpoint evaluated when its owning task succeeds" (models.py), and
\* the run pauses on it (_process_gates).
GateBeforeDependents ==
    \A t \in Tasks : task[t].status = "RUNNING" =>
        \A d \in task[t].deps : Gate[d] # {} => task[d].cleared

\* GateBeforeDependents survives every crash that is not between a wave and
\* its gates (_process_gates is not repeated by the next tick).
GatesSurvive == DiedIn(GateWindow) \/ GateBeforeDependents

\* What t waits for from the day its row is made.
Waits(t) == IF t \in Bootstrap THEN BootstrapDeps[t] ELSE PlanDeps[t] \cup {"create_plan"}

\* u waits for t, directly or not: no set of tasks that has u and all that its
\* members wait for lacks t.
Leads(t, u) ==
    \A S \in SUBSET (Bootstrap \cup PlanTasks) :
        u \in S /\ (\A x \in S : Waits(x) \subseteq S) => t \in S

\* Of any two gated tasks one waits for the other, and repairs have no gate, as
\* in every scenario of the repository: without it a wave may have two gates,
\* of which only the first is processed.
GatesInTurn ==
    /\ \A t \in Tasks : Gate[t] # {} => t \in Bootstrap \cup PlanTasks
    /\ \A t, u \in Tasks : Gate[t] # {} /\ Gate[u] # {} /\ t # u => Leads(t, u) \/ Leads(u, t)

\* The release waits for everything else, and adopting the plan is gated.
ReleaseIsLast ==
    /\ \A r \in ReleaseTasks, t \in Bootstrap \cup PlanTasks : Leads(t, r)
    /\ Gate["create_plan"] # {}

\* A run is reported ready for review, or promoted, only when the whole plan
\* has been carried out and every gate of it has been passed.
CompleteMeansDone ==
    run.status \in {"review_ready", "promoted"} =>
        /\ \A t \in Bootstrap \cup PlanTasks : task[t].status = "SUCCEEDED"
        /\ \A t \in Tasks : ~Gated(t)

\* CompleteMeansDone survives every crash that is neither inside start() nor
\* between a wave and its gates, where a rollback that raises is one.
CompletionSurvives == DiedIn({"start"} \cup GateWindow) \/ CompleteMeansDone

\* Rows exist only for a plan that was adopted and is a graph: validation and
\* the plan gate come before anything is persisted, on every path that
\* materializes (_materialize_plan: "before persisting").
RowsOfAnAdoptedPlan ==
    (\E t \in PlanTasks : task[t].status # "ABSENT")
        => PlanAdopted /\ ValidPlan(PlanTasks, PlanDeps)

-------------------------------------------------------------------------------
(* The engine as an implementation of GovernedRun *)

Asked == run.status = "awaiting_approval" \/ pc = "request"

LastApproval == approvals[Len(approvals)]

Governed == INSTANCE GovernedRun WITH
    phase <- IF run.status = "promoted" THEN "merged"
             ELSE IF run.status \in Terminal THEN "closed"
             ELSE IF Asked THEN "asked" ELSE "open",
    question <- IF ~Asked THEN "none"
                ELSE IF LastApproval.task \in ReleaseTasks THEN "release" ELSE "gate",
    answer <- IF ~Asked \/ LastApproval.status = "pending" THEN "none"
              ELSE LastApproval.status,
    busy <- RunningTasks(task) # {}

\* Seen from outside, the run asks, waits, continues, merges and ends as
\* GovernedRun allows, whatever happens inside tick() and the approval service.
Governance == Governed!Spec

-------------------------------------------------------------------------------
(* Failure routing *)

\* A failed task for which the routing table still offers a way on.
HasWayOn(t) ==
    /\ task[t].status = "FAILED"
    /\ \/ task[t].class \in Retryable /\ task[t].attempts < MaxAttempts[t]
       \/ task[t].class = "policy_denied" /\ task[t].fallback
       \/ task[t].class = "deterministic" /\ CanRepair(t)

\* A run only gives up on failed tasks when at least one of them is out of
\* retries, fallbacks and repairs; waves and time are the other two reasons.
GivesUpOnlyWhenExhausted ==
    run.status \in {"failed", "safe_stopped"} =>
        \/ \E t \in Tasks : task[t].status = "FAILED" /\ ~HasWayOn(t)
        \/ run.status = "safe_stopped" /\ (TimeMayRunOut \/ run.waves > MaxWaves)

\* GivesUpOnlyWhenExhausted survives every crash that is not between a failure
\* and the end of its routing, a rollback that raises included
\* (_handle_failures is not repeated).
RoutesSurvive == DiedIn(RouteWindow) \/ GivesUpOnlyWhenExhausted

\* max_repairs bounds the repairs that exist, not only the saved counter, and
\* a repair that is scheduled finds its names free in the tasks table.
RepairsCounted ==
    /\ \A n \in 1..MaxRepairs : task[Reintegrate[n]].status # "ABSENT" =>
          n <= run.repairs + (IF pc \in {"rewire", "count"} THEN 1 ELSE 0)
    /\ \A t \in Repairable, n \in 1..MaxRepairs :
          task[RepairOf[t][n]].status # "ABSENT" =>
              n <= run.repairs + (IF pc \in {"repair", "rewire", "count"} THEN 1 ELSE 0)

\* RepairsCounted survives every crash that is not between the rows of a repair
\* and the save of its count (_handle_failures, save_run).
RepairsSurvive == DiedIn(RepairWindow) \/ RepairsCounted

-------------------------------------------------------------------------------
(* Progress *)

HumanTurn ==
    /\ run.status = "awaiting_approval"
    /\ run.pending # 0
    /\ approvals[run.pending].status = "pending"

\* Every run ends or comes to rest on a question somebody can answer, whatever
\* crash it meets on the way (tick()), unless the process dies between
\* consume() and the status the approval leads to or the merge raises there:
\* then it awaits an approval that consume() has taken from it already.
SettlesAnyway == <>[](run.status \in Terminal \/ HumanTurn \/ DiedIn(ConsumeWindow))
==============================================================================
