-------------------------------- MODULE Engine --------------------------------
(***************************************************************************)
(* The orchestration engine of control_plane/engine.py driving one run,    *)
(* with the approval service it pauses on and the graph it schedules from. *)
(*                                                                         *)
(* Each commit to the SQLite store (save_run, save_task, save_approval) is *)
(* an action of its own, so the process can die between any two of them.   *)
(* run, task, approvals and main survive a crash; pc, wave and hand are    *)
(* the stack of the process executing start() or tick() and do not.        *)
(***************************************************************************)
EXTENDS Graph, Naturals, Sequences, FiniteSets

CONSTANTS
    PlanTasks,         \* names of the tasks of the plan
    PlanDeps,          \* depends_on of each plan entry
    RepairOf,          \* RepairOf[t][n]: the name repair_{t}_{n}
    Reintegrate,       \* Reintegrate[n]: the name reintegrate_{n}
    Rank,              \* the rowid order in which the store lists the tasks
    Gate,              \* Gate[t]: what policy may decide on the gate of t,
                       \* {} if t has none
    ReleaseTasks,      \* tasks whose gate has the scope release.promote
    PromoteOnApproval, \* the values the scenario option promote_on_approval may
                       \* have; every resume reads the scenario file anew
    Outcomes,          \* Outcomes[t]: how an execution of t may end
    HasFallback,       \* plan tasks with params.fallback
    Repairable,        \* plan tasks with an entry under scenario.repair
    RollbackOnFailure, \* plan tasks with params.on_failure = "rollback"
    MaxAttempts,       \* max_attempts of each task
    MaxRepairs, MaxWaves, MaxParallel,
    TimeMayRunOut,     \* may max_elapsed_seconds pass during the run
    GitMayFail,        \* may git raise in promote() and in rollback()
    CrashPoints,       \* the places at which the process may die
    MaxCrashes         \* bound: how often it does so

Bootstrap == {"normalize", "analyze", "create_plan"}

BootstrapDeps == [normalize   |-> {},
                  analyze     |-> {"normalize"},
                  create_plan |-> {"analyze"}]

RepairTasks == {RepairOf[t][n] : t \in Repairable, n \in 1..MaxRepairs}

ReintegrateTasks == {Reintegrate[n] : n \in 1..MaxRepairs}

Tasks == Bootstrap \cup PlanTasks \cup RepairTasks \cup ReintegrateTasks

Decision == {"allow", "approval_required", "deny"}

FailureClass == {"transient", "invalid_output", "policy_denied", "deterministic"}

RunStatus == {"created", "executing", "awaiting_approval", "safe_stopped",
              "review_ready", "promoted", "failed", "denied"}

Terminal == {"safe_stopped", "review_ready", "promoted", "failed", "denied"}

\* Where the process is: between two commits of start(), of tick(), or not
\* running at all.
PC == {"idle", "start", "loop", "budget", "recover", "wave", "failures",
       "repair", "rewire", "count", "gates", "request", "approved", "promote",
       "promoted", "review", "proceed"}

ASSUME PlanAssumption ==
    /\ PlanDeps \in [PlanTasks -> SUBSET PlanTasks]
    /\ Repairable \subseteq PlanTasks
    /\ ReleaseTasks \subseteq PlanTasks
    /\ HasFallback \subseteq PlanTasks
    /\ RollbackOnFailure \subseteq PlanTasks
    /\ Rank \in [Tasks -> Nat]
    /\ Gate \in [Tasks -> SUBSET Decision]
    /\ Outcomes \in [Tasks -> SUBSET ({"ok"} \cup FailureClass)]

\* Names are keys of the store: idx_tasks_run_name is a unique index.
ASSUME NamesAssumption ==
    /\ RepairOf \in [Repairable -> [1..MaxRepairs -> STRING]]
    /\ Reintegrate \in [1..MaxRepairs -> STRING]
    /\ Bootstrap \cap PlanTasks = {}
    /\ (RepairTasks \cup ReintegrateTasks) \cap (Bootstrap \cup PlanTasks) = {}
    /\ RepairTasks \cap ReintegrateTasks = {}
    /\ \A m, n \in 1..MaxRepairs : Reintegrate[m] = Reintegrate[n] => m = n
    /\ \A t, u \in Repairable, m, n \in 1..MaxRepairs :
          RepairOf[t][m] = RepairOf[u][n] => t = u /\ m = n
    /\ \A t \in Tasks, u \in Tasks : Rank[t] = Rank[u] => t = u
    /\ Rank["normalize"] < Rank["analyze"]
    /\ Rank["analyze"] < Rank["create_plan"]

ASSUME BudgetAssumption ==
    /\ MaxAttempts \in [Tasks -> Nat \ {0}]
    /\ MaxRepairs \in Nat
    /\ MaxWaves \in Nat
    /\ MaxParallel \in Nat \ {0}
    /\ MaxCrashes \in Nat
    /\ CrashPoints \subseteq PC
    /\ PromoteOnApproval \in SUBSET BOOLEAN \ {{}}
    /\ TimeMayRunOut \in BOOLEAN
    /\ GitMayFail \in BOOLEAN

VARIABLES
    run,        \* the runs row: status, waves, repairs, pending_approval_id
    task,       \* the tasks table, by name
    approvals,  \* the approvals table, in the order of insertion
    main,       \* has the run branch been merged into workload main
    pc,         \* where the process is
    wave,       \* the tasks of the current wave not started yet
    hand,       \* the approval the process has in hand, 0 for none
    died        \* history: the places at which start() or tick() was cut short

durable == <<run, task, approvals, main>>
vars == <<run, task, approvals, main, pc, wave, hand, died>>

-------------------------------------------------------------------------------
(* Rows of the tables *)

TaskRow == [status : {"ABSENT"} \cup TaskStatus, attempts : Nat,
            class : {"none"} \cup FailureClass, cleared : BOOLEAN,
            fallback : BOOLEAN, deps : SUBSET Tasks]

NewTask(deps, fallback) ==
    [status |-> "PENDING", attempts |-> 0, class |-> "none",
     cleared |-> FALSE, fallback |-> fallback, deps |-> deps]

NoTask == [NewTask({}, FALSE) EXCEPT !.status = "ABSENT"]

Save(t, row) == task' = [task EXCEPT ![t] = row]

\* The first of a set of tasks in the order of _active_tasks.
IsFirst(t, S) == t \in S /\ \A u \in S : Rank[t] <= Rank[u]

\* A task whose gate _process_gates has yet to evaluate.
Gated(t) == task[t].status = "SUCCEEDED" /\ Gate[t] # {} /\ ~task[t].cleared

Goto(from, to) == pc = from /\ pc' = to

Stop(status) ==
    /\ run' = [run EXCEPT !.status = status]
    /\ pc' = "idle"

-------------------------------------------------------------------------------
(* start(): the run row is saved, then the bootstrap tasks one by one *)

Init ==
    /\ run = [status |-> "created", waves |-> 0, repairs |-> 0, pending |-> 0]
    /\ task = [t \in Tasks |-> NoTask]
    /\ approvals = <<>>
    /\ main = FALSE
    /\ pc = "start"
    /\ wave = {}
    /\ hand = 0
    /\ died = <<>>

Missing == {t \in Bootstrap : task[t].status = "ABSENT"}

SaveBootstrapTask(t) ==
    /\ pc = "start"
    /\ IsFirst(t, Missing)
    /\ Save(t, NewTask(BootstrapDeps[t], FALSE))
    /\ pc' = IF Missing = {t} THEN "idle" ELSE "start"
    /\ UNCHANGED <<run, approvals, main, wave, hand, died>>

-------------------------------------------------------------------------------
(* tick(): entry, and resumption from an approval *)

\* Faulty: a run found executing is left to its old process.
BeginTickOnce ==
    /\ Goto("idle", "loop")
    /\ run.status = "created"
    /\ run' = [run EXCEPT !.status = "executing"]
    /\ UNCHANGED <<task, approvals, main, wave, hand, died>>

\* A run that is not paused continues with its loop; a terminal one is
\* returned as it is, and one whose approval is still pending stays paused.
BeginTick ==
    /\ Goto("idle", "loop")
    /\ run.status \in {"created", "executing"}
    /\ run' = [run EXCEPT !.status = "executing"]
    /\ UNCHANGED <<task, approvals, main, wave, hand, died>>

\* Faulty: the decision is not looked at.
ConsumeUndecided ==
    /\ Goto("idle", "approved")
    /\ run.status = "awaiting_approval"
    /\ run.pending # 0
    /\ hand' = run.pending
    /\ run' = [run EXCEPT !.pending = 0]
    /\ UNCHANGED <<task, approvals, main, wave, died>>

\* consume() finds the pending approval approved and forgets it in one commit,
\* before anything it authorises has happened.
ConsumeApproved ==
    /\ Goto("idle", "approved")
    /\ run.status = "awaiting_approval"
    /\ run.pending # 0
    /\ approvals[run.pending].status = "approved"
    /\ hand' = run.pending
    /\ run' = [run EXCEPT !.pending = 0]
    /\ UNCHANGED <<task, approvals, main, wave, died>>

\* Faulty: the refusal is reported, and the run goes on.
ConsumeRefusedLightly ==
    /\ pc = "idle"
    /\ run.status = "awaiting_approval"
    /\ run.pending # 0
    /\ approvals[run.pending].status = "rejected"
    /\ Stop("executing")
    /\ UNCHANGED <<task, approvals, main, wave, hand, died>>

\* consume() raises on every other decision and the run is denied.
ConsumeRefused ==
    /\ pc = "idle"
    /\ run.status = "awaiting_approval"
    /\ run.pending # 0
    /\ approvals[run.pending].status = "rejected"
    /\ Stop("denied")
    /\ UNCHANGED <<task, approvals, main, wave, hand, died>>

\* Faulty: every approval is taken for the release.
ClearGateAndPromote ==
    LET t == approvals[hand].task IN
    /\ Goto("approved", "promote")
    /\ Save(t, [task[t] EXCEPT !.cleared = TRUE])
    /\ UNCHANGED <<run, approvals, main, wave, hand, died>>

\* _after_approval: the gate of the resumed task is cleared.
ClearGate ==
    LET t == approvals[hand].task IN
    /\ \E promote \in PromoteOnApproval :
          Goto("approved", IF t \notin ReleaseTasks THEN "proceed"
                           ELSE IF promote THEN "promote" ELSE "review")
    /\ Save(t, [task[t] EXCEPT !.cleared = TRUE])
    /\ UNCHANGED <<run, approvals, main, wave, hand, died>>

Promote ==
    /\ Goto("promote", "promoted")
    /\ main' = TRUE
    /\ UNCHANGED <<run, task, approvals, wave, hand, died>>

SavePromoted ==
    /\ pc = "promoted"
    /\ Stop("promoted")
    /\ hand' = 0
    /\ UNCHANGED <<task, approvals, main, wave, died>>

SaveReviewReady ==
    /\ pc = "review"
    /\ Stop("review_ready")
    /\ hand' = 0
    /\ UNCHANGED <<task, approvals, main, wave, died>>

Proceed ==
    /\ Goto("proceed", "loop")
    /\ run' = [run EXCEPT !.status = "executing"]
    /\ hand' = 0
    /\ UNCHANGED <<task, approvals, main, wave, died>>

-------------------------------------------------------------------------------
(* The loop of tick(): budgets, recovery, scheduling *)

NextWave ==
    /\ Goto("loop", "budget")
    /\ run' = [run EXCEPT !.waves = run.waves + 1]
    /\ UNCHANGED <<task, approvals, main, wave, hand, died>>

WithinBudget ==
    /\ Goto("budget", "recover")
    /\ run.waves <= MaxWaves
    /\ UNCHANGED <<run, task, approvals, main, wave, hand, died>>

WavesExhausted ==
    /\ pc = "budget"
    /\ run.waves > MaxWaves
    /\ Stop("safe_stopped")
    /\ UNCHANGED <<task, approvals, main, wave, hand, died>>

TimeExhausted ==
    /\ pc = "budget"
    /\ run.waves <= MaxWaves
    /\ TimeMayRunOut
    /\ Stop("safe_stopped")
    /\ UNCHANGED <<task, approvals, main, wave, hand, died>>

Refunded(n) == IF n = 0 THEN 0 ELSE n - 1

\* Faulty: the interrupted task is written off instead of queued.
RecoverTaskAsStale(t) ==
    /\ pc = "recover"
    /\ IsFirst(t, RunningTasks(task))
    /\ Save(t, [task[t] EXCEPT !.status = "STALE"])
    /\ UNCHANGED <<run, approvals, main, pc, wave, hand, died>>

\* A task found running belongs to a process that died: queue it again and
\* give the attempt back.
RecoverTask(t) ==
    /\ pc = "recover"
    /\ IsFirst(t, RunningTasks(task))
    /\ Save(t, [task[t] EXCEPT
                    !.status = "PENDING",
                    !.attempts = Refunded(task[t].attempts)])
    /\ UNCHANGED <<run, approvals, main, pc, wave, hand, died>>

\* _materialize_plan: once the plan is adopted its entries become tasks.  The
\* inserts are idempotent and repeated before every scheduling decision, so
\* that a crash between two of them leaves nothing to be seen.
PlanAdopted == task["create_plan"].status = "SUCCEEDED" /\ task["create_plan"].cleared

Materialized ==
    [t \in Tasks |->
        IF PlanAdopted /\ t \in PlanTasks /\ task[t].status = "ABSENT"
        THEN NewTask(PlanDeps[t], t \in HasFallback)
        ELSE task[t]]

\* Faulty: the plan is not validated.
PlanNeverRefused == FALSE

PlanRefused == PlanAdopted /\ ~ValidPlan(PlanTasks, PlanDeps)

\* graph.validate raises GraphError out of tick().
MaterializeRaises ==
    /\ \/ pc = "recover" /\ RunningTasks(task) = {}
       \/ pc = "gates" /\ \A t \in Tasks : ~Gated(t)
    /\ PlanRefused
    /\ pc' = "idle"
    /\ UNCHANGED <<run, task, approvals, main, wave, hand, died>>

Scheduling ==
    /\ pc = "recover"
    /\ RunningTasks(task) = {}
    /\ ~PlanRefused
    /\ task' = Materialized
    /\ UNCHANGED <<approvals, main, hand, died>>

Schedule ==
    /\ Scheduling
    /\ ReadyTasks(Materialized) # {}
    /\ wave' = ReadyTasks(Materialized)
    /\ pc' = "wave"
    /\ UNCHANGED run

NothingReady == ReadyTasks(Materialized) = {} /\ UNCHANGED wave

AnyFailed == \E t \in Tasks : Materialized[t].status = "FAILED"

\* "blocked by failed tasks" or "scheduling deadlock".
Blocked ==
    /\ Scheduling /\ NothingReady
    /\ AnyFailed \/ Unfinished(Materialized) # {}
    /\ Stop("failed")

Finalize ==
    /\ Scheduling /\ NothingReady
    /\ ~AnyFailed
    /\ Unfinished(Materialized) = {}
    /\ Stop("review_ready")

-------------------------------------------------------------------------------
(* _execute_wave: a pool of threads works on the ready tasks *)

\* The threads take the tasks in order, and those that have taken one save it
\* as running in any order.
Taken(t) ==
    /\ t \in wave
    /\ Cardinality({u \in wave : Rank[u] < Rank[t]} \cup RunningTasks(task)) < MaxParallel

StartTask(t) ==
    /\ pc = "wave"
    /\ Taken(t)
    /\ Save(t, [task[t] EXCEPT !.status = "RUNNING", !.attempts = task[t].attempts + 1])
    /\ wave' = wave \ {t}
    /\ UNCHANGED <<run, approvals, main, pc, hand, died>>

TaskSucceeds(t) ==
    /\ pc = "wave"
    /\ task[t].status = "RUNNING"
    /\ "ok" \in Outcomes[t]
    /\ Save(t, [task[t] EXCEPT !.status = "SUCCEEDED", !.class = "none"])
    /\ UNCHANGED <<run, approvals, main, pc, wave, hand, died>>

TaskFails(t, class) ==
    /\ pc = "wave"
    /\ task[t].status = "RUNNING"
    /\ class \in Outcomes[t]
    /\ Save(t, [task[t] EXCEPT !.status = "FAILED", !.class = class])
    /\ UNCHANGED <<run, approvals, main, pc, wave, hand, died>>

WaveDone ==
    /\ Goto("wave", "failures")
    /\ wave = {}
    /\ RunningTasks(task) = {}
    /\ UNCHANGED <<run, task, approvals, main, wave, hand, died>>

-------------------------------------------------------------------------------
(* _handle_failures: the failed tasks in turn, routed by failure class *)

FailedTasks == {t \in Tasks : task[t].status = "FAILED"}

Failed(t, classes) ==
    /\ pc = "failures"
    /\ IsFirst(t, FailedTasks)
    /\ task[t].class \in classes

Retryable == {"transient", "invalid_output"}

\* Faulty: one retry too many.
RetryOnceMore(t) ==
    /\ Failed(t, Retryable)
    /\ task[t].attempts <= MaxAttempts[t]
    /\ Save(t, [task[t] EXCEPT !.status = "PENDING"])
    /\ UNCHANGED <<run, approvals, main, pc, wave, hand, died>>

Retry(t) ==
    /\ Failed(t, Retryable)
    /\ task[t].attempts < MaxAttempts[t]
    /\ Save(t, [task[t] EXCEPT !.status = "PENDING"])
    /\ UNCHANGED <<run, approvals, main, pc, wave, hand, died>>

\* Faulty: one retry too few.
RetriesExhaustedEarly(t) ==
    /\ Failed(t, Retryable)
    /\ task[t].attempts + 1 >= MaxAttempts[t]
    /\ Stop("safe_stopped")
    /\ UNCHANGED <<task, approvals, main, wave, hand, died>>

RetriesExhausted(t) ==
    /\ Failed(t, Retryable)
    /\ task[t].attempts >= MaxAttempts[t]
    /\ Stop("safe_stopped")
    /\ UNCHANGED <<task, approvals, main, wave, hand, died>>

\* The fallback replaces the parameters, so there is no second one.
TakeFallback(t) ==
    /\ Failed(t, {"policy_denied"})
    /\ task[t].fallback
    /\ Save(t, [task[t] EXCEPT
                    !.status = "PENDING", !.attempts = 0, !.fallback = FALSE])
    /\ UNCHANGED <<run, approvals, main, pc, wave, hand, died>>

NoFallback(t) ==
    /\ Failed(t, {"policy_denied"})
    /\ ~task[t].fallback
    /\ Stop("safe_stopped")
    /\ UNCHANGED <<task, approvals, main, wave, hand, died>>

CanRepair(t) == t \in Repairable /\ run.repairs < MaxRepairs

\* The number the next repair gets.  The engine counts it in memory at once
\* and saves the count only after the three rows of the repair.
NextRepair == run.repairs + 1

\* First row: the repair task, which depends on nothing.
SaveRepair(t) ==
    LET repair == RepairOf[t][NextRepair] IN
    /\ Failed(t, {"deterministic"})
    /\ CanRepair(t)
    /\ task[repair].status = "ABSENT"
    /\ Save(repair, NewTask({}, FALSE))
    /\ pc' = "repair"
    /\ UNCHANGED <<run, approvals, main, wave, hand, died>>

\* Second row: the task that commits what the repair wrote.
SaveReintegrate(t) ==
    LET repair == RepairOf[t][NextRepair]
        again  == Reintegrate[NextRepair] IN
    /\ Goto("repair", "rewire")
    /\ IsFirst(t, FailedTasks)
    /\ task[again].status = "ABSENT"
    /\ Save(again, NewTask({repair}, FALSE))
    /\ UNCHANGED <<run, approvals, main, wave, hand, died>>

\* save_task inserts a row under a name that exists: sqlite3.IntegrityError
\* leaves tick() with the task still failed and the count unsaved.
RepairCollides(t) ==
    /\ IsFirst(t, FailedTasks)
    /\ \/ /\ Failed(t, {"deterministic"})
          /\ CanRepair(t)
          /\ task[RepairOf[t][NextRepair]].status # "ABSENT"
       \/ /\ pc = "repair"
          /\ task[Reintegrate[NextRepair]].status # "ABSENT"
    /\ pc' = "idle"
    /\ UNCHANGED <<run, task, approvals, main, wave, hand, died>>

\* Third row: the failed task waits for the reintegration and starts afresh.
Rewire(t) ==
    /\ Goto("rewire", "count")
    /\ IsFirst(t, FailedTasks)
    /\ Save(t, [task[t] EXCEPT
                    !.status = "PENDING", !.attempts = 0, !.class = "none",
                    !.deps = task[t].deps \cup {Reintegrate[NextRepair]}])
    /\ UNCHANGED <<run, approvals, main, wave, hand, died>>

\* Faulty: the run row is not saved after the repair.
CountRepairInMemory ==
    /\ Goto("count", "failures")
    /\ UNCHANGED <<run, task, approvals, main, wave, hand, died>>

CountRepair ==
    /\ Goto("count", "failures")
    /\ run' = [run EXCEPT !.repairs = NextRepair]
    /\ UNCHANGED <<task, approvals, main, wave, hand, died>>

\* The worktree is reset to the base revision and the run fails.
Rollback(t) ==
    /\ Failed(t, {"deterministic"})
    /\ ~CanRepair(t)
    /\ t \in RollbackOnFailure
    /\ Stop("failed")
    /\ UNCHANGED <<task, approvals, main, wave, hand, died>>

NoRepair(t) ==
    /\ Failed(t, {"deterministic"})
    /\ ~CanRepair(t)
    /\ t \notin RollbackOnFailure
    /\ Stop("safe_stopped")
    /\ UNCHANGED <<task, approvals, main, wave, hand, died>>

FailuresHandled ==
    /\ Goto("failures", "gates")
    /\ FailedTasks = {}
    /\ UNCHANGED <<run, task, approvals, main, wave, hand, died>>

-------------------------------------------------------------------------------
(* _process_gates: in task order, up to the first one that needs a human *)

NextGate(t) == pc = "gates" /\ IsFirst(t, {u \in Tasks : Gated(u)})

GateAllowed(t) ==
    /\ NextGate(t)
    /\ "allow" \in Gate[t]
    /\ Save(t, [task[t] EXCEPT !.cleared = TRUE])
    /\ UNCHANGED <<run, approvals, main, pc, wave, hand, died>>

\* request(): the approval is saved first, the pause of the run second.
RequestApproval(t) ==
    /\ NextGate(t)
    /\ "approval_required" \in Gate[t]
    /\ approvals' = Append(approvals, [task |-> t, status |-> "pending"])
    /\ hand' = Len(approvals) + 1
    /\ pc' = "request"
    /\ UNCHANGED <<run, task, main, wave, died>>

\* Faulty: the run is paused without the id of what it waits for.
SavePauseWithoutId ==
    /\ pc = "request"
    /\ run' = [run EXCEPT !.status = "awaiting_approval"]
    /\ hand' = 0
    /\ pc' = "idle"
    /\ UNCHANGED <<task, approvals, main, wave, died>>

SavePause ==
    /\ pc = "request"
    /\ run' = [run EXCEPT !.status = "awaiting_approval", !.pending = hand]
    /\ hand' = 0
    /\ pc' = "idle"
    /\ UNCHANGED <<task, approvals, main, wave, died>>

GateDenied(t) ==
    /\ NextGate(t)
    /\ "deny" \in Gate[t]
    /\ Stop("denied")
    /\ UNCHANGED <<task, approvals, main, wave, hand, died>>

\* Faulty: the loop goes on past a gate that is not cleared.
GatesDoneEarly ==
    /\ Goto("gates", "loop")
    /\ ~PlanRefused
    /\ task' = Materialized
    /\ UNCHANGED <<run, approvals, main, wave, hand, died>>

GatesDone ==
    /\ Goto("gates", "loop")
    /\ \A t \in Tasks : ~Gated(t)
    /\ ~PlanRefused
    /\ task' = Materialized
    /\ UNCHANGED <<run, approvals, main, wave, hand, died>>

-------------------------------------------------------------------------------
(* An approver, and all that cuts start() or tick() short *)

Resolve(i, decision) ==
    /\ approvals[i].status = "pending"
    /\ approvals' = [approvals EXCEPT ![i].status = decision]
    /\ UNCHANGED <<run, task, main, pc, wave, hand, died>>

\* The process dies.
Killed ==
    /\ pc \in CrashPoints
    /\ Len(died) < MaxCrashes

\* git merge raises in promote(): nothing between it and the caller of tick()
\* catches a WorkspaceError, which finds every row as the last commit left it.
MergeRaises == GitMayFail /\ pc = "promote"

\* git reset or git clean raises in rollback(), before the run is saved.
RollbackRaises ==
    /\ GitMayFail
    /\ \E t \in RollbackOnFailure : Failed(t, {"deterministic"}) /\ ~CanRepair(t)

Crash ==
    /\ Killed \/ MergeRaises \/ RollbackRaises
    /\ died' = Append(died, pc)
    /\ pc' = "idle"
    /\ wave' = {}
    /\ hand' = 0
    /\ UNCHANGED durable

-------------------------------------------------------------------------------
Resume == ConsumeApproved \/ ConsumeRefused \/ ClearGate \/ Promote
            \/ SavePromoted \/ SaveReviewReady \/ Proceed

Loop == NextWave \/ WithinBudget \/ WavesExhausted \/ TimeExhausted
            \/ MaterializeRaises \/ Schedule \/ Blocked \/ Finalize

Execute(t) == StartTask(t) \/ TaskSucceeds(t) \/ \E class \in FailureClass : TaskFails(t, class)

HandleFailure(t) ==
    \/ Retry(t) \/ RetriesExhausted(t)
    \/ TakeFallback(t) \/ NoFallback(t)
    \/ SaveRepair(t) \/ SaveReintegrate(t) \/ RepairCollides(t) \/ Rewire(t)
    \/ Rollback(t) \/ NoRepair(t)

ProcessGate(t) == GateAllowed(t) \/ RequestApproval(t) \/ GateDenied(t)

\* A step of the process that runs start() or tick().
Process ==
    \/ BeginTick \/ Resume \/ Loop
    \/ WaveDone \/ CountRepair \/ FailuresHandled \/ SavePause \/ GatesDone
    \/ \E t \in Tasks : SaveBootstrapTask(t) \/ RecoverTask(t) \/ Execute(t)
                            \/ HandleFailure(t) \/ ProcessGate(t)

Approver == \E i \in DOMAIN approvals, decision \in {"approved", "rejected"} :
                Resolve(i, decision)

Next == Process \/ Approver \/ Crash

Spec == Init /\ [][Next]_vars

\* A started worker ends (run_check kills a check at its timeout, git at 60 s),
\* a tick that can take a step takes it, and after a crash somebody runs
\* `ase resume`.  Nothing is assumed of the approver.
FairSpec == Spec /\ WF_vars(Process)
==============================================================================
