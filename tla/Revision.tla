------------------------------- MODULE Revision -------------------------------
(***************************************************************************)
(* Selective re-planning (replan.py) on the artifacts of artifacts.py and  *)
(* the digests that bind approvals to them (approvals.py), composed with   *)
(* the engine that runs the tasks (Engine).  revise() is a dozen commits,  *)
(* each a step here; what it keeps in memory between them is lost when the *)
(* process dies.  An artifact is known by its place in arts, and its       *)
(* content by whatever its digest depends on.                              *)
(***************************************************************************)
EXTENDS EngineProps, FiniteSetsExt

CONSTANTS
    Contract,       \* the requirement facet that revisions change
    Produces,       \* Produces[t]: the artifact a task publishes, "" for none
    Reads,          \* Reads[t]: the parents it names
    Subjects,       \* Subjects[t]: the subject artifacts of the gate of t
    Trigger,        \* after_task of the scripted revision, "" for no script
    SameEachTime,   \* tasks whose output has the same digest whenever they run
    Upserts,        \* tasks the revision defines anew
    RevisedDeps,    \* and their dependencies then
    Reapproval,     \* the values require_reapproval may have
    MaxReplans,
    MaxRevisions,   \* bound: revisions an operator asks for
    MaxDeaths       \* bound: how often the process dies, in revise() or not

\* A renewed plan approval has no task, and no task signs what it publishes as
\* revise() does: the names they have here are the names of none.
ASSUME RevisionAssumption ==
    /\ Produces \in [Tasks -> STRING]
    /\ Reads \in [Tasks -> SUBSET STRING]
    /\ Contract \in STRING \ {"", "requirement", "impact_report", "plan"}
    /\ Upserts \subseteq PlanTasks
    /\ RevisedDeps \in [PlanTasks -> SUBSET PlanTasks]
    /\ Reapproval \subseteq BOOLEAN
    /\ {"plan.revised", "revision"} \cap Tasks = {}
    /\ Produces["create_plan"] = "plan"

VARIABLES
    arts,      \* the artifacts table
    subjects,  \* subject digests of each approval, as sets of [name, content]
    plan,      \* the run's replans, revision_applied, plan_version
    told,      \* running tasks whose worker has published; lost in a crash
    at,        \* the next commit of revise(), "none" outside it
    mem,       \* what revise() has found so far
    cuts,      \* history: the places in revise() at which the process died
    met        \* history: in what states of the run revisions were made

rvars == <<arts, subjects, plan, told, at, mem, cuts, met>>

Nothing == [seen |-> {}, names |-> {}, affected |-> {}, asked |-> 0]

RInit ==
    /\ Init
    /\ arts = <<>>
    /\ subjects = <<>>
    /\ plan = [replans |-> 0, applied |-> FALSE, version |-> 0]
    /\ told = {}
    /\ at = "none"
    /\ mem = Nothing
    /\ cuts = {}
    /\ met = {}

-------------------------------------------------------------------------------
(* ArtifactRegistry and Store.get_artifact *)

Versions(name) == {i \in DOMAIN arts : arts[i].name = name}

\* The latest version that is not stale, or the latest if all are; 0 for none.
Current(name) ==
    LET fresh == {i \in Versions(name) : ~arts[i].stale}
        pool  == IF fresh = {} THEN Versions(name) ELSE fresh
        last  == {i \in pool : \A j \in pool : arts[j].version <= arts[i].version} IN
    IF pool = {} THEN 0 ELSE Min(last)

Artifact(name, parents, by, content) ==
    [name |-> name, by |-> by, content |-> content, stale |-> FALSE,
     version |-> 1 + (IF Current(name) = 0 THEN 0 ELSE arts[Current(name)].version),
     parents |-> {Current(p) : p \in parents} \ {0}]

Publish(name, parents, by, content) ==
    arts' = Append(arts, Artifact(name, parents, by, content))

Digest(name) ==
    IF Current(name) = 0 THEN {} ELSE {[name |-> name, content |-> arts[Current(name)].content]}

Digests(names) == UNION {Digest(n) : n \in names}

\* Faulty: what was made from the new version only.
ChildrenOfNewest(seen) ==
    {i \in DOMAIN arts \ seen : arts[i].name # Contract
        /\ \E p \in arts[i].parents : p = Current(Contract) \/ p \in seen}

\* What the traversal of invalidate_descendants reaches next: it starts from
\* all versions of the contract and never enters another one.
Children(seen) ==
    {i \in DOMAIN arts \ seen : arts[i].name # Contract
        /\ \E p \in arts[i].parents : arts[p].name = Contract \/ p \in seen}

-------------------------------------------------------------------------------
(* Workers publish, then their task succeeds *)

\* normalize also publishes the contract, create_plan counts the plan version.
PublishOutput(t) ==
    /\ pc = "wave"
    /\ task[t].status = "RUNNING"
    /\ t \notin told
    /\ told' = told \cup {t}
    /\ plan' = IF t = "create_plan" THEN [plan EXCEPT !.version = @ + 1] ELSE plan
    /\ IF t = "normalize"
       THEN arts' = arts \o <<Artifact("requirement", {}, t, 0),
                              [Artifact(Contract, {}, t, 0) EXCEPT !.parents = {Len(arts) + 1}]>>
       ELSE IF Produces[t] = "" THEN UNCHANGED arts
       ELSE Publish(Produces[t], Reads[t], t, IF t \in SameEachTime THEN 0 ELSE plan'.version)
    /\ UNCHANGED <<vars, subjects, at, mem, cuts, met>>

EndTask(t) ==
    /\ \/ t \in told /\ TaskSucceeds(t)
       \/ \E class \in FailureClass : TaskFails(t, class)
    /\ UNCHANGED rvars

BeginTask(t) ==
    /\ StartTask(t)
    /\ told' = told \ {t}
    /\ UNCHANGED <<arts, subjects, plan, at, mem, cuts, met>>

-------------------------------------------------------------------------------
(* Approvals bound to digests *)

Ask(t) ==
    /\ RequestApproval(t)
    /\ subjects' = Append(subjects, Digests(Subjects[t]))
    /\ UNCHANGED <<arts, plan, told, at, mem, cuts, met>>

Renews(i) == approvals[i].task = "plan.revised"

\* _staleness: a subject is gone or has another digest.
Changed(i) == \E s \in subjects[i] : s \notin Digest(s.name)

\* resolve() marks a request whose subjects changed stale instead.
Decide(i, decision) ==
    /\ Resolve(i, IF Changed(i) THEN "stale" ELSE decision)
    /\ UNCHANGED rvars

ConsumeCurrent ==
    /\ ConsumeApproved
    /\ ~Changed(run.pending)
    /\ UNCHANGED rvars

\* consume() marks it stale when content changed after the approval, raises on
\* every stale one, and the run is denied.
ConsumeStale ==
    /\ pc = "idle"
    /\ run.status = "awaiting_approval"
    /\ run.pending # 0
    /\ \/ approvals[run.pending].status = "stale"
       \/ approvals[run.pending].status = "approved" /\ Changed(run.pending)
    /\ approvals' = [approvals EXCEPT ![run.pending].status = "stale"]
    /\ Stop("denied")
    /\ UNCHANGED <<task, main, wave, hand, died, rvars>>

ClearTaskGate ==
    /\ pc = "approved" /\ ~Renews(hand)
    /\ ClearGate
    /\ UNCHANGED rvars

\* A renewed plan approval has no task to clear.
ClearRevision ==
    /\ Goto("approved", "proceed")
    /\ Renews(hand)
    /\ UNCHANGED <<run, task, approvals, main, wave, hand, died, rvars>>

-------------------------------------------------------------------------------
(* revise(), commit by commit *)

Move(from, to) == at = from /\ at' = to

\* _maybe_scripted_revision, after the gates and before the next wave.
ScriptDue == Trigger \in Tasks /\ ~plan.applied /\ task[Trigger].status = "SUCCEEDED"

\* Faulty: the pass ends with a gate still closed.
EndPassEarly ==
    /\ GatesDoneEarly
    /\ at' = IF ScriptDue THEN "close" ELSE "none"
    /\ UNCHANGED <<arts, subjects, plan, told, mem, cuts, met>>

EndPass ==
    /\ GatesDone
    /\ at' = IF ScriptDue THEN "close" ELSE "none"
    /\ UNCHANGED <<arts, subjects, plan, told, mem, cuts, met>>

\* `ase revise`, on a run in any status.
OperatorRevises ==
    /\ pc = "idle"
    /\ \A t \in Bootstrap : task[t].status # "ABSENT"
    /\ plan.replans + Cardinality(cuts) < MaxRevisions
    /\ Move("none", "close")
    /\ UNCHANGED <<vars, arts, subjects, plan, told, mem, cuts, met>>

Leave == at' = "none" /\ mem' = Nothing

\* RuntimeError: the re-plan budget is exhausted.
RevisionRefused ==
    /\ at = "close"
    /\ plan.replans >= MaxReplans
    /\ Stop("safe_stopped")
    /\ Leave
    /\ UNCHANGED <<task, approvals, main, wave, hand, died>>
    /\ UNCHANGED <<arts, subjects, plan, told, cuts, met>>

ClosesGate == run.pending # 0 /\ approvals[run.pending].status = "pending"

\* A gate was still closed, planning was not done, the run had ended.
RunState == (IF \E t \in Tasks : Gated(t) THEN {"gated"} ELSE {})
              \cup (IF task["create_plan"].status # "SUCCEEDED" THEN {"unplanned"} ELSE {})
              \cup (IF run.status \in Terminal THEN {"ended"} ELSE {})

CloseApproval ==
    /\ Move("close", "publish")
    /\ plan.replans < MaxReplans
    /\ approvals' = IF ClosesGate THEN [approvals EXCEPT ![run.pending].status = "stale"]
                                  ELSE approvals
    /\ met' = met \cup RunState
    /\ UNCHANGED <<run, task, main, pc, wave, hand, died, arts, subjects, plan, told, mem, cuts>>

PublishContract ==
    /\ Move("publish", "invalidate")
    /\ Publish(Contract, {"requirement"}, "revision", 1)
    /\ UNCHANGED <<vars, subjects, plan, told, mem, cuts, met>>

OldVersions == {i \in Versions(Contract) : i # Current(Contract) /\ ~arts[i].stale}

\* One save_artifact; a stale artifact is passed through without one.
Invalidate(i) ==
    /\ at = "invalidate"
    /\ IF OldVersions # {} THEN i = Min(OldVersions) ELSE i \in Children(mem.seen)
    /\ arts' = [arts EXCEPT ![i].stale = TRUE]
    /\ mem' = IF arts[i].name = Contract THEN mem
              ELSE [mem EXCEPT !.seen = @ \cup {i},
                               !.names = IF arts[i].stale THEN @ ELSE @ \cup {arts[i].name}]
    /\ UNCHANGED <<vars, subjects, plan, told, at, cuts, met>>

\* The roots and graph.descendants of them: the least set that has the roots
\* and every task that depends on a member.
Dependents(roots) ==
    LET Closed(S) == \A t \in Tasks : task[t].deps \cap S # {} => t \in S IN
    {t \in Tasks : \A S \in SUBSET Tasks : roots \subseteq S /\ Closed(S) => t \in S}

Producers == {t \in Tasks : /\ task[t].status # "ABSENT"
                            /\ \E i \in DOMAIN arts : /\ arts[i].stale
                                                      /\ arts[i].by = t
                                                      /\ arts[i].name \in mem.names}

\* Faulty: every task starts over.
FindEverything ==
    /\ Move("invalidate", "reset")
    /\ OldVersions = {} /\ Children(mem.seen) = {}
    /\ mem' = [mem EXCEPT !.affected = PlanTasks]
    /\ UNCHANGED <<vars, arts, subjects, plan, told, cuts, met>>

FindAffected ==
    /\ Move("invalidate", "reset")
    /\ OldVersions = {} /\ Children(mem.seen) = {}
    /\ mem' = [mem EXCEPT !.affected = Dependents(Producers)]
    /\ UNCHANGED <<vars, arts, subjects, plan, told, cuts, met>>

Unreset == {t \in mem.affected : task[t].status \notin {"ABSENT", "PENDING"}}

ResetTask(t) ==
    /\ at = "reset"
    /\ IsFirst(t, Unreset)
    /\ Save(t, [task[t] EXCEPT !.status = "PENDING", !.attempts = 0,
                               !.cleared = FALSE, !.class = "none"])
    /\ UNCHANGED <<run, approvals, main, pc, wave, hand, died, rvars>>

\* Without a previous plan the upserts are the whole of the new one.
PublishPlan ==
    /\ Move("reset", "redefine")
    /\ Unreset = {}
    /\ Publish("plan", {"requirement", "impact_report"}, "revision", plan.version + 1)
    /\ UNCHANGED <<vars, subjects, plan, told, mem, cuts, met>>

\* Upserts that no plan had become tasks at once, affected tasks get the
\* parameters of their entry.
Redefined(t) ==
    IF task[t].status = "ABSENT" THEN NewTask(RevisedDeps[t], t \in HasFallback)
    ELSE [task[t] EXCEPT !.deps = RevisedDeps[t], !.fallback = t \in HasFallback]

OldPlan == \E i, j \in Versions("plan") : i # j

Redefinable ==
    {t \in IF OldPlan THEN PlanTasks ELSE Upserts :
        /\ t \in mem.affected \/ (task[t].status = "ABSENT" /\ ~OldPlan)
        /\ task[t] # Redefined(t)}

RedefineTask(t) ==
    /\ at = "redefine"
    /\ IsFirst(t, Redefinable)
    /\ Save(t, Redefined(t))
    /\ UNCHANGED <<run, approvals, main, pc, wave, hand, died, rvars>>

SaveRevision ==
    /\ Move("redefine", "request")
    /\ Redefinable = {}
    /\ plan' = [replans |-> plan.replans + 1, applied |-> TRUE, version |-> plan.version + 1]
    /\ run' = [run EXCEPT !.pending = 0]
    /\ UNCHANGED <<task, approvals, main, pc, wave, hand, died>>
    /\ UNCHANGED <<arts, subjects, told, mem, cuts, met>>

\* Faulty: the plan is adopted without asking.
ContinueRevised ==
    /\ at = "request"
    /\ run' = [run EXCEPT !.status = "executing"]
    /\ Leave
    /\ UNCHANGED <<task, approvals, main, pc, wave, hand, died>>
    /\ UNCHANGED <<arts, subjects, plan, told, cuts, met>>

RequestRenewal ==
    /\ Move("request", "pause")
    /\ TRUE \in Reapproval
    /\ approvals' = Append(approvals, [task |-> "plan.revised", status |-> "pending"])
    /\ subjects' = Append(subjects, Digests({"plan", Contract}))
    /\ mem' = [mem EXCEPT !.asked = Len(approvals) + 1]
    /\ UNCHANGED <<run, task, main, pc, wave, hand, died, arts, plan, told, cuts, met>>

PauseRevised ==
    /\ at = "pause"
    /\ run' = [run EXCEPT !.status = "awaiting_approval", !.pending = mem.asked]
    /\ pc' = "idle"
    /\ Leave
    /\ UNCHANGED <<task, approvals, main, wave, hand, died>>
    /\ UNCHANGED <<arts, subjects, plan, told, cuts, met>>

\* require_reapproval: false.
GoOn ==
    /\ at = "request"
    /\ FALSE \in Reapproval
    /\ run' = [run EXCEPT !.status = "executing"]
    /\ met' = met \cup {"waived"}
    /\ Leave
    /\ UNCHANGED <<task, approvals, main, pc, wave, hand, died, arts, subjects, plan, told, cuts>>

CutRevision ==
    /\ at # "none"
    /\ Cardinality(cuts) + Len(died) < MaxDeaths
    /\ cuts' = cuts \cup {at}
    /\ pc' = "idle"
    /\ Leave
    /\ UNCHANGED <<run, task, approvals, main, wave, hand, died>>
    /\ UNCHANGED <<arts, subjects, plan, told, met>>

Revise ==
    \/ RevisionRefused \/ CloseApproval \/ PublishContract \/ FindAffected \/ PublishPlan
    \/ SaveRevision \/ RequestRenewal \/ PauseRevised \/ GoOn \/ CutRevision
    \/ \E i \in DOMAIN arts : Invalidate(i)
    \/ \E t \in Tasks : ResetTask(t) \/ RedefineTask(t)

-------------------------------------------------------------------------------
CrashEngine ==
    /\ Crash
    /\ Cardinality(cuts) + Len(died) < MaxDeaths
    /\ told' = {}
    /\ UNCHANGED <<arts, subjects, plan, at, mem, cuts, met>>

EngineAlone ==
    \/ BeginTick \/ ConsumeRefused \/ Promote
    \/ SavePromoted \/ SaveReviewReady \/ Proceed \/ Loop
    \/ WaveDone \/ CountRepair \/ FailuresHandled \/ SavePause
    \/ \E t \in Tasks : SaveBootstrapTask(t) \/ RecoverTask(t) \/ HandleFailure(t)
                            \/ GateAllowed(t) \/ GateDenied(t)

Tick ==
    \/ EngineAlone /\ UNCHANGED rvars
    \/ EndPass \/ ConsumeCurrent \/ ConsumeStale \/ ClearTaskGate \/ ClearRevision
    \/ \E t \in Tasks : BeginTask(t) \/ PublishOutput(t) \/ EndTask(t) \/ Ask(t)
    \/ CrashEngine

RNext ==
    \/ at = "none" /\ (Tick \/ OperatorRevises)
    \/ Revise
    \/ \E i \in DOMAIN approvals, decision \in {"approved", "rejected"} : Decide(i, decision)

RSpec == RInit /\ [][RNext]_<<vars, rvars>>

-------------------------------------------------------------------------------
(* What a revision promises *)

\* The tasks whose work rests on the contract: they read something made from
\* it, or depend on such a task.
Downstream ==
    LET Closed(S) == \A t \in PlanTasks :
            (\/ Contract \in Reads[t]
             \/ \E u \in S : Produces[u] \in Reads[t] \/ u \in PlanDeps[t] \cup RevisedDeps[t])
            => t \in S IN
    {t \in PlanTasks : \A S \in SUBSET PlanTasks : Closed(S) => t \in S}

\* The work that rests on the contract is work of the plan: its artifacts have
\* names of their own, and neither the analysis nor a repair reads one of them,
\* as in every scenario of the repository (repairs read the plan).
RevisionApart ==
    /\ \A t \in Downstream : Produces[t] \notin {"requirement", "impact_report", "plan", Contract}
    /\ \A t \in Tasks \ PlanTasks :
          Contract \notin Reads[t] /\ \A u \in Downstream : Produces[u] \notin Reads[t]

\* What t waits for before and after every revision, and what it leads to.
WaitsAnyway(t) ==
    IF t \in Bootstrap THEN BootstrapDeps[t]
    ELSE (PlanDeps[t] \cap RevisedDeps[t]) \cup {"create_plan"}

LeadsAnyway(t, u) ==
    \A S \in SUBSET (Bootstrap \cup PlanTasks) :
        u \in S /\ (\A x \in S : WaitsAnyway(x) \subseteq S) => t \in S

\* GatesInTurn also of the revised plan.
RevisedInTurn ==
    /\ \A t \in Tasks : Gate[t] # {} => t \in Bootstrap \cup PlanTasks
    /\ \A t, u \in Tasks :
          Gate[t] # {} /\ Gate[u] # {} /\ t # u => LeadsAnyway(t, u) \/ LeadsAnyway(u, t)

\* Where work first rests on the contract.
Roots == {t \in Downstream : Contract \in Reads[t] /\ Produces[t] # ""}

\* A revision reaches all work that rests on the contract, as in the scenario of
\* the repository that is revised: before and after, this work waits for a task
\* that reads the contract and publishes, the release waits for all of it, and
\* only the normalization publishes the contract.
RevisionReaches ==
    /\ \A t \in Downstream : \E r \in Roots : LeadsAnyway(r, t)
    /\ \A t \in Tasks \ {"normalize"} : Produces[t] # Contract
    /\ \A r \in ReleaseTasks, t \in Downstream : LeadsAnyway(t, r)

\* From the contract published to the run saved: the next tick goes on with
\* the tasks as they stand and with artifacts that are stale.
ReviseWindow == {"invalidate", "reset", "redefine"}

\* A run that ends well has nothing left that was made from an older contract:
\* what every task downstream of it last published is fresh and was published
\* after the current version (invalidate_descendants, the reset of affected
\* tasks).  The exceptions are a process that died inside revise(), and a
\* revision before the plan, whose contract normalize then publishes over.
CompleteMeansCurrent ==
    run.status \in {"review_ready", "promoted"} /\ at = "none" =>
        \/ cuts \cap ReviseWindow # {} \/ (cuts # {} /\ "ended" \in met)
        \/ "unplanned" \in met
        \/ \A t \in Downstream : task[t].status # "ABSENT" /\ Produces[t] # "" =>
              LET i == Current(Produces[t]) IN i > Current(Contract) /\ ~arts[i].stale

\* Work that does not rest on the contract is never done twice: no finished
\* task outside Downstream is queued again ("everything else keeps its
\* status/evidence", replan.py).
UnaffectedWorkKept ==
    [][\A t \in PlanTasks \ Downstream :
          task[t].status = "SUCCEEDED" => task'[t].status = "SUCCEEDED"]_<<vars, rvars>>

Renewable == plan.replans > 0 /\ cuts \cap {"request", "pause"} = {}
                              /\ met \cap {"unplanned", "waived"} = {}

PlanRenewed == \E i \in DOMAIN approvals :
    /\ Renews(i) /\ approvals[i].status = "approved"
    /\ [name |-> "plan", content |-> plan.version] \in subjects[i]

\* After a revision no task is started before a human has approved the plan it
\* made, unless there was no plan to revise, the revision asks for no approval,
\* or the process died after the save of the run and before its pause: with the
\* question not yet saved, or saved and no run waiting for it ("renewed
\* authority where the contract changed").
RenewedAuthority ==
    [][Renewable => \A t \in Tasks :
          task'[t].status = "RUNNING" /\ task[t].status # "RUNNING" => PlanRenewed]_<<vars, rvars>>

\* No task runs before the gates it builds on are passed, but after a revision
\* that found a gate still closed or came before there was a plan, and after a
\* death among the resets, which leaves finished work below unfinished work.
GatesUnlessReplaced ==
    \/ met \cap {"gated", "unplanned"} # {} \/ "reset" \in cuts
    \/ DiedIn(GateWindow) \/ GateBeforeDependents
===============================================================================
