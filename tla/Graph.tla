-------------------------------- MODULE Graph --------------------------------
(***************************************************************************)
(* Readiness in a task graph (control_plane/graph.py) and what it means    *)
(* for a plan to be a graph at all.  A task is a record with at least the  *)
(* fields status and deps; a store of tasks is a function from names to    *)
(* such records in which status "ABSENT" stands for "no such row".         *)
(***************************************************************************)

\* The statuses a task row can have while only the engine acts on it.
\* models.py also declares STALE and WAIVED, which no code ever assigns, and
\* CANCELLED, which only a later plan version can cause.
TaskStatus == {"PENDING", "RUNNING", "SUCCEEDED", "FAILED"}

\* Faulty: a dependency counts once it has ended.
SatisfiedWhenEnded(status) == status \in {"SUCCEEDED", "FAILED"}

Satisfied(status) == status = "SUCCEEDED"

Present(tasks) == {t \in DOMAIN tasks : tasks[t].status # "ABSENT"}

\* A pending task is ready when every dependency that exists is satisfied; a
\* dependency that is not among the tasks is ignored, and so are gates.
ReadyTasks(tasks) ==
    {t \in DOMAIN tasks :
        /\ tasks[t].status = "PENDING"
        /\ \A d \in tasks[t].deps \cap Present(tasks) : Satisfied(tasks[d].status)}

RunningTasks(tasks) == {t \in DOMAIN tasks : tasks[t].status = "RUNNING"}

Unfinished(tasks) == {t \in DOMAIN tasks : tasks[t].status \in {"PENDING", "RUNNING"}}

\* What validate is for: every dependency is known, and no set of tasks waits
\* only for itself.  GraphValidate shows that Kahn's algorithm decides this.
Acyclic(names, deps) ==
    \A S \in SUBSET names : S # {} => \E t \in S : deps[t] \cap S = {}

ValidPlan(names, deps) ==
    /\ \A t \in names : deps[t] \subseteq names
    /\ Acyclic(names, deps)
==============================================================================
