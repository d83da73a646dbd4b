---------------------------- MODULE GraphValidate ----------------------------
(***************************************************************************)
(* graph.validate: Kahn's algorithm on the list of tasks a plan describes. *)
(* The planner's output is a list, so a name may occur twice in it and in  *)
(* a depends_on; the dictionaries of the algorithm are keyed by name.      *)
(***************************************************************************)
EXTENDS Graph, Integers, Sequences, FiniteSets

CONSTANTS Names,      \* the names tasks and dependencies may have
          MaxTasks,   \* bound: the length of the list
          DepLists    \* the values depends_on may have

ASSUME InputAssumption == MaxTasks \in Nat /\ DepLists \subseteq Seq(Names)

VARIABLES tasks,      \* the argument
          indegree,   \* indegree[n], over the names of the tasks
          queue,      \* names whose indegree is 0
          seen,       \* how many names left the queue
          verdict     \* "none" while it runs; "ok", "unknown" or "cycle"

kvars == <<tasks, indegree, queue, seen, verdict>>

TaskNames == {tasks[i].name : i \in DOMAIN tasks}

Occurrences(d, list) == Cardinality({i \in DOMAIN list : list[i] = d})

\* Faulty: a name repeated in depends_on is one edge.
EdgesOnce(n, c) ==
    Cardinality({i \in DOMAIN tasks :
        tasks[i].name = c /\ \E j \in DOMAIN tasks[i].deps : tasks[i].deps[j] = n})

\* How often the name c stands in children[n].
Edges(n, c) ==
    LET entries == {i \in DOMAIN tasks : tasks[i].name = c}
        pairs   == UNION {{<<i, j>> : j \in {k \in DOMAIN tasks[i].deps :
                                                 tasks[i].deps[k] = n}} : i \in entries}
    IN  Cardinality(pairs)

\* A dictionary built from the list keeps the last entry of a name.
LastEntry(n) == CHOOSE i \in DOMAIN tasks :
    tasks[i].name = n /\ \A j \in DOMAIN tasks : tasks[j].name = n => j <= i

Init ==
    /\ tasks \in UNION {[1..k -> [name : Names, deps : DepLists]] : k \in 0..MaxTasks}
    /\ indegree = <<>>
    /\ queue = {}
    /\ seen = 0
    /\ verdict = "none"

AllKnown == \A i \in DOMAIN tasks : \A j \in DOMAIN tasks[i].deps : tasks[i].deps[j] \in TaskNames

UnknownDependency ==
    /\ verdict = "none"
    /\ indegree = <<>>
    /\ ~AllKnown
    /\ verdict' = "unknown"
    /\ UNCHANGED <<tasks, indegree, queue, seen>>

Count ==
    /\ verdict = "none"
    /\ indegree = <<>>
    /\ TaskNames # {}
    /\ AllKnown
    /\ indegree' = [n \in TaskNames |-> Len(tasks[LastEntry(n)].deps)]
    /\ queue' = {n \in TaskNames : indegree'[n] = 0}
    /\ UNCHANGED <<tasks, seen, verdict>>

\* Each edge to a child lowers its indegree by one, and the child joins the
\* queue at the edge that makes it 0.  The order of the queue is left open.
Pop(n) ==
    /\ verdict = "none"
    /\ n \in queue
    /\ indegree' = [c \in TaskNames |-> indegree[c] - Edges(n, c)]
    /\ queue' = (queue \ {n}) \cup {c \in TaskNames : indegree[c] \in 1..Edges(n, c)}
    /\ seen' = seen + 1
    /\ UNCHANGED <<tasks, verdict>>

Decide ==
    /\ verdict = "none"
    /\ tasks = <<>> \/ indegree # <<>>
    /\ queue = {}
    /\ verdict' = IF seen = Len(tasks) THEN "ok" ELSE "cycle"
    /\ UNCHANGED <<tasks, indegree, queue, seen>>

Next == UnknownDependency \/ Count \/ Decide \/ \E n \in Names : Pop(n)

Spec == Init /\ [][Next]_kvars

-------------------------------------------------------------------------------
Distinct == \A i, j \in DOMAIN tasks : tasks[i].name = tasks[j].name => i = j

DepSet == [n \in TaskNames |->
    UNION {{tasks[i].deps[j] : j \in DOMAIN tasks[i].deps} :
               i \in {k \in DOMAIN tasks : tasks[k].name = n}}]

\* validate accepts exactly the lists that describe a graph the scheduler can
\* finish: every name once, every dependency known, no cycle.
AcceptsExactlyPlans ==
    verdict # "none" =>
        (verdict = "ok" <=> Distinct /\ ValidPlan(TaskNames, DepSet))
==============================================================================
