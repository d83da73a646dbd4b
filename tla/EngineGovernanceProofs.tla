------------------------ MODULE EngineGovernanceProofs ------------------------
(***************************************************************************)
(* Who decides: Engine implements GovernedRun and obeys a rejection, for   *)
(* every plan, every policy and every budget, if the process does not die  *)
(* between an approval and the pause on it; and it passes every gate of a  *)
(* plan whose gates come one after the other.                              *)
(***************************************************************************)
EXTENDS EngineOrderProofs

-------------------------------------------------------------------------------
(* Work in flight *)

QuietPlaces == {"failures", "repair", "rewire", "count", "gates", "request"} \cup ConsumeWindow

\* The process asks, waits and resumes with no worker running.
Quiet ==
    pc \in QuietPlaces \/ run.status = "awaiting_approval" => RunningTasks(task) = {}

LEMMA RunningNames ==
    ASSUME TypeInv
    PROVE  RunningTasks(task) = {t \in Tasks : task[t].status = "RUNNING"}
BY DEF TypeInv, TypeOK, RunningTasks

LEMMA NoNewRunning ==
    ASSUME TypeInv, TypeInv', WaveOK, Next, pc # "wave"
    PROVE  RunningTasks(task)' \subseteq RunningTasks(task)
<1>1. \A t \in Tasks : task'[t].status = "RUNNING" => task[t].status = "RUNNING"
  BY RowSteps DEF RowStep, Kept, Created, Cleared, Requeued, Started, Ended, Routed
<1>2. RunningTasks(task)' = {t \in Tasks : task'[t].status = "RUNNING"}
  BY DEF TypeInv, TypeOK, RunningTasks
<1> QED
  BY <1>1, <1>2, RunningNames

LEMMA QuietMoves ==
    ASSUME TypeInv, PlacesInv, Next,
           pc' \in QuietPlaces \/ run'.status = "awaiting_approval"
    PROVE  \/ pc # "wave" /\ (pc \in QuietPlaces \/ run.status = "awaiting_approval")
           \/ RunningTasks(task) = {} /\ UNCHANGED task
<1> USE DEF Goto, Stop, QuietPlaces, ConsumeWindow, PlacesInv
<1>0. run \in RunRow
  BY DEF TypeInv, TypeOK, RunRow
<1> USE <1>0 DEF RunRow
<1>1. CASE BeginTick \/ Resume
  BY <1>1 DEF BeginTick, Resume, ConsumeApproved, ConsumeRefused, ClearGate, Promote,
              SavePromoted, SaveReviewReady, Proceed
<1>2. CASE Loop
  BY <1>2 DEF Loop, NextWave, WithinBudget, WavesExhausted, TimeExhausted,
              MaterializeRaises, Schedule, Blocked, Finalize, Scheduling
<1>3. CASE WaveDone \/ CountRepair \/ FailuresHandled \/ SavePause \/ GatesDone
  BY <1>3 DEF WaveDone, CountRepair, FailuresHandled, SavePause, GatesDone
<1>4. ASSUME NEW t \in Tasks, SaveBootstrapTask(t) \/ RecoverTask(t) \/ Execute(t)
      PROVE  FALSE
  BY <1>4 DEF SaveBootstrapTask, RecoverTask, Execute, StartTask, TaskSucceeds, TaskFails
<1>5. ASSUME NEW t \in Tasks, HandleFailure(t)
      PROVE  pc # "wave" /\ pc \in QuietPlaces
  BY <1>5 DEF HandleFailure, Failed, Retry, RetriesExhausted, TakeFallback, NoFallback,
              SaveRepair, SaveReintegrate, RepairCollides, Rewire, Rollback, NoRepair
<1>6. ASSUME NEW t \in Tasks, ProcessGate(t)
      PROVE  pc # "wave" /\ pc \in QuietPlaces
  BY <1>6 DEF ProcessGate, NextGate, GateAllowed, RequestApproval, GateDenied
<1>7. CASE Approver \/ Crash
  BY <1>7 DEF Approver, Resolve, Crash, durable
<1> QED
  BY <1>1, <1>2, <1>3, <1>4, <1>5, <1>6, <1>7 DEF Next, Process

LEMMA QuietStep ==
    ASSUME TypeInv, TypeInv', WaveOK, PlacesInv, Quiet, Next
    PROVE  Quiet'
<1> SUFFICES ASSUME pc' \in QuietPlaces \/ run'.status = "awaiting_approval"
             PROVE  RunningTasks(task)' = {}
  BY DEF Quiet
<1>1. CASE pc # "wave" /\ (pc \in QuietPlaces \/ run.status = "awaiting_approval")
  BY <1>1, NoNewRunning DEF Quiet
<1>2. CASE RunningTasks(task) = {} /\ UNCHANGED task
  BY <1>2 DEF RunningTasks
<1> QED
  BY <1>1, <1>2, QuietMoves

-------------------------------------------------------------------------------
(* The question that is being asked *)

\* The run waits for the newest approval, or has consumed it; the mainline is
\* merged at the end of a run only.
LastInv ==
    /\ pc = "request" => hand = Len(approvals)
    /\ pc \in ConsumeWindow => run.status = "awaiting_approval"
    /\ pc = "approved" => hand = Len(approvals)
    /\ run.status = "awaiting_approval" =>
          /\ Len(approvals) # 0
          /\ run.pending \in {0, Len(approvals)}
          /\ run.pending = 0 => LastApproval.status = "approved"
    /\ pc \in {"promote", "promoted", "review"} => LastApproval.task \in ReleaseTasks
    /\ pc = "proceed" => LastApproval.task \notin ReleaseTasks
    /\ main => \/ run.status = "promoted"
               \/ pc = "promoted"
               \/ pc = "idle" /\ run.status = "awaiting_approval" /\ run.pending = 0
    /\ pc = "promoted" => main

\* A rejection is of the question that is being asked, or has ended the run.
RejectionInv ==
    \A i \in DOMAIN approvals : approvals[i].status = "rejected" =>
        \/ run.status = "denied"
        \/ run.status = "awaiting_approval" /\ run.pending = i
        \/ pc = "request" /\ hand = i

LEMMA ApprovalFacts ==
    ASSUME TypeInv
    PROVE  /\ DOMAIN approvals = 1..Len(approvals) /\ Len(approvals) \in Nat
           /\ \A i \in DOMAIN approvals : i # 0
<1> DEFINE Row == [task : Tasks, status : {"pending", "approved", "rejected"}]
<1>1. approvals \in Seq(Row)
  BY DEF TypeInv, TypeOK
<1> HIDE DEF Row
<1> QED
  BY <1>1

LEMMA LastResume ==
    ASSUME TypeInv, PlacesInv, LastInv, BeginTick \/ Resume
    PROVE  LastInv'
<1> USE DEF LastInv, PlacesInv, Goto, Stop, ConsumeWindow, LastApproval, Terminal
<1>0. run \in RunRow
  BY DEF TypeInv, TypeOK, RunRow
<1> USE <1>0 DEF RunRow
<1>1. CASE BeginTick
  BY <1>1 DEF BeginTick
<1>2. CASE ConsumeApproved \/ ConsumeRefused
  BY <1>2 DEF ConsumeApproved, ConsumeRefused
<1>3. CASE ClearGate
  BY <1>3 DEF ClearGate
<1>4. CASE Promote
  BY <1>4 DEF Promote
<1>5. CASE SavePromoted \/ SaveReviewReady \/ Proceed
  BY <1>5 DEF SavePromoted, SaveReviewReady, Proceed
<1> QED
  BY <1>1, <1>2, <1>3, <1>4, <1>5 DEF Resume

\* Bootstrap, workers and failure routing have nothing to do with a question.
LEMMA AwayMoves ==
    ASSUME TypeInv, NEW t \in Tasks,
           SaveBootstrapTask(t) \/ RecoverTask(t) \/ Execute(t) \/ HandleFailure(t)
    PROVE  /\ UNCHANGED <<approvals, main>>
           /\ pc \notin {"idle", "request"} \cup ConsumeWindow
           /\ pc' \notin {"request"} \cup ConsumeWindow
           /\ \/ UNCHANGED run
              \/ pc = "failures" /\ pc' = "idle" /\ run'.status \in {"safe_stopped", "failed"}
<1> USE DEF Goto, Stop, ConsumeWindow
<1>0. run \in RunRow
  BY DEF TypeInv, TypeOK, RunRow
<1>1. CASE SaveBootstrapTask(t) \/ RecoverTask(t) \/ Execute(t)
  BY <1>1 DEF SaveBootstrapTask, RecoverTask, Execute, StartTask, TaskSucceeds, TaskFails
<1>2. CASE HandleFailure(t)
  BY <1>0, <1>2
     DEF RunRow, HandleFailure, Failed, Retry, RetriesExhausted, TakeFallback, NoFallback,
         SaveRepair, SaveReintegrate, RepairCollides, Rewire, Rollback, NoRepair
<1> QED
  BY <1>1, <1>2

LEMMA LastStep ==
    ASSUME TypeInv, PlacesInv, LastInv, Next
    PROVE  LastInv'
<1> USE DEF LastInv, PlacesInv, Goto, Stop, ConsumeWindow, LastApproval, Terminal
<1>0. run \in RunRow
  BY DEF TypeInv, TypeOK, RunRow
<1> USE <1>0 DEF RunRow
<1>1. CASE BeginTick \/ Resume
  BY <1>1, LastResume
<1>2. CASE Loop
  BY <1>2 DEF Loop, NextWave, WithinBudget, WavesExhausted, TimeExhausted,
              MaterializeRaises, Schedule, Blocked, Finalize, Scheduling
<1>3. CASE SavePause
  BY <1>3, ApprovalFacts DEF SavePause
<1>4. CASE WaveDone \/ CountRepair \/ FailuresHandled \/ GatesDone
  BY <1>4 DEF WaveDone, CountRepair, FailuresHandled, GatesDone
<1>5. ASSUME NEW t \in Tasks,
             SaveBootstrapTask(t) \/ RecoverTask(t) \/ Execute(t) \/ HandleFailure(t)
      PROVE  LastInv'
  BY <1>5, AwayMoves
<1>6. ASSUME NEW t \in Tasks, GateAllowed(t) \/ GateDenied(t)
      PROVE  LastInv'
  BY <1>6 DEF NextGate, GateAllowed, GateDenied
<1>7. ASSUME NEW t \in Tasks, RequestApproval(t)
      PROVE  LastInv'
  <2>1. pc = "gates" /\ pc' = "request" /\ hand' = Len(approvals) + 1 /\ UNCHANGED <<run, main>>
    BY <1>7 DEF RequestApproval, NextGate
  <2>2. Len(approvals') = Len(approvals) + 1
    <3> DEFINE Row == [task : Tasks, status : {"pending", "approved", "rejected"}]
               row == [task |-> t, status |-> "pending"]
    <3>1. approvals \in Seq(Row) /\ row \in Row /\ approvals' = Append(approvals, row)
      BY <1>7 DEF RequestApproval, TypeInv, TypeOK
    <3> HIDE DEF Row, row
    <3> QED
      BY <3>1
  <2> QED
    BY <2>1, <2>2
<1>8. ASSUME NEW i \in DOMAIN approvals, NEW decision \in {"approved", "rejected"},
             Resolve(i, decision)
      PROVE  LastInv'
  <2>1. /\ UNCHANGED <<run, pc, hand, main>> /\ approvals[i].status = "pending"
        /\ DOMAIN approvals' = DOMAIN approvals
        /\ \A j \in DOMAIN approvals : approvals'[j].task = approvals[j].task
        /\ \A j \in DOMAIN approvals \ {i} : approvals'[j] = approvals[j]
    BY <1>8, ResolveType DEF Resolve, TypeInv
  <2>2. Len(approvals') = Len(approvals)
    <3> DEFINE Row == [task : Tasks, status : {"pending", "approved", "rejected"}]
    <3>1. approvals \in Seq(Row) /\ approvals' \in Seq(Row)
      BY <1>8, ResolveType DEF Resolve, TypeInv, TypeOK
    <3> HIDE DEF Row
    <3> QED
      BY <2>1, <3>1
  <2>3. CASE run.status = "awaiting_approval"
    <3>1. Len(approvals) \in DOMAIN approvals
      BY <2>3, ApprovalFacts
    <3> QED
      BY <2>1, <2>2, <2>3, <3>1
  <2>4. CASE run.status # "awaiting_approval"
    BY <2>1, <2>2, <2>4
  <2> QED
    BY <2>3, <2>4
<1>9. CASE Crash
  BY <1>9 DEF Crash, durable
<1> QED
  BY <1>1, <1>2, <1>3, <1>4, <1>5, <1>6, <1>7, <1>8, <1>9
     DEF Next, Process, ProcessGate, Approver

LEMMA RejectionStep ==
    ASSUME TypeInv, PlacesInv, OneOpenQuestion, RejectionInv, Next, "request" \notin CrashPoints
    PROVE  RejectionInv'
<1>0. run \in RunRow
  BY DEF TypeInv, TypeOK, RunRow
<1>1. CASE UNCHANGED <<approvals, run, pc, hand>>
  BY <1>1 DEF RejectionInv
<1>2. CASE /\ UNCHANGED approvals
           /\ pc # "request"
           /\ run.status # "awaiting_approval" \/ pc \in ConsumeWindow
  <2>1. ASSUME run.status = "denied"
        PROVE  run' = run
    <3>1. pc = "idle"
      BY <2>1 DEF PlacesInv, Terminal
    <3> QED
      BY <2>1, <3>1, TerminalStays DEF Terminal
  <2> QED
    BY <1>2, <2>1, ApprovalFacts DEF RejectionInv, PlacesInv, TypeInv, TypeOK
<1>3. CASE SavePause
  BY <1>0, <1>3 DEF SavePause, RejectionInv, PlacesInv, RunRow, Terminal, ConsumeWindow
<1>4. CASE ConsumeApproved \/ ConsumeRefused
  BY <1>0, <1>4 DEF ConsumeApproved, ConsumeRefused, RejectionInv, Goto, Stop, RunRow
<1>5. CASE Crash
  BY <1>5, RequestIsSafe DEF Crash, durable, RejectionInv
<1>6. ASSUME NEW t \in Tasks, RequestApproval(t)
      PROVE  RejectionInv'
  <2>1. pc = "gates" /\ run.status # "awaiting_approval" /\ run.status # "denied"
    BY <1>6 DEF RequestApproval, NextGate, PlacesInv, ConsumeWindow, Terminal
  <2>2. /\ DOMAIN approvals' = 1..Len(approvals) + 1
        /\ DOMAIN approvals = 1..Len(approvals)
        /\ Len(approvals) \in Nat
        /\ \A i \in DOMAIN approvals : approvals'[i] = approvals[i]
        /\ approvals'[Len(approvals) + 1].status = "pending"
    BY <1>6, AppendType DEF RequestApproval, TypeInv
  <2>3. \A i \in DOMAIN approvals' : i \in DOMAIN approvals \/ i = Len(approvals) + 1
    BY <2>2
  <2> QED
    BY <2>1, <2>2, <2>3 DEF RejectionInv
<1>7. ASSUME NEW i \in DOMAIN approvals, NEW decision \in {"approved", "rejected"},
             Resolve(i, decision)
      PROVE  RejectionInv'
  <2>1. /\ DOMAIN approvals' = DOMAIN approvals
        /\ \A j \in DOMAIN approvals \ {i} : approvals'[j] = approvals[j]
        /\ approvals[i].status = "pending" /\ UNCHANGED <<run, pc, hand>>
    BY <1>7, ResolveType DEF Resolve, TypeInv
  <2> QED
    BY <2>1 DEF OneOpenQuestion, RejectionInv
<1> QED
  BY <1>1, <1>2, <1>3, <1>4, <1>5, <1>6, <1>7, QuestionMoves DEF Approver

-------------------------------------------------------------------------------
(* The steps of the abstract run *)

Busy == RunningTasks(task) # {}

LEMMA WorkMaps ==
    ASSUME ~Asked, ~Asked', run.status \notin Terminal, run'.status \notin Terminal,
           UNCHANGED main
    PROVE  Governed!Work
BY DEF Governed!Work, Terminal

LEMMA StutterMaps ==
    ASSUME Asked' = Asked, Asked => LastApproval' = LastApproval,
           \/ run'.status = run.status
           \/ run.status \notin Terminal /\ run'.status \notin Terminal,
           Busy' = Busy, UNCHANGED main
    PROVE  UNCHANGED Governed!gvars
BY DEF Governed!gvars, Busy, Terminal

LEMMA AskMaps ==
    ASSUME ~Asked, Asked', run.status \notin Terminal, run'.status \notin Terminal,
           LastApproval'.status = "pending", ~Busy, ~Busy', UNCHANGED main
    PROVE  \E q \in {"gate", "release"} : Governed!Ask(q)
BY DEF Governed!Ask, Busy, Terminal

LEMMA AnswerMaps ==
    ASSUME Asked, Asked', run.status \notin Terminal, run'.status = run.status,
           LastApproval.status = "pending", LastApproval'.status \in {"approved", "rejected"},
           LastApproval'.task = LastApproval.task, Busy' = Busy, UNCHANGED main
    PROVE  \E a \in {"approved", "rejected"} : Governed!Answer(a)
BY DEF Governed!Answer, Busy, Terminal

LEMMA ContinueMaps ==
    ASSUME Asked, ~Asked', run.status \notin Terminal, run'.status \notin Terminal,
           LastApproval.status = "approved", LastApproval.task \notin ReleaseTasks,
           Busy' = Busy, UNCHANGED main
    PROVE  Governed!Continue
BY DEF Governed!Continue, Governed!Leave, Busy, Terminal

LEMMA MergeMaps ==
    ASSUME Asked, Asked', run.status \notin Terminal, run'.status = run.status,
           LastApproval.status = "approved", LastApproval.task \in ReleaseTasks,
           LastApproval' = LastApproval, Busy' = Busy, main' = TRUE
    PROVE  Governed!Merge
BY DEF Governed!Merge, Busy, Terminal

LEMMA CloseMaps ==
    ASSUME ~Asked', run.status \notin Terminal, run'.status \in Terminal,
           \/ ~Asked /\ run'.status # "promoted"
           \/ Asked /\ LastApproval.status = "rejected" /\ run'.status # "promoted"
           \/ /\ Asked /\ LastApproval.status = "approved"
              /\ LastApproval.task \in ReleaseTasks
              /\ IF main THEN run'.status = "promoted" ELSE run'.status # "promoted",
           Busy' = Busy, UNCHANGED main
    PROVE  Governed!Close
BY DEF Governed!Close, Governed!Leave, Busy, Terminal

GovInv ==
    /\ OrderInv
    /\ Quiet /\ LastInv
    /\ OneOpenQuestion /\ RejectionInv

LEMMA ResumeMaps ==
    ASSUME GovInv, GovInv', run.status \notin Terminal, BeginTick \/ Resume
    PROVE  [Governed!Next]_Governed!gvars
<1> USE DEF Goto, Stop, Asked, LastApproval, ConsumeWindow
<1>0. /\ TypeInv /\ PlacesInv /\ LastInv /\ Quiet /\ Quiet'
      /\ run \in RunRow /\ Len(approvals) \in Nat
  BY ApprovalFacts DEF GovInv, OrderInv, SafeInv, TypeInv, TypeOK, RunRow
<1>1. CASE BeginTick
  <2>1. ~Asked /\ ~Asked' /\ run'.status \notin Terminal /\ UNCHANGED main
    BY <1>0, <1>1 DEF BeginTick, RunRow, Terminal
  <2> QED
    BY <2>1, WorkMaps DEF Governed!Next
<1>2. CASE ConsumeApproved
  <2>1. /\ Asked /\ Asked' /\ run'.status = run.status
        /\ UNCHANGED <<approvals, task, main>>
    BY <1>0, <1>2 DEF ConsumeApproved, RunRow
  <2> QED
    BY <2>1, StutterMaps DEF Busy
<1>3. CASE ConsumeRefused
  <2>1. /\ Asked /\ ~Asked' /\ run'.status = "denied"
        /\ UNCHANGED <<task, main>>
    BY <1>0, <1>3 DEF ConsumeRefused, RunRow
  <2>2. LastApproval.status = "rejected"
    BY <1>0, <1>3 DEF ConsumeRefused, LastInv
  <2> QED
    BY <2>1, <2>2, CloseMaps DEF Governed!Next, Busy, Terminal
<1>4. CASE ClearGate
  <2>1. run.status = "awaiting_approval" /\ pc' # "request" /\ UNCHANGED <<run, approvals, main>>
    BY <1>0, <1>4 DEF ClearGate, LastInv
  <2>2. ~Busy /\ ~Busy'
    BY <1>0, <2>1 DEF Quiet, Busy
  <2> QED
    BY <2>1, <2>2, StutterMaps DEF Busy
<1>5. CASE Promote
  <2>1. /\ run.status = "awaiting_approval" /\ run.pending = 0
        /\ LastApproval.task \in ReleaseTasks /\ main' = TRUE
        /\ UNCHANGED <<run, task, approvals>>
    BY <1>0, <1>5 DEF Promote, LastInv, PlacesInv
  <2>2. LastApproval.status = "approved"
    BY <1>0, <2>1 DEF LastInv
  <2> QED
    BY <2>1, <2>2, MergeMaps DEF Governed!Next, Busy
<1>7. CASE SavePromoted \/ SaveReviewReady
  <2>1. /\ run.status = "awaiting_approval" /\ run.pending = 0
        /\ LastApproval.task \in ReleaseTasks
        /\ UNCHANGED <<main, task, approvals>> /\ pc' = "idle"
        /\ IF main THEN run'.status = "promoted" ELSE run'.status = "review_ready"
    BY <1>0, <1>7 DEF SavePromoted, SaveReviewReady, LastInv, PlacesInv, RunRow
  <2>2. LastApproval.status = "approved"
    BY <1>0, <2>1 DEF LastInv
  <2>3. ~Asked' /\ run'.status \in Terminal
    BY <2>1 DEF Terminal
  <2> QED
    BY <2>1, <2>2, <2>3, CloseMaps DEF Governed!Next, Busy
<1>8. CASE Proceed
  <2>1. /\ run.status = "awaiting_approval" /\ run.pending = 0
        /\ LastApproval.task \notin ReleaseTasks
        /\ UNCHANGED <<main, task, approvals>> /\ pc' = "loop" /\ run'.status = "executing"
    BY <1>0, <1>8 DEF Proceed, LastInv, PlacesInv, RunRow
  <2>2. LastApproval.status = "approved"
    BY <1>0, <2>1 DEF LastInv
  <2> QED
    BY <2>1, <2>2, ContinueMaps DEF Governed!Next, Busy, Terminal
<1> QED
  BY <1>1, <1>2, <1>3, <1>4, <1>5, <1>7, <1>8 DEF Resume

\* Everything tick() does between two questions.
LEMMA OpenMaps ==
    ASSUME GovInv, GovInv', Next, ~Asked, ~Asked', run.status \notin Terminal,
           UNCHANGED main, run'.status # "promoted",
           \/ UNCHANGED task
           \/ pc # "wave" /\ ~Busy
           \/ run'.status \notin Terminal
    PROVE  [Governed!Next]_Governed!gvars
<1>1. CASE run'.status \notin Terminal
  BY <1>1, WorkMaps DEF Governed!Next
<1>2. CASE run'.status \in Terminal
  <2>1. Busy' = Busy
    BY <1>2, NoNewRunning DEF GovInv, OrderInv, SafeInv, Busy
  <2> QED
    BY <1>2, <2>1, CloseMaps DEF Governed!Next
<1> QED
  BY <1>1, <1>2

LEMMA NextMaps ==
    ASSUME GovInv, GovInv', Next, "request" \notin CrashPoints
    PROVE  [Governed!Next]_Governed!gvars
<1> USE DEF Goto, Stop, Asked, LastApproval
<1>0. /\ TypeInv /\ PlacesInv /\ LastInv /\ Quiet /\ Quiet' /\ OneOpenQuestion
      /\ run \in RunRow /\ Len(approvals) \in Nat
  BY ApprovalFacts DEF GovInv, OrderInv, SafeInv, TypeInv, TypeOK, RunRow
<1>1. CASE run.status \in Terminal
  <2>1. UNCHANGED <<run, task, main, pc>> /\ ~Asked
    BY <1>0, <1>1, TerminalStays DEF PlacesInv, Terminal
  <2> QED
    BY <2>1, StutterMaps DEF Busy
<1> SUFFICES ASSUME run.status \notin Terminal PROVE [Governed!Next]_Governed!gvars
  BY <1>1
<1>2. CASE BeginTick \/ Resume
  BY <1>2, ResumeMaps
<1>3. CASE Loop
  <2>1. /\ ~Asked /\ ~Asked' /\ UNCHANGED main /\ run'.status # "promoted"
        /\ \/ UNCHANGED task
           \/ pc # "wave" /\ ~Busy
           \/ run'.status \notin Terminal
    BY <1>0, <1>3
       DEF Loop, NextWave, WithinBudget, WavesExhausted, TimeExhausted, MaterializeRaises,
           Schedule, Blocked, Finalize, Scheduling, PlacesInv, ConsumeWindow, RunRow,
           Terminal, Busy
  <2> QED
    BY <2>1, OpenMaps
<1>4. CASE SavePause
  <2>1. /\ Asked /\ Asked' /\ run'.status = "awaiting_approval"
        /\ UNCHANGED <<task, approvals, main>>
    BY <1>0, <1>4 DEF SavePause, RunRow
  <2> QED
    BY <2>1, StutterMaps DEF Busy, Terminal
<1>5. CASE WaveDone \/ CountRepair \/ FailuresHandled \/ GatesDone
  <2>1. /\ ~Asked /\ ~Asked' /\ run'.status = run.status /\ UNCHANGED main
    BY <1>0, <1>5
       DEF WaveDone, CountRepair, FailuresHandled, GatesDone, PlacesInv, ConsumeWindow, RunRow
  <2> QED
    BY <2>1, WorkMaps DEF Governed!Next
<1>6. ASSUME NEW t \in Tasks,
             SaveBootstrapTask(t) \/ RecoverTask(t) \/ Execute(t) \/ HandleFailure(t)
      PROVE  [Governed!Next]_Governed!gvars
  <2>0. /\ UNCHANGED main
        /\ pc \notin {"idle", "request"} \cup ConsumeWindow
        /\ pc' \notin {"request"} \cup ConsumeWindow
        /\ \/ UNCHANGED run
           \/ pc = "failures" /\ pc' = "idle" /\ run'.status \in {"safe_stopped", "failed"}
    BY <1>0, <1>6, AwayMoves
  <2>1. /\ ~Asked /\ ~Asked' /\ UNCHANGED main
        /\ \/ UNCHANGED run
           \/ pc = "failures" /\ run'.status \in {"safe_stopped", "failed"}
    BY <1>0, <2>0 DEF PlacesInv
  <2>2. pc = "failures" => ~Busy
    BY <1>0 DEF Quiet, QuietPlaces, Busy
  <2> QED
    BY <2>1, <2>2, OpenMaps DEF Terminal
<1>7. ASSUME NEW t \in Tasks, GateAllowed(t) \/ GateDenied(t)
      PROVE  [Governed!Next]_Governed!gvars
  <2>1. /\ ~Asked /\ ~Asked' /\ UNCHANGED main /\ run'.status # "promoted"
        /\ pc = "gates"
    BY <1>0, <1>7 DEF GateAllowed, GateDenied, NextGate, PlacesInv, ConsumeWindow, RunRow,
                      Terminal
  <2>2. ~Busy
    BY <1>0, <2>1 DEF Quiet, QuietPlaces, Busy
  <2> QED
    BY <2>1, <2>2, OpenMaps
<1>8. ASSUME NEW t \in Tasks, RequestApproval(t)
      PROVE  [Governed!Next]_Governed!gvars
  <2>1. /\ ~Asked /\ Asked' /\ UNCHANGED <<run, task, main>> /\ pc = "gates"
    BY <1>0, <1>8 DEF RequestApproval, NextGate, PlacesInv, ConsumeWindow
  <2>2. ~Busy /\ ~Busy'
    BY <1>0, <2>1 DEF Quiet, QuietPlaces, Busy
  <2>3. LastApproval'.status = "pending"
    <3> DEFINE Row == [task : Tasks, status : {"pending", "approved", "rejected"}]
               row == [task |-> t, status |-> "pending"]
    <3>1. approvals \in Seq(Row) /\ row \in Row /\ approvals' = Append(approvals, row)
      BY <1>0, <1>8 DEF RequestApproval, TypeInv, TypeOK
    <3>2. row.status = "pending"
      OBVIOUS
    <3> HIDE DEF Row, row
    <3>3. approvals'[Len(approvals')] = row
      BY <3>1
    <3> QED
      BY <3>2, <3>3
  <2> QED
    BY <2>1, <2>2, <2>3, AskMaps DEF Governed!Next
<1>9. ASSUME NEW i \in DOMAIN approvals, NEW decision \in {"approved", "rejected"},
             Resolve(i, decision)
      PROVE  [Governed!Next]_Governed!gvars
  <2>1. /\ UNCHANGED <<run, task, main, pc, hand>> /\ approvals[i].status = "pending"
        /\ approvals'[i].status = decision /\ approvals'[i].task = approvals[i].task
        /\ DOMAIN approvals' = DOMAIN approvals
    BY <1>0, <1>9, ResolveType DEF Resolve, TypeInv
  <2>2. Len(approvals') = Len(approvals)
    <3> DEFINE Row == [task : Tasks, status : {"pending", "approved", "rejected"}]
    <3>1. approvals \in Seq(Row) /\ approvals' \in Seq(Row)
      BY <1>0, <1>9, ResolveType DEF Resolve, TypeInv, TypeOK
    <3> HIDE DEF Row
    <3> QED
      BY <2>1, <3>1
  <2>3. Asked /\ i = Len(approvals)
    BY <1>0, <2>1, ApprovalFacts DEF OneOpenQuestion, LastInv
  <2> QED
    BY <2>1, <2>2, <2>3, AnswerMaps DEF Governed!Next, Busy
<1>10. CASE Crash
  <2>1. UNCHANGED <<run, task, approvals, main>> /\ pc # "request" /\ pc' # "request"
    BY <1>10, RequestIsSafe DEF Crash, durable
  <2> QED
    BY <2>1, StutterMaps DEF Busy
<1> QED
  BY <1>2, <1>3, <1>4, <1>5, <1>6, <1>7, <1>8, <1>9, <1>10
     DEF Next, Process, ProcessGate, Approver

-------------------------------------------------------------------------------
(* The theorems about questions *)

LEMMA InitGov == Init => GovInv /\ Governed!Init
<1> SUFFICES ASSUME Init PROVE GovInv /\ Governed!Init
  OBVIOUS
<1>1. OrderInv /\ OneOpenQuestion
  BY InitOrder
<1>2. RunningTasks(task) = {}
  BY DEF Init, RunningTasks, NoTask, NewTask
<1>3. LastInv /\ RejectionInv
  BY DEF Init, LastInv, RejectionInv, ConsumeWindow
<1>4. Governed!Init
  BY <1>2 DEF Init, Governed!Init, Asked, Terminal
<1> QED
  BY <1>1, <1>2, <1>3, <1>4 DEF GovInv, Quiet

LEMMA GovStep ==
    ASSUME "request" \notin CrashPoints
    PROVE  GovInv /\ [Next]_vars => GovInv'
<1> SUFFICES ASSUME GovInv, [Next]_vars PROVE GovInv'
  OBVIOUS
<1>1. OrderInv'
  BY OrderStep DEF GovInv
<1>2. TypeInv /\ TypeInv' /\ WaveOK /\ PlacesInv
  BY <1>1 DEF GovInv, OrderInv, SafeInv
<1>3. CASE Next
  BY <1>1, <1>2, <1>3, QuietStep, LastStep, QuestionStep, RejectionStep DEF GovInv
<1>4. CASE UNCHANGED vars
  <2>1. Quiet' /\ OneOpenQuestion' /\ RejectionInv'
    BY <1>4 DEF GovInv, vars, Quiet, RunningTasks, OneOpenQuestion, RejectionInv
  <2>2. LastInv'
    BY <1>4 DEF GovInv, vars, LastInv, LastApproval
  <2> QED
    BY <1>1, <2>1, <2>2 DEF GovInv
<1> QED
  BY <1>3, <1>4

LEMMA AlwaysGoverned ==
    ASSUME "request" \notin CrashPoints
    PROVE  Spec => []GovInv
<1>1. Init => GovInv
  BY InitGov
<1>2. GovInv /\ [Next]_vars => GovInv'
  BY GovStep
<1> QED
  BY <1>1, <1>2, PTL DEF Spec

\* The engine implements GovernedRun: seen from outside, the run asks, waits,
\* continues, merges and ends as that specification allows.
THEOREM EngineIsGoverned ==
    ASSUME "request" \notin CrashPoints
    PROVE  Spec => Governance
<1>1. Init => Governed!Init
  BY InitGov
<1>2. GovInv /\ GovInv' /\ [Next]_vars => [Governed!Next]_Governed!gvars
  <2>1. GovInv /\ GovInv' /\ Next => [Governed!Next]_Governed!gvars
    BY NextMaps
  <2>2. UNCHANGED vars => UNCHANGED Governed!gvars
    BY StutterMaps DEF vars, Asked, LastApproval, Busy
  <2> QED
    BY <2>1, <2>2
<1> QED
  BY <1>1, <1>2, AlwaysGoverned, PTL DEF Spec, Governance, Governed!Spec

\* Once a human has rejected something, no step starts a task or touches
\* workload main.
THEOREM RejectionsAreFinal ==
    ASSUME "request" \notin CrashPoints
    PROVE  Spec => RejectionStops
<1> DEFINE Stops == (\E i \in DOMAIN approvals : approvals[i].status = "rejected")
                      => /\ \A t \in Tasks : task'[t].status = "RUNNING" =>
                                                task[t].status = "RUNNING"
                         /\ main' = main
<1>1. GovInv /\ GovInv' /\ [Next]_vars => [Stops]_vars
  <2> SUFFICES ASSUME GovInv, GovInv', Next,
                      NEW i \in DOMAIN approvals, approvals[i].status = "rejected"
               PROVE  /\ \A t \in Tasks : task'[t].status = "RUNNING" =>
                                              task[t].status = "RUNNING"
                      /\ main' = main
    OBVIOUS
  <2>0. /\ TypeInv /\ TypeInv' /\ WaveOK /\ PlacesInv /\ LastInv /\ RejectionInv
        /\ i # 0
    BY ApprovalFacts DEF GovInv, OrderInv, SafeInv
  <2>1. pc \in {"idle", "request"}
    BY <2>0 DEF RejectionInv, PlacesInv, Terminal
  <2>2. \A t \in Tasks : task'[t].status = "RUNNING" => task[t].status = "RUNNING"
    BY <2>0, <2>1, NoNewRunning, RunningNames DEF RunningTasks, TypeInv, TypeOK
  <2>3. main' = main
    BY <2>0, <2>1, OnlyPromoteMerges DEF Promote, Goto
  <2> QED
    BY <2>2, <2>3
<1> QED
  BY <1>1, AlwaysGoverned, PTL DEF Spec, RejectionStops

-------------------------------------------------------------------------------
(* Gates *)

\* Work rests on nothing that has a gate to pass.
WorkClear ==
    \A t \in Tasks : (t \in wave \/ task[t].status \in {"RUNNING", "SUCCEEDED"})
        => \A d \in task[t].deps : ~Gated(d)

\* Where the process is when every gate it has met is passed.
ClearPlaces == {"start", "loop", "budget", "recover", "proceed", "promote", "promoted", "review"}

AtClearPlace ==
    \/ pc \in ClearPlaces
    \/ pc = "idle" /\ run.status \in {"created", "executing"}

PlacesClear == AtClearPlace => \A t \in Tasks : ~Gated(t)

\* The approval that is asked for, waited for or just consumed.
Asking ==
    \/ pc \in {"request", "approved"}
    \/ pc = "idle" /\ run.status = "awaiting_approval" /\ run.pending # 0

InHand == IF pc = "idle" THEN run.pending ELSE hand

AskingClear == Asking => \A t \in Tasks : Gated(t) => t = approvals[InHand].task

GatesKept == DiedIn(GateWindow) \/ (WorkClear /\ PlacesClear /\ AskingClear)

\* A run is resumed while it waits, and merged or handed over for a release.
Resuming ==
    /\ pc = "approved" => run.status = "awaiting_approval"
    /\ pc \in {"promote", "promoted", "review"} =>
          hand # 0 /\ approvals[hand].task \in ReleaseTasks

\* start() has saved its tasks when tick() begins.
Bootstrapped == DiedIn({"start"}) \/ (pc # "start" => Missing = {})

\* What a finished task waited for is finished and has passed its gate.
LEMMA WaitedFor ==
    ASSUME WorkClear, DependenciesFirst, DependenciesShaped, RowsOfAnAdoptedPlan,
           NEW t \in Bootstrap \cup PlanTasks, NEW u \in Bootstrap \cup PlanTasks,
           task[u].status = "SUCCEEDED", Leads(t, u)
    PROVE  t = u \/ (task[t].status = "SUCCEEDED" /\ ~Gated(t))
<1> DEFINE S == {x \in Bootstrap \cup PlanTasks : task[x].status = "SUCCEEDED" /\ ~Gated(x)}
<1>0. Bootstrap \cup PlanTasks \subseteq Tasks
  BY DEF Tasks
<1>1. ASSUME NEW x \in Bootstrap \cup PlanTasks, task[x].status = "SUCCEEDED"
      PROVE  Waits(x) \subseteq S
  <2>1. \A d \in task[x].deps : task[d].status = "SUCCEEDED" /\ ~Gated(d)
    BY <1>0, <1>1 DEF WorkClear, DependenciesFirst
  <2>2. CASE x \in Bootstrap
    <3>1. task[x].deps = BootstrapDeps[x]
      BY <1>0, <1>1, <2>2 DEF DependenciesShaped, Shaped
    <3>2. BootstrapDeps[x] \subseteq Bootstrap
      BY <2>2 DEF Bootstrap, BootstrapDeps
    <3> QED
      BY <2>1, <2>2, <3>1, <3>2 DEF Waits
  <2>3. CASE x \notin Bootstrap
    <3>1. x \in PlanTasks
      BY <2>3
    <3>2. PlanDeps[x] \subseteq task[x].deps /\ PlanDeps[x] \subseteq PlanTasks
      BY <1>0, <1>1, <3>1, PlanAssumption DEF DependenciesShaped, Shaped
    <3>3. PlanAdopted
      BY <1>1, <3>1 DEF RowsOfAnAdoptedPlan
    <3>4. "create_plan" \in S
      BY <3>3 DEF PlanAdopted, Gated, Bootstrap
    <3> QED
      BY <2>1, <2>3, <3>2, <3>4 DEF Waits
  <2> QED
    BY <2>2, <2>3
<1>2. S \cup {u} \in SUBSET (Bootstrap \cup PlanTasks) /\ u \in S \cup {u}
  OBVIOUS
<1>3. \A x \in S \cup {u} : Waits(x) \subseteq S \cup {u}
  BY <1>1
<1>4. t \in S \cup {u}
  <2> HIDE DEF S
  <2> QED
    BY <1>2, <1>3 DEF Leads
<1> QED
  BY <1>4

\* There is never a second gate to pass.
LEMMA OneAtATime ==
    ASSUME WorkClear, DependenciesFirst, DependenciesShaped, RowsOfAnAdoptedPlan, GatesInTurn,
           NEW t \in Tasks, NEW u \in Tasks, Gated(t), Gated(u)
    PROVE  t = u
<1> SUFFICES ASSUME t # u PROVE FALSE
  OBVIOUS
<1>1. /\ t \in Bootstrap \cup PlanTasks /\ u \in Bootstrap \cup PlanTasks
      /\ task[t].status = "SUCCEEDED" /\ task[u].status = "SUCCEEDED"
      /\ Leads(t, u) \/ Leads(u, t)
  BY DEF GatesInTurn, Gated
<1> QED
  BY <1>1, WaitedFor

\* A gate comes up when its task succeeds.
LEMMA NewGate ==
    ASSUME TypeInv, Next, NEW t \in Tasks, Gated(t)'
    PROVE  Gated(t) \/ (pc = "wave" /\ task[t].status = "RUNNING")
<1>1. RowStep(t)
  BY RowSteps
<1> QED
  BY <1>1 DEF RowStep, Kept, Created, Cleared, Requeued, Started, Ended, Routed, Gated

LEMMA WorkClearStep ==
    ASSUME TypeInv, TypeInv', WaveOK, DependenciesFirst, WorkClear, PlacesClear, Next
    PROVE  WorkClear'
<1> SUFFICES ASSUME NEW t \in Tasks, t \in wave' \/ task'[t].status \in {"RUNNING", "SUCCEEDED"},
                    NEW d \in task'[t].deps, Gated(d)'
             PROVE  FALSE
  BY DEF WorkClear
<1>1. d \in Tasks
  <2>1. task'[t] \in TaskRow
    <3> HIDE DEF TaskRow
    <3> QED
      BY DEF TypeInv, TypeOK
  <2> QED
    BY <2>1 DEF TaskRow
<1>2. Gated(d) \/ (pc = "wave" /\ task[d].status = "RUNNING")
  BY <1>1, NewGate
<1>3. CASE Schedule
  <2>1. pc = "recover"
    BY <1>3 DEF Schedule, Scheduling
  <2> QED
    BY <1>1, <1>2, <2>1 DEF PlacesClear, AtClearPlace, ClearPlaces
<1>4. CASE ~Schedule
  <2>1. wave' \subseteq wave
    BY <1>4, WaveMoves
  <2>2. RowStep(t)
    BY RowSteps
  <2>3. /\ t \in wave \/ task[t].status \in {"RUNNING", "SUCCEEDED"}
        /\ task'[t].deps = task[t].deps
    BY <2>1, <2>2 DEF RowStep, Kept, Created, Cleared, Requeued, Started, Ended, Routed, WaveOK
  <2>4. task[d].status = "SUCCEEDED" /\ ~Gated(d)
    BY <2>3 DEF DependenciesFirst, WorkClear
  <2> QED
    BY <1>2, <2>4
<1> QED
  BY <1>3, <1>4

LEMMA ResumingStep ==
    ASSUME TypeInv, PlacesInv, Holding, Resuming, Next
    PROVE  Resuming'
<1> USE DEF Goto, Stop, Resuming
<1>0. run \in RunRow
  BY DEF TypeInv, TypeOK, RunRow
<1> USE <1>0 DEF RunRow
<1>1. CASE BeginTick \/ ConsumeApproved \/ ConsumeRefused
  BY <1>1 DEF BeginTick, ConsumeApproved, ConsumeRefused
<1>2. CASE ClearGate
  BY <1>2 DEF ClearGate, TypeInv, PlaceOK
<1>3. CASE Promote \/ SavePromoted \/ SaveReviewReady \/ Proceed
  BY <1>3 DEF Promote, SavePromoted, SaveReviewReady, Proceed
<1>4. CASE Loop
  BY <1>4 DEF Loop, NextWave, WithinBudget, WavesExhausted, TimeExhausted,
              MaterializeRaises, Schedule, Blocked, Finalize, Scheduling
<1>5. CASE WaveDone \/ CountRepair \/ FailuresHandled \/ SavePause \/ GatesDone
  BY <1>5 DEF WaveDone, CountRepair, FailuresHandled, SavePause, GatesDone
<1>6. ASSUME NEW t \in Tasks, SaveBootstrapTask(t) \/ RecoverTask(t) \/ Execute(t)
      PROVE  Resuming'
  BY <1>6 DEF SaveBootstrapTask, RecoverTask, Execute, StartTask, TaskSucceeds, TaskFails
<1>7. ASSUME NEW t \in Tasks, HandleFailure(t)
      PROVE  Resuming'
  BY <1>7 DEF HandleFailure, Failed, Retry, RetriesExhausted, TakeFallback, NoFallback,
              SaveRepair, SaveReintegrate, RepairCollides, Rewire, Rollback, NoRepair
<1>8. ASSUME NEW t \in Tasks, ProcessGate(t)
      PROVE  Resuming'
  BY <1>8 DEF ProcessGate, NextGate, GateAllowed, RequestApproval, GateDenied
<1>9. ASSUME NEW i \in DOMAIN approvals, NEW decision \in {"approved", "rejected"},
             Resolve(i, decision)
      PROVE  Resuming'
  <2>1. \A j \in DOMAIN approvals : approvals'[j].task = approvals[j].task
    BY <1>9, ResolveType DEF Resolve, TypeInv
  <2> QED
    BY <1>9, <2>1 DEF Resolve, TypeInv, TypeOK
<1>10. CASE Crash
  BY <1>10 DEF Crash, durable
<1> QED
  BY <1>1, <1>2, <1>3, <1>4, <1>5, <1>6, <1>7, <1>8, <1>9, <1>10
     DEF Next, Process, Resume, Approver

\* How the process comes to a place at which every gate must be passed.
LEMMA ClearMoves ==
    ASSUME TypeInv, PlacesInv, Resuming, Next, AtClearPlace'
    PROVE  \/ AtClearPlace
           \/ ClearGate
           \/ pc # "wave" /\ \A t \in Tasks : ~Gated(t)
           \/ \E t \in Tasks : RepairCollides(t)
           \/ Crash /\ pc \in GateWindow
<1> USE DEF Goto, Stop, AtClearPlace, ClearPlaces
<1>0. run \in RunRow /\ pc \in PC
  BY DEF TypeInv, TypeOK, RunRow
<1> USE <1>0 DEF RunRow
<1>1. CASE BeginTick \/ Resume
  BY <1>1 DEF BeginTick, Resume, ConsumeApproved, ConsumeRefused, Promote,
              SavePromoted, SaveReviewReady, Proceed
<1>2. CASE Loop
  BY <1>2 DEF Loop, NextWave, WithinBudget, WavesExhausted, TimeExhausted,
              MaterializeRaises, Schedule, Blocked, Finalize, Scheduling
<1>3. CASE WaveDone \/ CountRepair \/ FailuresHandled \/ SavePause \/ GatesDone
  BY <1>3 DEF WaveDone, CountRepair, FailuresHandled, SavePause, GatesDone
<1>4. ASSUME NEW t \in Tasks, SaveBootstrapTask(t) \/ RecoverTask(t) \/ Execute(t)
      PROVE  AtClearPlace
  BY <1>4 DEF SaveBootstrapTask, RecoverTask, Execute, StartTask, TaskSucceeds, TaskFails
<1>5. ASSUME NEW t \in Tasks, HandleFailure(t)
      PROVE  RepairCollides(t)
  BY <1>5 DEF HandleFailure, Failed, Retry, RetriesExhausted, TakeFallback, NoFallback,
              SaveRepair, SaveReintegrate, Rewire, Rollback, NoRepair
<1>6. ASSUME NEW t \in Tasks, ProcessGate(t)
      PROVE  FALSE
  BY <1>6 DEF ProcessGate, NextGate, GateAllowed, GateDenied, RequestApproval
<1>7. CASE Approver
  BY <1>7 DEF Approver, Resolve
<1>8. CASE Crash
  BY <1>8 DEF Crash, durable, GateWindow, RepairWindow, PC, Resuming
<1> QED
  BY <1>1, <1>2, <1>3, <1>4, <1>5, <1>6, <1>7, <1>8 DEF Next, Process

LEMMA PlacesClearStep ==
    ASSUME TypeInv, PlacesInv, RepairsSurvive, Resuming, PlacesClear, AskingClear, Next,
           ~DiedIn(GateWindow)'
    PROVE  PlacesClear'
<1> SUFFICES ASSUME AtClearPlace', NEW t \in Tasks, Gated(t)'
             PROVE  FALSE
  BY DEF PlacesClear
<1>0. ~DiedIn(GateWindow) /\ ~(Crash /\ pc \in GateWindow)
  BY DeathsRecorded
<1>1. CASE AtClearPlace
  BY <1>1, NewGate DEF PlacesClear, AtClearPlace, ClearPlaces
<1>2. CASE ClearGate
  <2> DEFINE u == approvals[hand].task
             new == [task[u] EXCEPT !.cleared = TRUE]
  <2>1. pc = "approved" /\ hand \in DOMAIN approvals
    BY <1>2 DEF ClearGate, Goto, TypeInv, TypeOK, PlaceOK
  <2>2. u \in Tasks
    BY <2>1, ApprovalRow DEF TypeInv
  <2>3. Save(u, new)
    BY <1>2 DEF ClearGate
  <2>4. new.cleared
    BY <2>2, ClearedRow, RowType DEF TypeInv
  <2>5. t = u
    BY <2>1, NewGate DEF AskingClear, Asking, InHand
  <2> HIDE DEF u, new
  <2>6. task'[t] = new
    BY <2>2, <2>3, <2>5, SaveOne
  <2> QED
    BY <2>4, <2>6 DEF Gated
<1>3. CASE pc # "wave" /\ \A x \in Tasks : ~Gated(x)
  BY <1>3, NewGate
<1>4. CASE \E x \in Tasks : RepairCollides(x)
  BY <1>0, <1>4, NoCollision DEF RepairsSurvive, DiedIn, GateWindow
<1> QED
  BY <1>0, <1>1, <1>2, <1>3, <1>4, ClearMoves

\* How the process comes to have a question in hand.
LEMMA AskingMoves ==
    ASSUME TypeInv, PlacesInv, Next, Asking'
    PROVE  \/ \E t \in Tasks : RequestApproval(t)
           \/ Asking /\ InHand' = InHand /\ pc # "wave" /\ UNCHANGED task
<1> USE DEF Goto, Stop, PlacesInv, Asking, InHand, ConsumeWindow
<1>0. run \in RunRow /\ pc \in PC
  BY DEF TypeInv, TypeOK, RunRow
<1> USE <1>0 DEF RunRow
<1>1. CASE BeginTick \/ Resume
  BY <1>1 DEF BeginTick, Resume, ConsumeApproved, ConsumeRefused, ClearGate, Promote,
              SavePromoted, SaveReviewReady, Proceed
<1>2. CASE Loop
  BY <1>2 DEF Loop, NextWave, WithinBudget, WavesExhausted, TimeExhausted,
              MaterializeRaises, Schedule, Blocked, Finalize, Scheduling
<1>3. CASE WaveDone \/ CountRepair \/ FailuresHandled \/ SavePause \/ GatesDone
  BY <1>3 DEF WaveDone, CountRepair, FailuresHandled, SavePause, GatesDone
<1>4. ASSUME NEW t \in Tasks, SaveBootstrapTask(t) \/ RecoverTask(t) \/ Execute(t)
      PROVE  FALSE
  BY <1>4 DEF SaveBootstrapTask, RecoverTask, Execute, StartTask, TaskSucceeds, TaskFails
<1>5. ASSUME NEW t \in Tasks, HandleFailure(t)
      PROVE  FALSE
  BY <1>5 DEF HandleFailure, Failed, Retry, RetriesExhausted, TakeFallback, NoFallback,
              SaveRepair, SaveReintegrate, RepairCollides, Rewire, Rollback, NoRepair
<1>6. ASSUME NEW t \in Tasks, ProcessGate(t)
      PROVE  RequestApproval(t)
  BY <1>6 DEF ProcessGate, NextGate, GateAllowed, GateDenied
<1>7. CASE Approver \/ Crash
  BY <1>7 DEF Approver, Resolve, Crash, durable
<1> QED
  BY <1>1, <1>2, <1>3, <1>4, <1>5, <1>6, <1>7 DEF Next, Process

\* How it comes to merge or to hand over: with the approval it has resumed.
LEMMA ReleasingMoves ==
    ASSUME Next, pc' \in {"promote", "promoted", "review"}
    PROVE  pc \in {"approved", "promote", "promoted", "review"} /\ hand' = hand
<1> USE DEF Goto, Stop
<1>1. CASE BeginTick \/ Resume
  BY <1>1 DEF BeginTick, Resume, ConsumeApproved, ConsumeRefused, ClearGate, Promote,
              SavePromoted, SaveReviewReady, Proceed
<1>2. ~Loop
  BY DEF Loop, NextWave, WithinBudget, WavesExhausted, TimeExhausted,
         MaterializeRaises, Schedule, Blocked, Finalize
<1>3. ~(WaveDone \/ CountRepair \/ FailuresHandled \/ SavePause \/ GatesDone)
  BY DEF WaveDone, CountRepair, FailuresHandled, SavePause, GatesDone
<1>4. ASSUME NEW t \in Tasks, SaveBootstrapTask(t) \/ RecoverTask(t) \/ Execute(t)
      PROVE  pc' = pc \/ pc' \in {"start", "idle", "recover"}
  BY <1>4 DEF SaveBootstrapTask, RecoverTask, Execute, StartTask, TaskSucceeds, TaskFails
<1>5. ASSUME NEW t \in Tasks, SaveBootstrapTask(t) \/ RecoverTask(t) \/ Execute(t)
      PROVE  pc \in {"start", "recover", "wave"}
  BY <1>5 DEF SaveBootstrapTask, RecoverTask, Execute, StartTask, TaskSucceeds, TaskFails
<1>6. ASSUME NEW t \in Tasks
      PROVE  ~HandleFailure(t)
  BY DEF HandleFailure, Failed, Retry, RetriesExhausted, TakeFallback, NoFallback,
         SaveRepair, SaveReintegrate, RepairCollides, Rewire, Rollback, NoRepair
<1>7. ASSUME NEW t \in Tasks
      PROVE  ~ProcessGate(t)
  BY DEF ProcessGate, NextGate, GateAllowed, RequestApproval, GateDenied
<1>8. CASE Approver \/ Crash
  BY <1>8 DEF Approver, Resolve, Crash
<1> QED
  BY <1>1, <1>2, <1>3, <1>4, <1>5, <1>6, <1>7, <1>8 DEF Next, Process

LEMMA AskingClearStep ==
    ASSUME TypeInv, PlacesInv, DependenciesFirst, DependenciesShaped, RowsOfAnAdoptedPlan,
           GatesInTurn, WorkClear, AskingClear, Next
    PROVE  AskingClear'
<1> SUFFICES ASSUME Asking', NEW t \in Tasks, Gated(t)'
             PROVE  t = approvals'[InHand'].task
  BY DEF AskingClear
<1>1. ASSUME NEW u \in Tasks, RequestApproval(u)
      PROVE  t = approvals'[InHand'].task
  <2> DEFINE Row == [task : Tasks, status : {"pending", "approved", "rejected"}]
             row == [task |-> u, status |-> "pending"]
  <2>1. /\ approvals \in Seq(Row) /\ row \in Row /\ approvals' = Append(approvals, row)
        /\ InHand' = Len(approvals) + 1 /\ UNCHANGED task /\ Gated(u)
    BY <1>1 DEF RequestApproval, NextGate, IsFirst, InHand, TypeInv, TypeOK
  <2>2. row.task = u
    OBVIOUS
  <2>3. Gated(t)
    BY <2>1 DEF Gated
  <2>4. t = u
    BY <2>1, <2>3, OneAtATime
  <2> HIDE DEF Row, row
  <2>5. approvals'[Len(approvals) + 1] = row
    BY <2>1
  <2> QED
    BY <2>1, <2>2, <2>4, <2>5
<1>2. CASE Asking /\ InHand' = InHand /\ pc # "wave" /\ UNCHANGED task
  <2>1. Gated(t)
    BY <1>2 DEF Gated
  <2>2. t = approvals[InHand].task
    BY <1>2, <2>1 DEF AskingClear
  <2>3. InHand \in DOMAIN approvals
    BY <1>2 DEF Asking, InHand, TypeInv, TypeOK, PlaceOK, PlacesInv
  <2>4. approvals'[InHand].task = approvals[InHand].task
    BY <1>2, <2>3, ApprovalStep
  <2> QED
    BY <1>2, <2>2, <2>4
<1> QED
  BY <1>1, <1>2, AskingMoves

LEMMA KeptStep ==
    ASSUME OrderInv, OrderInv', Resuming, GatesKept, GatesInTurn, Next
    PROVE  GatesKept'
<1>0. /\ TypeInv /\ TypeInv' /\ WaveOK /\ PlacesInv /\ DependenciesFirst
      /\ DependenciesShaped /\ RowsOfAnAdoptedPlan /\ RepairsSurvive
  BY DEF OrderInv, SafeInv
<1>1. CASE DiedIn(GateWindow)'
  BY <1>1 DEF GatesKept, DiedIn
<1>2. CASE ~DiedIn(GateWindow)'
  <2>1. WorkClear /\ PlacesClear /\ AskingClear
    BY <1>0, <1>2, DeathsRecorded DEF GatesKept
  <2>2. WorkClear' /\ PlacesClear' /\ AskingClear'
    BY <1>0, <1>2, <2>1, WorkClearStep, PlacesClearStep, AskingClearStep
  <2> QED
    BY <2>2 DEF GatesKept
<1> QED
  BY <1>1, <1>2

-------------------------------------------------------------------------------
(* Completion *)

LEMMA StartMoves ==
    ASSUME TypeInv, Next, pc = "start"
    PROVE  \/ \E t \in Tasks : SaveBootstrapTask(t)
           \/ pc' = "start" /\ UNCHANGED task
           \/ Crash
<1> USE DEF Goto
<1>1. ~(BeginTick \/ Resume)
  BY DEF BeginTick, Resume, ConsumeApproved, ConsumeRefused, ClearGate, Promote,
         SavePromoted, SaveReviewReady, Proceed
<1>2. ~Loop
  BY DEF Loop, NextWave, WithinBudget, WavesExhausted, TimeExhausted,
         MaterializeRaises, Schedule, Blocked, Finalize, Scheduling
<1>3. ~(WaveDone \/ CountRepair \/ FailuresHandled \/ SavePause \/ GatesDone)
  BY DEF WaveDone, CountRepair, FailuresHandled, SavePause, GatesDone
<1>4. ASSUME NEW t \in Tasks, RecoverTask(t) \/ Execute(t) \/ HandleFailure(t) \/ ProcessGate(t)
      PROVE  FALSE
  BY <1>4
     DEF RecoverTask, Execute, StartTask, TaskSucceeds, TaskFails, HandleFailure, Failed,
         Retry, RetriesExhausted, TakeFallback, NoFallback, SaveRepair, SaveReintegrate,
         RepairCollides, Rewire, Rollback, NoRepair,
         ProcessGate, NextGate, GateAllowed, RequestApproval, GateDenied
<1>5. CASE Approver
  BY <1>5 DEF Approver, Resolve
<1> QED
  BY <1>1, <1>2, <1>3, <1>4, <1>5 DEF Next, Process

LEMMA BootstrappedStep ==
    ASSUME TypeInv, Bootstrapped, Next
    PROVE  Bootstrapped'
<1> SUFFICES ASSUME ~DiedIn({"start"})', pc' # "start", NEW t \in Bootstrap,
                    task'[t].status = "ABSENT"
             PROVE  FALSE
  BY DEF Bootstrapped, Missing
<1>0. t \in Tasks /\ ~DiedIn({"start"}) /\ ~(Crash /\ pc = "start")
  BY DeathsRecorded DEF Tasks
<1>1. task[t].status = "ABSENT"
  <2>1. RowStep(t)
    BY <1>0, RowSteps
  <2> QED
    BY <2>1 DEF RowStep, Kept, Created, Cleared, Requeued, Started, Ended, Routed
<1>2. pc = "start"
  BY <1>0, <1>1 DEF Bootstrapped, Missing
<1>3. PICK u \in Tasks : SaveBootstrapTask(u)
  BY <1>0, <1>2, StartMoves
<1>4. Missing = {u} /\ Save(u, NewTask(BootstrapDeps[u], FALSE))
  BY <1>3 DEF SaveBootstrapTask
<1>5. t = u
  BY <1>1, <1>4 DEF Missing
<1> QED
  BY <1>0, <1>4, <1>5, SaveOne DEF NewTask

\* A step that ends the run well.
LEMMA CompletionMoves ==
    ASSUME TypeInv, PlacesInv, Next, run'.status \in {"review_ready", "promoted"}
    PROVE  \/ run.status \in {"review_ready", "promoted"}
           \/ SavePromoted \/ SaveReviewReady \/ Finalize
<1> USE DEF Goto, Stop
<1>0. run \in RunRow
  BY DEF TypeInv, TypeOK, RunRow
<1> USE <1>0 DEF RunRow
<1>1. CASE BeginTick \/ Resume
  BY <1>1 DEF BeginTick, Resume, ConsumeApproved, ConsumeRefused, ClearGate, Promote,
              Proceed
<1>2. CASE Loop
  BY <1>2 DEF Loop, NextWave, WithinBudget, WavesExhausted, TimeExhausted,
              MaterializeRaises, Schedule, Blocked
<1>3. CASE WaveDone \/ CountRepair \/ FailuresHandled \/ SavePause \/ GatesDone
  BY <1>3 DEF WaveDone, CountRepair, FailuresHandled, SavePause, GatesDone
<1>4. ASSUME NEW t \in Tasks, SaveBootstrapTask(t) \/ RecoverTask(t) \/ Execute(t)
      PROVE  run.status \in {"review_ready", "promoted"}
  BY <1>4 DEF SaveBootstrapTask, RecoverTask, Execute, StartTask, TaskSucceeds, TaskFails
<1>5. ASSUME NEW t \in Tasks, HandleFailure(t)
      PROVE  run.status \in {"review_ready", "promoted"}
  BY <1>5 DEF HandleFailure, Retry, RetriesExhausted, TakeFallback, NoFallback,
              SaveRepair, SaveReintegrate, RepairCollides, Rewire, Rollback, NoRepair
<1>6. ASSUME NEW t \in Tasks, ProcessGate(t)
      PROVE  run.status \in {"review_ready", "promoted"}
  BY <1>6 DEF ProcessGate, NextGate, GateAllowed, RequestApproval, GateDenied
<1>7. CASE Approver \/ Crash
  BY <1>7 DEF Approver, Resolve, Crash, durable
<1> QED
  BY <1>1, <1>2, <1>3, <1>4, <1>5, <1>6, <1>7 DEF Next, Process

\* A released run has done all that the release waited for.
LEMMA ReleasedIsDone ==
    ASSUME OrderInv, Resuming, WorkClear, PlacesClear, ReleaseIsLast,
           pc \in {"promoted", "review"}, NEW t \in Bootstrap \cup PlanTasks
    PROVE  task[t].status = "SUCCEEDED"
<1> DEFINE r == approvals[hand].task
<1>0. /\ TypeInv /\ DependenciesFirst /\ DependenciesShaped /\ RowsOfAnAdoptedPlan
      /\ AskedAfterSuccess
  BY DEF OrderInv, SafeInv
<1>1. r \in ReleaseTasks /\ hand \in DOMAIN approvals
  BY <1>0 DEF Resuming, TypeInv, TypeOK
<1>2. task[r].status = "SUCCEEDED"
  BY <1>0, <1>1 DEF AskedAfterSuccess
<1> HIDE DEF r
<1>3. r \in Bootstrap \cup PlanTasks /\ Leads(t, r)
  BY <1>1, PlanAssumption DEF ReleaseIsLast
<1> QED
  BY <1>0, <1>2, <1>3, WaitedFor

\* A run that has nothing left to schedule has done all it ever added.
LEMMA FinalizedRows ==
    ASSUME TypeInv, TypeInv', Finalize, NEW t \in Tasks
    PROVE  task'[t].status \in {"ABSENT", "SUCCEEDED"}
<1>1. task' = Materialized /\ DOMAIN task = Tasks /\ DOMAIN Materialized = Tasks
  BY DEF Finalize, Scheduling, TypeInv, TypeOK, Materialized
<1>2. Materialized[t].status \notin {"PENDING", "RUNNING", "FAILED"}
  BY <1>1 DEF Finalize, AnyFailed, Unfinished
<1>3. Materialized[t] \in TaskRow
  <2> HIDE DEF TaskRow
  <2> QED
    BY <1>1 DEF TypeInv, TypeOK
<1> QED
  BY <1>1, <1>2, <1>3 DEF TaskRow, TaskStatus

\* Where planning is behind a gate it has carried out its plan.
LEMMA FinalizedIsDone ==
    ASSUME TypeInv, TypeInv', Missing = {}, PlacesClear, Gate["create_plan"] # {}, Finalize,
           NEW t \in Bootstrap \cup PlanTasks
    PROVE  task'[t].status = "SUCCEEDED"
<1>1. /\ pc = "recover" /\ task' = Materialized
      /\ DOMAIN task = Tasks /\ DOMAIN Materialized = Tasks
      /\ t \in Tasks /\ "create_plan" \in Bootstrap /\ Bootstrap \subseteq Tasks
  BY DEF Finalize, Scheduling, TypeInv, TypeOK, Tasks, Bootstrap, Materialized
<1>2. \A x \in Tasks : Materialized[x].status \in {"ABSENT", "SUCCEEDED"}
  BY <1>1, FinalizedRows
<1>3. \A x \in Bootstrap : Materialized[x].status # "ABSENT"
  BY <1>1 DEF Missing, Materialized, NewTask
<1>4. PlanAdopted
  <2>1. Materialized["create_plan"].status = "SUCCEEDED"
    BY <1>1, <1>2, <1>3
  <2>2. task["create_plan"].status = "SUCCEEDED"
    BY <1>1, <2>1 DEF Materialized, NewTask
  <2>3. ~Gated("create_plan")
    BY <1>1 DEF PlacesClear, AtClearPlace, ClearPlaces
  <2> QED
    BY <2>2, <2>3 DEF PlanAdopted, Gated
<1>5. \A x \in PlanTasks : Materialized[x].status # "ABSENT"
  BY <1>4 DEF Materialized, NewTask, Tasks
<1> QED
  BY <1>1, <1>2, <1>3, <1>5

LEMMA CompletionStep ==
    ASSUME OrderInv, OrderInv', Resuming, GatesKept, Bootstrapped, CompletionSurvives,
           ReleaseIsLast, Next
    PROVE  CompletionSurvives'
<1> DEFINE Ends == {"start"} \cup GateWindow
<1>0. TypeInv /\ TypeInv' /\ PlacesInv
  BY DEF OrderInv, SafeInv
<1> SUFFICES ASSUME ~DiedIn(Ends)', run'.status \in {"review_ready", "promoted"}
             PROVE  /\ \A t \in Bootstrap \cup PlanTasks : task'[t].status = "SUCCEEDED"
                    /\ \A t \in Tasks : ~Gated(t)'
  BY DEF CompletionSurvives, CompleteMeansDone
<1>1. ~DiedIn(Ends) /\ ~DiedIn(GateWindow) /\ ~DiedIn({"start"})
  <2>1. ~DiedIn(Ends)
    BY <1>0, DeathsRecorded
  <2> QED
    BY <2>1 DEF DiedIn
<1>2. WorkClear /\ PlacesClear
  BY <1>1 DEF GatesKept
<1>3. CASE run.status \in {"review_ready", "promoted"}
  <2>1. UNCHANGED task
    BY <1>0, <1>3, TerminalStays DEF Terminal
  <2> QED
    BY <1>1, <1>3, <2>1 DEF CompletionSurvives, CompleteMeansDone, Gated
<1>4. CASE SavePromoted \/ SaveReviewReady
  <2>1. UNCHANGED task /\ pc \in {"promoted", "review"}
    BY <1>4 DEF SavePromoted, SaveReviewReady
  <2>2. \A t \in Tasks : ~Gated(t)
    BY <1>2, <2>1 DEF PlacesClear, AtClearPlace, ClearPlaces
  <2>3. \A t \in Bootstrap \cup PlanTasks : task[t].status = "SUCCEEDED"
    BY <1>2, <2>1, ReleasedIsDone
  <2> QED
    BY <2>1, <2>2, <2>3 DEF Gated
<1>5. CASE Finalize
  <2>1. pc = "recover"
    BY <1>5 DEF Finalize, Scheduling
  <2>2. Missing = {}
    BY <1>1, <2>1 DEF Bootstrapped
  <2>3. \A t \in Bootstrap \cup PlanTasks : task'[t].status = "SUCCEEDED"
    BY <1>0, <1>2, <1>5, <2>2, FinalizedIsDone DEF ReleaseIsLast
  <2>4. \A t \in Tasks : ~Gated(t)'
    BY <1>0, <1>2, <2>1, NewGate DEF PlacesClear, AtClearPlace, ClearPlaces
  <2> QED
    BY <2>3, <2>4
<1> QED
  BY <1>0, <1>3, <1>4, <1>5, CompletionMoves

-------------------------------------------------------------------------------
(* The theorems about gates *)

GatesInv == OrderInv /\ Resuming /\ GatesKept

LEMMA InitGates == Init => GatesInv /\ Bootstrapped /\ CompletionSurvives
<1> SUFFICES ASSUME Init PROVE GatesInv /\ Bootstrapped /\ CompletionSurvives
  OBVIOUS
<1>1. OrderInv
  BY InitOrder
<1>2. \A t \in Tasks : task[t].status = "ABSENT"
  BY DEF Init, NoTask, NewTask
<1>3. WorkClear /\ PlacesClear /\ AskingClear
  BY <1>2 DEF Init, WorkClear, PlacesClear, AskingClear, Asking, Gated
<1>4. Resuming /\ Bootstrapped /\ CompletionSurvives
  BY DEF Init, Resuming, Bootstrapped, CompletionSurvives, CompleteMeansDone
<1> QED
  BY <1>1, <1>3, <1>4 DEF GatesInv, GatesKept

LEMMA GatesStep ==
    ASSUME GatesInTurn
    PROVE  GatesInv /\ [Next]_vars => GatesInv'
<1> SUFFICES ASSUME GatesInv, [Next]_vars PROVE GatesInv'
  OBVIOUS
<1>1. OrderInv'
  BY OrderStep DEF GatesInv
<1>2. CASE Next
  <2>1. Resuming'
    BY <1>2, ResumingStep DEF GatesInv, OrderInv, SafeInv
  <2>2. GatesKept'
    BY <1>1, <1>2, KeptStep DEF GatesInv
  <2> QED
    BY <1>1, <2>1, <2>2 DEF GatesInv
<1>3. CASE UNCHANGED vars
  BY <1>1, <1>3 DEF GatesInv, vars, Resuming, GatesKept, DiedIn, WorkClear, PlacesClear,
                    AtClearPlace, AskingClear, Asking, InHand, Gated
<1> QED
  BY <1>2, <1>3

LEMMA AlwaysGated ==
    ASSUME GatesInTurn
    PROVE  Spec => []GatesInv
<1>1. Init => GatesInv
  BY InitGates
<1>2. GatesInv /\ [Next]_vars => GatesInv'
  BY GatesStep
<1> QED
  BY <1>1, <1>2, PTL DEF Spec

\* Where one gate waits for the other, no task runs on top of a gate that is
\* not passed, unless tick() was cut short between a wave and its gates.
THEOREM GatesHold ==
    ASSUME GatesInTurn
    PROVE  Spec => []GatesSurvive
<1>1. GatesInv => GatesSurvive
  <2> SUFFICES ASSUME GatesInv, ~DiedIn(GateWindow),
                      NEW t \in Tasks, task[t].status = "RUNNING",
                      NEW d \in task[t].deps, Gate[d] # {}
               PROVE  task[d].cleared
    BY DEF GatesSurvive, GateBeforeDependents
  <2>1. WorkClear /\ DependenciesFirst
    BY DEF GatesInv, GatesKept, OrderInv, SafeInv
  <2> QED
    BY <2>1 DEF WorkClear, DependenciesFirst, Gated
<1> QED
  BY <1>1, AlwaysGated, PTL

\* Where the release waits for everything else, a run that is handed over or
\* promoted has carried out the whole plan and passed all its gates, unless
\* start() was cut short, or tick() between a wave and its gates.
THEOREM CompletionIsWhole ==
    ASSUME GatesInTurn, ReleaseIsLast
    PROVE  Spec => []CompletionSurvives
<1> DEFINE Inv == GatesInv /\ Bootstrapped /\ CompletionSurvives
<1>1. Init => Inv
  BY InitGates
<1>2. Inv /\ [Next]_vars => Inv'
  <2> SUFFICES ASSUME Inv, [Next]_vars PROVE Inv'
    OBVIOUS
  <2>1. GatesInv'
    BY GatesStep
  <2>2. CASE Next
    <3>1. Bootstrapped'
      BY <2>2, BootstrappedStep DEF GatesInv, OrderInv, SafeInv
    <3>2. CompletionSurvives'
      BY <2>1, <2>2, CompletionStep DEF GatesInv
    <3> QED
      BY <2>1, <3>1, <3>2
  <2>3. CASE UNCHANGED vars
    BY <2>1, <2>3 DEF vars, Bootstrapped, Missing, CompletionSurvives, CompleteMeansDone,
                      DiedIn, Gated
  <2> QED
    BY <2>2, <2>3
<1> QED
  BY <1>1, <1>2, PTL DEF Spec
===============================================================================
