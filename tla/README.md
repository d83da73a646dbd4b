# A TLA+ model of the agentic software engineering system

This directory holds TLA+ modules that model the repository's orchestration
engine, its workers and revisions, and the two URL shorteners it carries;
configurations with which TLC checks them on small instances; and theorems about
them with proofs that TLAPS checks for every instance.
`PROJECT.json` lists every run, every definition with the source lines it stands
for, the hazards of the code and the theorems.

    tlc -workers 2 -config Change.cfg MCChange      # a run
    tlapm EngineSafetyProofs.tla                    # the proofs of a module

## 1. The system

A *run* carries one change request through a task graph. The **engine**
(`control_plane/engine.py`) schedules it in waves, pauses it on human approvals,
routes failures and recovers it after a restart. Everything is kept in SQLite
through the **store**, one commit per record. The change itself is made in a git
worktree. The workload that scenarios change is a URL shortener, in Python and in
Rust, which lives in the same repository.

| Component | State | Operations | Interacts with |
|---|---|---|---|
| engine `engine.py` | run row, task rows | `start`, `tick` (resume, waves, failures, gates, materialize, finalize), `revise` | all of the below |
| graph `graph.py` | none | `validate`, `ready_tasks`, `running_tasks`, `unfinished`, `descendants` | engine, replanner |
| models `models.py` | the record types | status predicates, digests | all |
| approvals `approvals.py` | approval rows, `run.pending_approval_id` | `request`, `resolve`, `consume` | engine (request, consume), CLI and API (resolve), replanner |
| store `store.py` | `state.db` | one autocommitted statement per save | all |
| artifact registry `artifacts.py` | artifact rows, provenance edges | `publish`, `invalidate_descendants` | workers, replanner, approvals (digests) |
| replanner `replan.py` | none of its own | `revise`, `effective_scenario` | engine, CLI `ase revise` |
| policy `policy.py`, `policies/default.yaml` | decision records | `evaluate`, `enforce` | engine (gates), workers |
| workspace `workspace.py` | git workload and worktrees, `run.current_revision` | `create`, `sync_seed`, `commit`, `rollback`, `promote`, `preserve_for_recovery` | workers, engine |
| evidence `evidence.py` | evidence artifacts | `run_check` | workers |
| workers `workers.py` | artifacts, task gates | eight capabilities | engine's thread pool |
| runner, CLI, API | the `scenario.bound` event | `start_scenario`, `drive`, `resume`, `approve`, `reject`, `revise` | engine, approvals |
| agents `agents/` | token counters | `normalize`, `plan` | workers, in live mode |
| summary, telemetry, dashboard | none | read-only reports | store |
| `shortener/` | links, clicks, idempotency keys, cache, click buffer | create, update, disable, resolve, flush, migrate | its own API |
| `shortener-rs/` | the same database, no cache | the same operations | its own API |

What is hard in it:

* **Crashes.** A tick is a long sequence of commits. The process may die between
  any two of them, and `ase resume` has to find its way from the rows alone.
* **Interleaving.** A wave runs on a pool of threads; approvers resolve approvals
  from other processes; nothing keeps two processes from ticking the same run.
* **Ordering.** Gates are evaluated after the wave, readiness ignores gates,
  repairs add dependencies to tasks that have already run.
* **Budgets.** Attempts are refunded and reset, repairs and waves are counted,
  time passes.
* **Staleness.** Approvals are bound to digests, evidence to revisions, cached
  links to rows; each can change before it is used.

What makes each component correct:

* *engine*: nothing runs before its dependencies; no gate is cleared and main is
  not merged without authority; no task exceeds its attempts; a rejection stops
  the run; a run gives up only when no route is left; a run reported complete is
  complete; every run ends or rests on a question somebody can answer.
* *graph*: `validate` accepts exactly the lists the scheduler can finish.
* *approvals*: one decision per approval, and what is consumed is what was
  approved.
* *artifacts and replanner*: a revision invalidates exactly the descendants of
  what changed, and a crash inside it loses nothing.
* *workspace and evidence*: a release rests on passing evidence of the revision it
  merges.
* *policy*: the first matching rule decides, and the default is to deny.
* *shortener*: a resolve never serves a link that was disabled, expired or changed
  beyond the cache's promise; a key creates one link; an acknowledged click is
  counted once; a migration is applied once.

## 2. The plan

| Order | Modules | Contents | State |
|---|---|---|---|
| 1 | `Graph`, `Engine`, `EngineProps` | scheduling, recovery, gates, approvals, failure routing, crashes | here |
| 2 | `GovernedRun` | abstract specification of human governance, implemented by `Engine` | here |
| 3 | `GraphValidate` | Kahn's algorithm against the meaning of "a plan" | here |
| 4 | `Policy`, `Delivery` | workers, worktree, evidence and release report, composed with `Engine` | here |
| 5 | `Revision` | artifacts, digests, `revise()` by its commits, composed with `Engine` | here |
| 6 | `LinkStore`, `ShortenerPy`, `ShortenerRs`, `Shorteners` | both services on one database | here |
| 7 | `LinkContract` | abstract link store, implemented by `Shorteners` | here |
| 8 | `Migrations` | processes of both services migrate one file and die | here |
| 9 | `EngineSafetyProofs`, `EngineOrderProofs`, `EngineGovernanceProofs`, `GraphValidateProofs`, `DeliveryProofs`, `RevisionProofs`, `ShortenerProofs`, `MigrationsProofs` | 37 theorems | here |
| 10 | two tickers | a second process on the same run | not built: nothing in the code orders two tickers, so there is no promise to state |

## 3. The modules and the code

**`Graph`** is readiness. `Satisfied`, `ReadyTasks`, `RunningTasks` and
`Unfinished` are the functions of `graph.py` on a store of rows, a function from
names to rows in which status `"ABSENT"` stands for no row. A dependency that is
not among the tasks is ignored, and so are gates, as in the code. `ValidPlan`
says what `validate` is for.

**`Engine`** drives one run. Its variables are the rows (`run`, `task`,
`approvals`), workload main (`main`: is the run branch merged), and the stack of
the process that executes `start()` or `tick()` (`pc`, `wave`, `hand`); `died` is
a history of the places at which `start()` or `tick()` was cut short, by the death
of the process or by a git command that raised. Each
`save_run`, `save_task` and `save_approval` is an action of its own, because each
is a commit of its own:

| Code | Actions |
|---|---|
| `start` | `Init`, `SaveBootstrapTask` |
| `tick`, entry | `BeginTick` |
| `consume`, `_resume_from_approval` | `ConsumeApproved`, `ConsumeRefused` |
| `_after_approval`, `promote` | `ClearGate`, `Promote`, `SavePromoted`, `SaveReviewReady`, `Proceed` |
| the loop of `tick` | `NextWave`, `WithinBudget`, `WavesExhausted`, `TimeExhausted`, `RecoverTask`, `Schedule`, `Blocked`, `Finalize` |
| `_execute_wave` | `StartTask`, `TaskSucceeds`, `TaskFails`, `WaveDone` |
| `_handle_failures` | `Retry`, `RetriesExhausted`, `TakeFallback`, `NoFallback`, `SaveRepair`, `SaveReintegrate`, `Rewire`, `CountRepair`, `RepairCollides`, `Rollback`, `NoRepair`, `FailuresHandled` |
| `_process_gates`, `request` | `GateAllowed`, `RequestApproval`, `SavePause`, `GateDenied`, `GatesDone` |
| `_materialize_plan` | `Materialized`, `MaterializeRaises` |
| `resolve`, by another process | `Resolve` |
| what cuts `tick()` short: the death of the process, the merge of `promote` or the reset or clean of `rollback` that raises | `Crash` (`Killed`, `MergeRaises`, `RollbackRaises`) |

In `Engine` a worker is its outcome: it succeeds or raises one of the four
classes of exception, as the constant `Outcomes` allows. A gate is the set of
decisions policy may take on it, so any policy file is covered. Materializing is
one step although it saves one row per entry: the inserts are idempotent and
repeated before every scheduling decision, so a crash between them is not
observable. The scenario file is read anew by every resume, so
`promote_on_approval` is a choice at the moment it is read. Events are left out:
nothing reads them back into the control flow. An exception that leaves `tick()`
(a merge or a rollback in which git raises, a plan that is refused, a row that
exists) leaves the rows as they are and the process idle. The first two happen in
the middle of something, so that the model treats them as it treats a death
(`GitMayFail`, on in every run in which the plan merges or rolls back and the
question depends on it).

**`GovernedRun`** is what governance promises, in 70 lines and without any of
that: a run works while it is open, asks one question at a time and does nothing
until it is answered; "no" ends it; main is merged on "yes" to the release, and a
run that ends merged has merged. `EngineProps` maps the engine to it: the phase is
read off the status of the run and the question and its answer off the last
approval.

**`GraphValidate`** is Kahn's algorithm as `validate` writes it: on a list, in
which a name may occur twice, with dictionaries keyed by name. The order in which
names leave the queue is left open, which covers the stack the code uses.

**`Policy`** is `evaluate` and `enforce` of `policy.py`: the first matching rule
decides, nothing matching is a denial, a threshold (`when_gte`) is met or not, and
`enforce` lets pass what would need an approval. A pattern is the set of strings
it matches.

**`Delivery`** extends `Engine` by what the workers do in the run's worktree.
Variables: `git` (worktree, index, commits, branch head), `rev`
(`current_revision` of the run object that the workers of a wave share) and `saved`
(that of the row, from which the next `tick()` starts), `art` (the latest patches, change set, release report,
and all evidence), `work` (how far each running worker is, lost in a crash),
`merged`; `allowed` and `refused` are histories. The workers of one wave
interleave, and each git command, assignment to the run, save, file written or
artifact published is a step. A git command that raises has done its work or none
of it. A task whose fallback was taken has another seed or other checks (`SeedOf`,
`CheckList`); that a fallback may also name another capability is left out, since
no scenario or test names one:

| Code | Actions |
|---|---|
| `apply_seed`, `write_file` | `WriteFile`, `WriteDenied`, `PublishPatch` |
| `integrate_change`, `commit`, `diff_stats` | `Stage`, `Status`, `Commit`, `CommitFails`, `ReadHead`, `SetRevision`, `SaveRun`, `DiffAllowed`, `DiffDenied`, `PublishChange`, `GitFails` |
| `run_checks`, `run_check` | `CheckDenied`, `ReadRevision`, `RunCheck` (the check may be killed at its timeout, and need not pass if it is `Optional`, `required: false`), `GitFails` |
| `security_scan` | `Scan` |
| `assemble_release`, `build_release_report` | `AssembleRelease` |
| what a worker raises or returns | `WorkerReturns`, `ChecksFailed`, `FailsAtOnce` |
| `rollback` | `ResetHard`, `CleanWorktree`, `SaveRollback`, `FailRolledBack`; `RollbackRaises` when git raises |
| `promote` | `MergeBranch`, which merges the branch and not a revision |

Every action of the engine stays as it is: it is either conjoined with what it
does to the worktree, or listed in `Elsewhere` and leaves the worktree alone. So
`Delivery` implements `Engine`, which `DeliveryProofs` proves.

**`Revision`** extends `Engine` by the artifacts (`arts`: versions, parents,
staleness), the subject digests of approvals (`subjects`), and `revise()`. That
function is a dozen commits; `at` is the next one and `mem` what the function
holds in memory. A revision is scripted (`ScriptDue`, between the gates and the
next wave) or an operator's (`OperatorRevises`, on a run in any status):

| Code | Actions |
|---|---|
| `_maybe_scripted_revision`, `ase revise` | `EndPass`, `OperatorRevises`, `RevisionRefused` |
| `revise` | `CloseApproval`, `PublishContract`, `Invalidate`, `FindAffected`, `ResetTask`, `PublishPlan`, `RedefineTask`, `SaveRevision`, `RequestRenewal`, `PauseRevised`, `GoOn` |
| `publish`, `get_artifact`, `invalidate_descendants` | `Publish`, `Current`, `Children`, `Invalidate` |
| `descendants` | `Dependents` |
| `request`, `resolve`, `consume`, `_staleness` | `Ask`, `Decide`, `ConsumeCurrent`, `ConsumeStale`, `Changed` |
| the death of the process | `CutRevision` inside `revise()`, `CrashEngine` elsewhere |

`cuts` remembers at which commit of `revise()` the process died, `met` in what
state revisions found the run.

**`LinkStore`** is the database file and what one SQL statement does to it.
**`ShortenerPy`** is the Python service: a handler that writes reads first and
then runs one transaction, and those are two steps, so that an update may name any
of the `Versions` (`ReadOld`), and find that version made by another process since it
has read the row; the cache is a sequence of
entries with an age, least recently used first and no code twice (`Put`, `Touch`,
`Drop`), the click buffer a count per code. **`ShortenerRs`** is the
Rust service: a mutex lets one thread at a time use the connection, but nothing
opens a transaction, so each statement that writes commits alone and other
processes come in between. **`Shorteners`** composes any number of either with the
clock. Statements may fail and processes die (`Flush`, `CrashPy`,
`RsStatementFails`, `CrashRs`; the first insert of a click may fail in `RsResolve`,
whose redirect is answered all the same). Two histories serve the properties: a
link's `named`, the version its last update named, and an audit entry's `guessed`,
set when the request named a version that was not there yet when the row was read. Time is discrete; the clock stops at the last
deadline and ages are kept as far as a comparison needs them.

**`LinkContract`** is what both services promise, in 30 lines: a create makes a
link and binds its key in one step and for good, an update is accepted only of the
version it names, and counts it, so that of two clients that name one version the
second is refused; a disable is for ever. `Shorteners` maps to it the links a client can know of: a row
whose key was never inserted is left out.

**`Migrations`** is `migrate()` of both services on one file. A statement of a
script commits by itself in both (`Execute`); recording the script is a commit of
its own (`Record`, `Commit`), which Python makes before the next script while it
holds the write lock. The Python service reads once what is applied (`Begin`), the
Rust service asks before each script (`Ask`). An `ALTER TABLE` that is repeated
ends the process (`DuplicateColumn`). Meanwhile the release before writes clicks,
and so do the processes that are up.

## 4. Properties and runs

Properties are in `EngineProps` and at the end of `GraphValidate`, `Delivery`,
`Revision`, `Shorteners` and `Migrations`. The MC modules hold instances with the
shape of those under `scenarios/`. `MCEngine` has four: a *change* with
assumptions to approve, a schema gate, a check that may fail transiently or for
good, and a release; *checks* that fail side by side, with a fallback, a rollback
and two repairs; a *pair* of gated tasks in one wave; and a *knot*, a plan that is
no graph. `MCChange` adds to the change that its gates are in a row and its release
comes last, which the theorems about gates require. `MCDelivery` is a change
written by two workers at once, with the order that the theorems about merges
require; `MCRevision` is the ambiguous scenario in small.

| Run | Shows |
|---|---|
| `change` | Types, dependencies, attempts, gates and main under two crashes **anywhere** and merges that raise; gates and completeness under two crashes outside their windows |
| `governed` | `Engine` implements `GovernedRun`; one open question; pauses that can be found; a rejection stops everything; every run settles but for the consume window. Merges may raise, and two crashes fall anywhere but inside `request()` |
| `checks` | The failure routes, with shared budgets and concurrent repairs, under two crashes anywhere and rollbacks that raise |
| `knot` | A cyclic plan never becomes rows, and the run ends |
| `graph_validate` | `validate` accepts exactly the plans |
| `delivery` | What is merged is what was proposed, what policy let through and what the report names; evidence describes the commit it is filed under; without a repair every required check has passed on what is merged; a rollback that is not cut short restores the base |
| `revision` | After a revision nothing stale is left in a run that ends well, work that does not rest on the contract is kept, the new plan is approved before anything starts, gates hold |
| `link_admin` | Both services together implement `LinkContract`; keys and the audit trail are right but where the Rust service commits in two steps or a client guessed a version |
| `redirects` | Expiry to the instant, staleness below the TTL, an instance reads its own writes, every click accounted for |
| `migrations` | Nobody serves a half-migrated file, the totals count every event, everybody comes up |

**Crash windows.** Several promises of the engine survive every crash but one in a
particular window of the code. A crash is a death of the process or, at `promote`
and in the `failures` of a task to be rolled back, git raising: no handler stands
between `_git` and the caller of `tick()`. The windows are part of the properties
(`GatesSurvive`, `CompletionSurvives`, `PausesSurvive`, `RoutesSurvive`,
`RepairsSurvive`, `SettlesAnyway`), so that the runs say precisely where a crash
does harm:

| Promise | Does not survive a crash at | Because |
|---|---|---|
| `GateBeforeDependents` | `wave`, `failures`, `repair`, `rewire`, `count`, `gates`, `request` | the next tick schedules before it evaluates gates |
| `CompleteMeansDone` | the same, and `start` | nothing creates missing bootstrap tasks |
| `GivesUpOnlyWhenExhausted` | `wave`, `failures`, `repair`, `rewire`, `count` | failures are not routed by the next tick |
| `RepairsCounted` | `repair`, `rewire`, `count` | the count is saved after the rows |
| `PausedOnAnApproval`, and that every run settles | `approved`, `promote`, `promoted`, `review`, `proceed` | `consume` forgets the approval before it is acted on; a merge that raises at `promote` is enough, nobody need die |
| `OneOpenQuestion`, `RejectionStops`, `Governance` | `request` | the approval is saved before the pause |
| `RollbackSurvives` | `wave`, `failures`, `repair`, `rewire`, `count` | the task stays failed and is not routed again: the next tick ends the run with the rollback undone or half done, also when git raised in the rollback |
| `TypeOK`, `DependenciesFirst`, `AttemptBudget`, `GateAuthority`, `MainlineAuthority` | nowhere | proved in section 6 |

The properties of `Delivery` and `Revision` name their exceptions in the same way:

* `MergedIsProposed` excepts what an attempt had written before policy denied it
  (`refused`): those files stay in the worktree and are committed with the
  fallback's. When several tasks can be repaired the theorem also excepts a
  death in `repair`, `rewire` or `count`: no task waits for the row of such a
  repair, so its file may be integrated with another repair while its worker, killed
  before the patch, is still to be tried again. With one repairable task, as in
  `brownfield.yaml`, that repair is the last: the task stays failed, the names of the
  next repair are taken, and nothing is merged. `delivery`, with one death and two
  such tasks, does not get to the exception.
* `MergedAsReported` has no exception in the instance, whose integrators wait for each
  other but for two reintegrations. The code gives it no more than that: two
  integrators of a plan in one wave, with a writer beside them, may read the head in
  one order and assign it to the shared run in the other, and the report names the
  older. The theorem assumes `IntegratorsInTurn`, and speaks of a run with several
  repairable tasks only until its first repair, where two reintegrations and a
  repair that writes beside them would be the same. Nothing is said of the worktree
  after the report: the merge takes the branch.
* `FirstEvidenceCounts` speaks of required checks, and of runs without a repair.
* `CheckedAsCommitted` is about evidence gathered while no repair is under way
  (`quiet`), since a repair writes into the tree that a sibling check reads. It
  excepts a crash in `failures`, a death or git raising, which may leave a reset
  worktree with the old `current_revision`, and a death in `repair`, `rewire` or `count`, after which the
  rows of the repair run although no task waits for them, so that nothing says
  any more that a repair is under way.
* `CompleteMeansCurrent` excepts a death between the contract's publication and the
  save of the run (`ReviseWindow`), any death in the revision of a run that had
  ended, and a revision before there was a plan, over whose contract `normalize`
  then publishes.
* `RenewedAuthority` excepts a death in `request` or `pause` of the revision, which is
  from the save of the revised run, over the save of the new question, to the pause
  on it; a revision before there was a plan, and one that waives re-approval.
* `GatesUnlessReplaced` excepts a revision that finds a gate still closed (it
  closes the gate's question), one before there was a plan, and a death among its
  resets, which leaves finished work above work that is done again.
* `KeyNamesItsLink`, `AuditExplains` and `ClicksAccounted` say of the two-statement
  operations of the Rust service exactly what may be half done, and by whom.
* `AuditExplains` excepts the old url of an update whose client named a version that
  was not there yet when the row was read (`guessed`): if another process makes that
  version before the `UPDATE`, it is accepted, and the entry tells the url from before
  both (`persistence.py:120`, `db.rs:181`). A client that names a version it was shown
  is never in that case.
* `TotalsCountEvents` excepts three kinds of clicks: those of the release before
  after the backfill, those of a process that died between the event and the total,
  and those a second backfill counts while their writer is between the two.
* `ComesUp` excepts a file on which a process died inside `002_expiry_update.sql`,
  whose `ALTER TABLE` cannot be repeated.

**Disagreements with the code's own documents.** Two runs exhibit one each,
quoted under "findings" in `PROJECT.json`:

| Run | Property violated | What happens |
|---|---|---|
| `second_gate` | `GateBeforeDependents` | two gates in one wave: approving the first lets the dependents of the second run |
| `stale_evidence` | `EvidenceOfTheMerge` | the repair of one check makes a revision on which the check that had passed beside it is never run; the release is approved and merged |

`GatesSurvive` holds in the *change* because its gated tasks are alone in their
waves, and `FirstEvidenceCounts` in a run without repairs; the two runs show that
this is needed. Others are the exceptions above, and each can be seen by taking
the exception out of the property or by a crash point in the configuration:

* a death at `approved`, or a merge that raises at `promote`, leaves a run that waits
  for nothing, though `docs/operations.md:85` says that the approval survives restarts;
* git raising in a rollback fails the run on the next tick with the worktree as it is;
* a death at `request` leaves an approval that no run waits for, and rejecting it
  stops nothing (`docs/operations.md:36`);
* a death in `failures` fails a run that has retries left
  (`docs/architecture.md:81`);
* a death in `start` ends in a run reported ready for review with nothing done
  (`README.md:75`);
* a safe-stopped run is terminal, although the recovery note of
  `preserve_for_recovery` and `docs/operations.md:89` tell the operator to resume it;
* `ase revise` during a gate's question closes it as stale, and the gate is asked
  again only after the wave its dependents are in (`docs/architecture.md:110`);
* a stale approval denies the run, where `docs/operations.md:92` says the gate
  re-opens;
* a click in the buffer is written when the next request comes, so the delay that
  `analytics.py:5` bounds is unbounded without traffic.

### Bounds

* Two attempts per task and two repairs, the defaults of `Budgets`: one retry is
  left, then none, and a second repair meets the first.
* Two threads: enough for a wave in which one task is running, one failed and one
  not started, as three ready tasks or two are.
* Two crashes: the second falls while the first is being recovered from. `died`
  bounds them.
* `MaxWaves` 30 is above what any behaviour of the *change* and the *checks*
  needs, so that no run is cut short by it; in the *knot* it is 6 and is used up.
* Three tasks over three names and an unknown one in `GraphValidate`, with up to
  two dependencies each: self-loops, two- and three-cycles, a repeated name, a
  repeated dependency.
* `delivery`: five files, so that one is written by nobody but the repair, one is
  denied by policy, one is written twice; two checks side by side, two repairs in
  one wave; one crash, in a wave, in the routing of failures or within a repair,
  which are the places where a worker, a rollback or a repair is cut short; git may
  raise anywhere; a check that policy denies, with a fallback that leaves it out, and
  an optional check that fails. 454,000 states.
* `revision`: one replan allowed and two asked for, so that one is refused or the
  second finds what a cut one left; one death, at any commit of `revise()` or in a
  wave. 519,000 states. One revision is completed, so what two complete ones do is
  shown by the theorems only.
* `link_admin`: two links, one key, an instance and a thread, two writes, one
  fault: the writes may both be updates of one link, and the fault may fall
  between any two statements. A request names version 1, 2 or 3: the one it was shown,
  an older one, one that is made in between, or one that is never made. 461,000 states.
* `redirects`: TTL 2 and flush interval 1, a link that expires in between, a cache
  of one entry for two links, one write, one click and one fault. 573,000 states. A
  batch of two clicks is a matter of `ClicksKept`.
* `migrations`: two Python processes and a Rust one, so that either may overtake
  the other or its like; two clicks; two deaths. 56,000 states.

Symmetry is used for codes and urls in the runs of `Shorteners`, which check
safety only.

Deadlock is not checked (`CHECK_DEADLOCK FALSE`): a run that ended, or that rests
on a question nobody answers, rightly stops, and so do the bounded shorteners.

### Fairness

`FairSpec` of `Engine` is `WF_vars(Process)`: as long as the process can take a
step it eventually takes one. For a worker this is the timeout of `run_check` and
of git; for a tick it is the operating system; after a crash it assumes that
somebody runs `ase resume`, which the playbook tells the operator to do. Nothing
is assumed of the approver: a question may stay open for ever, and `SettlesAnyway`
allows for it. Crashes are bounded, since a process that dies for ever settles
nothing.

`FairSpec` of `Migrations` is weak fairness of each process's own start,
`Starting(p)`: it gets the write lock in the end (SQLite's busy timeout), and
whoever looks after it starts it again when it ended on another's row.

## 5. Faulty variants

Beside many actions stands a faulty variant of it (commented "Faulty"), which no
specification uses. Putting it in the place of the action makes TLC report the
property it is paired with under "mutants" in `PROJECT.json`: each property can
fail, and fails for a plausible bug in the code it is about.

## 6. What is proved

For every value of the constants that satisfies the modules' assumptions (any
plan, cyclic or not, any gates, outcomes, budgets, scheduling width and set of
crash points; any number of instances, threads, links and processes):

| Theorem | Module | Says |
|---|---|---|
| `TypeCorrect` | `EngineSafetyProofs` | `Spec => []TypeOK` |
| `AttemptsBounded` | `EngineSafetyProofs` | `Spec => []AttemptBudget` |
| `GraphRespected` | `EngineSafetyProofs` | `Spec => []DependenciesFirst` |
| `GatesAuthorised` | `EngineSafetyProofs` | `Spec => []GateAuthority` |
| `MainlineAuthorised` | `EngineSafetyProofs` | `Spec => []MainlineAuthority` |
| `PlanBeforeRows` | `EngineOrderProofs` | `Spec => []RowsOfAnAdoptedPlan` |
| `RepairsBounded` | `EngineOrderProofs` | `Spec => []RepairsSurvive` |
| `OneQuestion` | `EngineOrderProofs` | `Spec => []OneOpenQuestion`, if the process does not die between an approval and its pause (`"request" \notin CrashPoints`) |
| `PausesAreFound` | `EngineOrderProofs` | `Spec => []PausesSurvive` |
| `RoutesFollowed` | `EngineOrderProofs` | `Spec => []RoutesSurvive` |
| `EngineIsGoverned` | `EngineGovernanceProofs` | `Spec => Governance`, under the same condition as `OneQuestion` |
| `RejectionsAreFinal` | `EngineGovernanceProofs` | `Spec => RejectionStops`, under the same condition |
| `GatesHold` | `EngineGovernanceProofs` | `Spec => []GatesSurvive`, if of any two gated tasks one waits for the other (`GatesInTurn`) |
| `CompletionIsWhole` | `EngineGovernanceProofs` | `Spec => []CompletionSurvives`, if also the release waits for everything and the plan is gated (`ReleaseIsLast`) |
| `ValidateDecides` | `GraphValidateProofs` | `Spec => []AcceptsExactlyPlans`, for lists of any length |
| `DeliveryIsEngine` | `DeliveryProofs` | `DSpec => Spec`: every theorem above holds with the workers in |
| `DeliveryAuthorised` | `DeliveryProofs` | `DSpec => []MainlineAuthority` |
| `RollbackRestores` | `DeliveryProofs` | `DSpec => []RollbackSurvives` |
| `MergeFollowsReport` | `DeliveryProofs` | `DSpec => []MergedAsReported`, if the release comes last and writes the report, only plan and repairs integrate (`ReleaseDelivers`), of two integrators of the plan one waits for the other and what is repaired waits for all of them (`IntegratorsInTurn`), and one task at most is repaired (`OneRepaired`); with more of them `DSpec => [](NoneRepaired => MergedAsReported)` |
| `MergeWasJudged` | `DeliveryProofs` | `DSpec => []PolicySawTheMerge`, if `ReleaseDelivers` |
| `ChecksSeeCommits` | `DeliveryProofs` | `DSpec => []CheckedAsCommitted`, if `ReleaseDelivers`, `IntegratorsInTurn`, checks wait for writers and integrators (`ChecksFollow`) and one task at most is repaired; with more of them `DSpec => [](NoneRepaired => CheckedAsCommitted)` |
| `MergeWasChecked` | `DeliveryProofs` | `DSpec => []FirstEvidenceCounts`, if `ReleaseDelivers`, `IntegratorsInTurn` and `ChecksFollow` |
| `MergeIsProposal` | `DeliveryProofs` | `DSpec => []MergedIsProposed`, if `ReleaseDelivers`, `ChecksFollow`, writers do not write over each other (`WritersInTurn`) and one task is repaired (`OneRepaired`); with more of them `DSpec => [](DiedIn(RepairWindow) \/ MergedIsProposed)` |
| `UnaffectedStays` | `RevisionProofs` | `RSpec => UnaffectedWorkKept`, if the names of artifacts keep the work on the contract apart (`RevisionApart`) |
| `AuthorityRenewed` | `RevisionProofs` | `RSpec => RenewedAuthority`, under the same condition |
| `GatesOutliveRevisions` | `RevisionProofs` | `RSpec => []GatesUnlessReplaced`, if also of any two gated tasks one waits for the other, in the plan and in the revised plan (`RevisedInTurn`) |
| `CompletionIsCurrent` | `RevisionProofs` | `RSpec => []CompleteMeansCurrent`, if `RevisionApart` and if revisions reach all work on the contract: in both plans it waits for a task that reads the contract and publishes, and the release waits for it (`RevisionReaches`) |
| `KeyNames` | `ShortenerProofs` | `Spec => []KeyNamesItsLink` |
| `ContractKept` | `ShortenerProofs` | `Spec => KeepsContract` |
| `ServingTypes` | `ShortenerProofs` | `Spec => []TypeOK` |
| `TrailTells` | `ShortenerProofs` | `Spec => []AuditExplains` |
| `ExpiryKept` | `ShortenerProofs` | `Spec => []ExpiryHonoured` |
| `StalenessBounded` | `ShortenerProofs` | `Spec => []StaleLessThanTTL` |
| `OwnWritesRead` | `ShortenerProofs` | `Spec => []ReadsItsWrites` |
| `ClicksKept` | `ShortenerProofs` | `Spec => []ClicksAccounted` |
| `ServesMigrated` | `MigrationsProofs` | `Spec => []ServesOnlyMigrated` |
| `TotalsRight` | `MigrationsProofs` | `Spec => []TotalsCountEvents` |

The assumptions are what the code gives: a plan's dependencies name its entries,
budgets are naturals, and names identify rows, which the unique index of the
tasks table enforces; trees are made of the files there are and a task has a list
of checks (`WorkspaceAssumption`); "no key" is not a key (`KeysAssumption`);
processes are finitely many and a cache holds at least one link (`StoreAssumption`,
`CacheAssumption`, `RssAssumption`); an upsert redefines a task of the plan, and the
names "plan.revised" and "revision", which `revise()` signs with, are no task's
(`RevisionAssumption`). The condition on the crash points is
needed: with it dropped, TLC finds the states of section 4.

So are the conditions on the shape of the plan, and the three scenarios under
`src/scenarios` meet all of them: each has its gates in a row, ends in one release
task that waits for everything, integrates what its seeds write by one integrator
for which all that is repaired waits, and checks after it has integrated. Tasks that may run together have no file in common, a seed is a
directory, in which a path occurs once, and only `verify` is repaired, with one
seed (`WritersInTurn`). In `ambiguous.yaml`, the one that is revised, only `normalize`
publishes the contract; `implement_cache`, `implement_analytics` and `extend_tests`
read it and publish proposals, and everything from `integrate` to the release waits
for them before the revision and after it (`RevisionReaches`). `GatesInTurn` is what `second_gate` drops. TLC evaluates the
conditions on the instances of `change` (`ChangeInTurn`), `delivery`
(`DeliveryInOrder`) and `revision` (`ScenarioApart`, `ScenarioInTurn`,
`ScenarioReaches`), so the theorems are about states that exist.

*Types and safety.* `TypeOK` is not inductive: `ClearGate` looks up the approval in
hand, so `TypeInv` adds `PlaceOK`, which says where something is in hand.
The four safety invariants hold together or not at all; their conjunction with
what they lean on, `SafeInv`, is inductive:

* `WaveOK`: the tasks of the wave are pending, and there is a wave only while the
  process is executing one.
* `AttemptBudget`: a queued task has an attempt left and a started one has used
  one, which is why the refund cannot go below zero or be paid twice.
* `DependenciesKnown`, `RepairRows`: dependencies are rows that exist, and the
  rows of a half-made repair are where the next step expects them. Without them
  rewiring could make a finished task depend on one that is not.
* `DependenciesFirst`: needs that a task which succeeded never leaves that
  status. `RowStep` states the life of a row once, for every action: a row is
  born pending, keeps its dependencies except when it is rewired, and leaves
  `SUCCEEDED` never.
* `Holding`, `AskedAfterSuccess`: the approval in hand was approved, and was
  asked for after its task had succeeded. `GateAuthority` and `MainlineAuthority`
  follow the approval through `ConsumeApproved`, `ClearGate` and `Promote`.

*Order and governance.* `OrderInv` adds to `SafeInv` where the process is when
something is half done (`PlacesInv`), `RowsOfAnAdoptedPlan`, `RepairsSurvive` and
`FailuresRouted`, which says where failed tasks can be when no process has died.
`GovInv` adds that nothing runs while a question is open (`Quiet`), that the
open question is the last approval (`LastInv`, `OneOpenQuestion`), and that a
rejection is the last word (`RejectionInv`). The refinement then goes action by
action: each step of `Engine` is a step of `GovernedRun` or leaves phase,
question, answer, activity and main as they are.

*Routes.* That a run never gives up for want of a ready task is an argument about
the whole graph. `DependenciesShaped` says what each row can depend on: a task of
the plan on the plan and on reintegrations, a reintegration on repairs, a repair on
nothing. So if no task is failed or running and one is pending, the pending tasks
that are not ready all wait for pending ones, which a valid plan (its acyclicity,
applied to the set of pending tasks) rules out. `RoutesSurvive` then follows from
`FailuresRouted`.

*Gates.* `GatesKept` says, away from the windows: what a task in progress rests on
has no gate left to pass (`WorkClear`); wherever the process is about to schedule
or finish, no gate is open at all (`PlacesClear`); and while it asks or acts on an
answer, the only open gate is the one asked about (`AskingClear`). The last is
where `GatesInTurn` is used: two tasks of one wave do not wait for each other, so
at most one of them has a gate. `CompletionIsWhole` adds `Resuming` (a run is
handed over or merged for a release only) and follows the release down its
dependencies with `Leads`, which is stated with closed sets so that no induction
is needed.

*Kahn's algorithm.* `KahnInv` says that in a list without a name twice the indegree
of a name is the number of its edges whose end is still to leave the queue (`Open`),
and that what has left the queue is acyclic (`Waiting`); in any list each name
leaves at most once, so that `seen` counts names (`Progress`). When the queue is
empty, the names that have not left it wait for each other. A name that occurs
twice makes `seen` fall short of the length of the list, which is how `validate`
comes to refuse it.

*Delivery.* `DeliveryIsEngine` needs no invariant: each action of `Delivery`
contains the action of `Engine` it stands for or leaves the engine alone.
`RollbackRestores` follows the branch and the revision from `ResetHard` to the
end of the run: after the rollback nothing is started any more.

The theorems about merges rest on one idea: between a commit and its bookkeeping
there is always somebody who *owes* the next step and has not succeeded (`Owes`).
`RevisionFollows`: the run's revision and that of its row are the branch head, or an
integrator owes its `ReadHead`, or is at its `SetRevision` or `SaveRun`, or a rollback
is midway. Whoever is about to assign a revision holds the head (`AtHead`), because
nobody commits after that reading: this is where `IntegratorsInTurn` is needed. `HeadJudged`: policy let the head through,
or an integrator owes the question, or the head was reset. Who owes may be killed
and started again, or be another task than the one that committed. Since the
release comes last and every reintegration is waited for (`RepairsLinked` in
`EngineOrderProofs`), nobody owes anything when the report is written
(`ReportCurrent`) or later (`MergedHead`). For the checks, `TreeFollows` says the
same of worktree and index, `ReadingOne` that a check which began while no repair
was under way sees the commit it read, and `FirstVerdicts` that without a repair
the verdicts there are are about the head. `RevisionsKnown` keeps revisions in the
range of the commits.

`MergeIsProposal` follows the files instead. `WrittenOK`: what a running writer has
written is still in the tree, and in the list of patches once it has published.
`TreeProposed`: what the tree says of a file is what the last patch says, or was
refused, or is offered by a writer that has not finished (`Offers`), unless
something is to be rolled back. An offer outlives crashes and retries, because the
worker writes its whole seed again, and ends with the patch or with a denial, which
leaves what it had written in `refused`. When everything is done nobody offers
anything, and the tree is the head. That two writers at work at once agree on every
file they share needs `WritersInTurn` and `PlanWritten`: repairs begin after the
plan's writers have ended. Without `OneRepaired` this leans on `TreeFollows`, which a
death within a repair may end; with it on `OrphanInv`, which says that such a death
orphans the repair for good (`Orphaned`) or else changes nothing.

*Revisions.* With `Revision` the engine no longer implements `Engine`: rows are
reset and redefined under it, an approval may be `stale`, and a renewal is asked
for no task. But away from `revise()` its steps are steps of `Engine`, if a renewal
is read as a question about `create_plan` and a stale approval as a refused one
(`understood`). So `RevisionProofs` takes the three modules about the engine as an
instance with that reading (`E`), and what they show of one step of the engine is
cited here instead of proved again; only the commits of `revise()` are new.

`ReachOK` serves `UnaffectedStays`: whatever is stale or affected rests on the
contract (`StaleRests`, `AffectedRest`), because an artifact's parents are what its
task had read when it published (`ArtifactsSigned`, `DescentKnown`). Both reaches,
of artifacts and of tasks, are least sets, so "rests on" is closed under them by
definition and no induction is needed. `RenewalOK` follows the version of the plan
into the subject of its approval (`NamesPlan`, `PlanNamed`) and says what stands
between a redefined plan and the first start after it (`RenewalDue`).

`GatesOK` is the argument of `GatesKept` on rows that may leave `SUCCEEDED`. What a
revision has found affected is closed under dependents, so that once all of it is
reset nothing that stays done rests on what is done again; among the resets
`DependenciesFirst` holds of the rest (`AffectedOK`, `DependenciesHold`), and a death
there is an exception of the property (`Spoilt`), like a revision that finds a gate
closed. That the new dependencies are still answered for
by gates in a row is `RevisedInTurn`: what a task waits for in both plans
(`WaitsAnyway`) orders the gated ones. In `ambiguous.yaml` the redefined task keeps
the dependency on `plan_migration` through which its gate is reached.

`CurrencyOK` serves `CompleteMeansCurrent`. Outside `revise()` every finished task that
rests on the contract has published after the current contract, and what the first
of them (`Roots`) published names a contract as its parent and is fresh
(`WorkTraced`). A revision breaks this by its first commit and restores it step by
step: while it looks for what was made from older contracts, the roots' output is
fresh or already listed by name; when the search is over, nothing is left to find
(`Children` is empty), so every finished root has been listed and is affected, and
with it, through the dependencies, every finished task that rests on it
(`LeadsOutside`, which is where `RevisionReaches` is needed); when the resets are over
none of them is finished. What is published later is fresh, and the fresh versions
of a name are numbered in the order in which they were published (`FreshInOrder`), so
that the latest is the one the registry calls current. A run ends well
by an approved release, whose question was asked after all it waits for was done
(`AskedDone`), or with nothing left to schedule; either way all that work is finished
(`Completed`). The invariant is a disjunction with the exceptions of the
property (`Lost`): after those, work may be finished that no revision will find.

*Shorteners.* `LinkInv` says that keys name links, that a link's origin is what it
was created under, and what each request in progress has seen. Every step is one
of four kinds as far as links and keys go: a link is published, half made, keyed,
or written; the first, third and fourth are the steps of `LinkContract`, the second
is invisible.

*Serving.* `ServingInv` adds the rest of the state. `TrailInv`: each audit entry is
about a state its link has been in, two successive updates meet in the url between
them, what a request has read was the row at the version it names, unless it named a later
one (`ReadsOK`; without it an update could be recorded with an old url that never
preceded it), and a write of
the Rust service without its entry is one a thread is about to make. `CacheOK`: a
cache entry is a state its link has been in, what was written since has an audit
entry no older than the cache entry, and none of it is by the instance itself;
`StaleLessThanTTL` and `ReadsItsWrites` are this at the moment of an answer, and
`ExpiryHonoured` needs that the expiry of a row never changes. `Balanced` is the
balance of clicks written, waiting, answered, and in the hands of a Rust thread;
sums over instances are cardinalities of sets of pairs, and `TotalExcept` says what
a sum becomes when one summand changes.

*Migrations.* `SchemaInv` says of each process that the scripts it no longer has to
look at are in the file, and the statements of the first one up to where it is. On
top of that `CountInv` carries the balance of the totals through every step; the
Rust processes between an event and its total are counted as a finite set that
gains or loses one member.

Each invariant was checked by TLC before it was proved.

*Only model-checked*: liveness (`SettlesAnyway`, `ComesUp`), which needs ENABLED.

## 7. What is not modelled

* Two processes ticking one run, and two approvers resolving one approval at once:
  the store has no lock or version, so nothing is promised there. `Engine` has one
  ticking process and any number of approvers, whose decisions are one step each.
* Upserts of a revision that are brand-new tasks beside an existing plan, and the
  merge of scenario and recorded revisions in `effective_scenario`: the model's
  upserts redefine entries of the plan. The status `CANCELLED` (engine.py:450),
  which needs a plan version that drops a pending task: a revision keeps every
  entry of the plan it revises.
* `expires_at` of approvals: no caller sets it.
* Live mode: the agents' calls to a language model, their retries and token
  budgets. The engine's model takes any plan and any outcome they may give.
* `preserve_for_recovery`, which writes a note, and `remove_worktree`, which the
  engine never calls.
* Of the shorteners: url validation, tokens, error bodies, statistics beyond the
  counts, and the difference between the clocks of two processes.
* Telemetry, summary layout, dashboard, argument parsing and container scripts:
  they change no state of a run.
