------------------------------- MODULE MCEngine -------------------------------
(* Small scenarios on which TLC explores Engine. *)
EXTENDS EngineProps

MCOrder(plan) ==
    <<"normalize", "analyze", "create_plan">> \o plan
      \o <<"repair_verify_1", "repair_lint_1", "reintegrate_1",
           "repair_verify_2", "repair_lint_2", "reintegrate_2">>

MCRank(plan) == [t \in Tasks |-> CHOOSE i \in DOMAIN MCOrder(plan) : MCOrder(plan)[i] = t]

MCRepairOf ==
    [t \in Repairable |-> [n \in 1..MaxRepairs |->
        CASE t = "verify" /\ n = 1 -> "repair_verify_1"
          [] t = "verify" /\ n = 2 -> "repair_verify_2"
          [] t = "lint"   /\ n = 1 -> "repair_lint_1"
          [] t = "lint"   /\ n = 2 -> "repair_lint_2"]]

MCReintegrate == [n \in 1..MaxRepairs |-> <<"reintegrate_1", "reintegrate_2">>[n]]

MCMaxAttempts == [t \in Tasks |-> 2]

\* The gates and outcomes of the tasks that have more than the usual ones.
MCGate(special) == [t \in Tasks |-> IF t \in DOMAIN special THEN special[t] ELSE {}]
MCOutcomes(special) == [t \in Tasks |-> IF t \in DOMAIN special THEN special[t] ELSE {"ok"}]

-------------------------------------------------------------------------------
(* A brownfield change: assumptions to approve, a schema gate, a regression  *)
(* to repair, and a release                                                  *)

ChangeTasks == {"migrate", "verify", "release"}
ChangeDeps == [migrate |-> {}, verify |-> {"migrate"}, release |-> {"verify"}]
ChangeRank == MCRank(<<"migrate", "verify", "release">>)
ChangeRepairable == {"verify"}
ChangeGate == MCGate([normalize   |-> {"approval_required"},
                      create_plan |-> {"allow", "approval_required"},
                      migrate     |-> {"approval_required"},
                      release     |-> {"approval_required"}])
ChangeOutcomes == MCOutcomes([verify |-> {"ok", "transient", "deterministic"},
                              repair_verify_1 |-> {"ok", "transient"}])

-------------------------------------------------------------------------------
(* Checks that fail side by side, each along its own route *)

CheckTasks == {"build", "verify", "lint", "report"}
CheckDeps == [build |-> {}, verify |-> {"build"}, lint |-> {"build"},
              report |-> {"verify", "lint"}]
CheckRank == MCRank(<<"build", "verify", "lint", "report">>)
CheckGate == MCGate([create_plan |-> {"allow"}, report |-> {"allow", "deny"}])
CheckRepairable == {"verify", "lint"}
CheckOutcomes == MCOutcomes([build |-> {"ok", "policy_denied"},
                             verify |-> {"ok", "deterministic", "invalid_output"},
                             lint |-> {"ok", "deterministic"},
                             report |-> {"ok", "deterministic"}])

-------------------------------------------------------------------------------
(* Two gated tasks in one wave, each with work that builds on it *)

PairTasks == {"schema", "contract", "load", "serve"}
PairDeps == [schema |-> {}, contract |-> {}, load |-> {"schema"}, serve |-> {"contract"}]
PairRank == MCRank(<<"schema", "contract", "load", "serve">>)
PairGate == MCGate([create_plan |-> {"allow"}, schema |-> {"approval_required"},
                    contract |-> {"approval_required"}])
PairOutcomes == MCOutcomes([load |-> {"ok"}])

-------------------------------------------------------------------------------
(* A planner whose plan is no graph *)

KnotTasks == {"left", "right"}
KnotDeps == [left |-> {"right"}, right |-> {"left"}]
KnotRank == MCRank(<<"left", "right">>)
KnotGate == MCGate([normalize |-> {"approval_required"},
                    create_plan |-> {"allow", "approval_required"}])
KnotOutcomes == MCOutcomes([create_plan |-> {"ok", "invalid_output"}])
===============================================================================
