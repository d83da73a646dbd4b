------------------------------ MODULE MCRevision ------------------------------
(* The ambiguous scenario in small: a gated migration, work that rests on the  *)
(* consistency contract, work that does not, and a revision after the checks.  *)
EXTENDS Revision

MCTasks == {"migrate", "analytics", "docs", "integrate", "verify", "release"}
MCDeps == [migrate |-> {}, analytics |-> {"migrate"}, docs |-> {},
           integrate |-> {"analytics", "docs"}, verify |-> {"integrate"},
           release |-> {"verify"}]
MCRevisedDeps == [MCDeps EXCEPT !["analytics"] = {"migrate", "docs"}]

MCOrder == <<"normalize", "analyze", "create_plan", "migrate", "analytics", "docs",
             "integrate", "verify", "release", "repair_verify_1", "reintegrate_1">>
MCRank == [t \in Tasks |-> CHOOSE i \in DOMAIN MCOrder : MCOrder[i] = t]

MCRepairOf == [t \in Repairable |-> [n \in 1..MaxRepairs |-> "repair_verify_1"]]
MCReintegrate == [n \in 1..MaxRepairs |-> "reintegrate_1"]

MCGate == [t \in Tasks |-> CASE t = "create_plan" -> {"allow"}
                             [] t \in {"migrate", "release"} -> {"approval_required"}
                             [] OTHER -> {}]
MCOutcomes == [t \in Tasks |-> IF t = "verify" THEN {"ok", "deterministic"} ELSE {"ok"}]
MCMaxAttempts == [t \in Tasks |-> 2]

MCProduces == [t \in Tasks |->
    CASE t = "analyze" -> "impact_report"
      [] t = "create_plan" -> "plan"
      [] t = "migrate" -> "proposal_migrate"
      [] t = "analytics" -> "proposal_analytics"
      [] t = "docs" -> "proposal_docs"
      [] t \in {"integrate"} \cup ReintegrateTasks -> "change_set"
      [] t = "verify" -> "evidence"
      [] t = "release" -> "release_report"
      [] t \in RepairTasks -> "repair_patch"
      [] OTHER -> ""]
MCReads == [t \in Tasks |->
    CASE t = "analyze" -> {"requirement"}
      [] t = "create_plan" -> {"requirement", "impact_report"}
      [] t = "migrate" -> {"impact_report"}
      [] t = "analytics" -> {"consistency_contract"}
      [] t = "docs" -> {"requirement"}
      [] t = "integrate" -> {"proposal_migrate", "proposal_analytics", "proposal_docs"}
      [] t \in {"verify", "release"} -> {"change_set"}
      [] t \in RepairTasks \cup ReintegrateTasks -> {"plan"}
      [] OTHER -> {}]
MCSubjects == [t \in Tasks |-> CASE t = "migrate" -> {"proposal_migrate"}
                                 [] t = "release" -> {"release_report"}
                                 [] OTHER -> {}]

ASSUME ScenarioApart == RevisionApart

ASSUME ScenarioInTurn == RevisedInTurn

ASSUME ScenarioReaches == RevisionReaches
===============================================================================
