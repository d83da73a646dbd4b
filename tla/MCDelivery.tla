------------------------------ MODULE MCDelivery ------------------------------
(* A change written by two workers at once, integrated, checked and scanned   *)
(* side by side, repaired, released; policy is that of policies/default.yaml, *)
(* with a limit on the size of a change.                                      *)
EXTENDS Delivery

MCTasks == {"implement", "tests", "integrate", "verify", "scan", "release"}
MCDeps == [implement |-> {}, tests |-> {}, integrate |-> {"implement", "tests"},
           verify |-> {"integrate"}, scan |-> {"integrate"},
           release |-> {"verify", "scan"}]

MCOrder == <<"normalize", "analyze", "create_plan", "implement", "tests", "integrate",
             "verify", "scan", "release", "repair_verify_1", "repair_scan_1",
             "reintegrate_1", "repair_verify_2", "repair_scan_2", "reintegrate_2">>
MCRank == [t \in Tasks |-> CHOOSE i \in DOMAIN MCOrder : MCOrder[i] = t]

MCRepairOf == [t \in Repairable |-> [n \in 1..MaxRepairs |->
                  IF t = "verify" THEN <<"repair_verify_1", "repair_verify_2">>[n]
                                  ELSE <<"repair_scan_1", "repair_scan_2">>[n]]]
MCReintegrate == [n \in 1..MaxRepairs |-> <<"reintegrate_1", "reintegrate_2">>[n]]

MCGate == [t \in Tasks |-> CASE t = "create_plan" -> {"allow"}
                             [] t = "release" -> {"approval_required"}
                             [] OTHER -> {}]
MCOutcomes == [t \in Tasks |->
                 CASE t \in {"implement"} -> {"ok", "policy_denied"}
                   [] t = "integrate" -> {"ok", "policy_denied"}
                   [] t \in ReintegrateTasks -> {"ok", "deterministic", "policy_denied"}
                   [] t = "verify" -> {"ok", "deterministic", "policy_denied"}
                   [] t = "scan"   -> {"ok", "deterministic"}
                   [] t = "release" -> {"ok", "transient"}
                   [] OTHER -> {"ok"}]
MCMaxAttempts == [t \in Tasks |-> 2]

MCCapability == [t \in Tasks |->
    CASE t \in {"implement", "tests"} \cup RepairTasks   -> "apply_seed"
      [] t \in {"integrate"} \cup ReintegrateTasks -> "integrate_change"
      [] t = "verify"  -> "run_checks"
      [] t = "scan"    -> "security_scan"
      [] t = "release" -> "assemble_release"
      [] OTHER         -> "bootstrap"]

MCBase == [code |-> "v0", tests |-> "none", notes |-> "none", docs |-> "none", policies |-> "v0"]
File(f, c) == [file |-> f, content |-> c]
MCSeed == [t \in Tasks |->
    CASE t = "implement" -> <<File("code", "v1"), File("notes", "v1"), File("policies", "v1")>>
      [] t = "tests" -> <<File("tests", "v1")>>
      [] t = "repair_scan_1" -> <<File("tests", "v2")>>
      [] t = "repair_scan_2" -> <<File("docs", "v1")>>
      [] OTHER -> <<File("code", "v2")>>]
MCFallbackSeed == [t \in HasFallback |-> <<File("code", "v1")>>]

\* The audit may not be run; the fallback leaves it out.  The docs need not pass.
MCChecks == [t \in {"verify"} |-> <<"audit", "pytest">>]
MCFallbackChecks == [t \in {"verify"} |-> <<"pytest", "docs">>]
MCPasses(check, tree) ==
    CASE check = "pytest" -> tree["tests"] # "none"
      [] check = "docs"   -> tree["docs"] # "none"
      [] OTHER            -> TRUE

AnyFile == DOMAIN MCBase
Rule(action, resource, least, decision) ==
    [action |-> {action}, resource |-> resource, least |-> least, decision |-> decision]
MCRules == <<Rule("workspace.write", {"policies"}, 0, "deny"),
             Rule("change.integrate", {"branch"}, 4, "deny"),
             Rule("change.integrate", {"branch"}, 3, "approval_required"),
             Rule("change.integrate", {"branch"}, 0, "allow"),
             Rule("workspace.write", AnyFile, 0, "allow"),
             Rule("command.run", {"pytest", "docs"}, 0, "allow")>>

\* The hypotheses of the theorems about what is merged hold of this plan.
ASSUME DeliveryInOrder == ReleaseDelivers /\ IntegratorsInTurn /\ ChecksFollow /\ WritersInTurn
===============================================================================
