\* Failing checks side by side, with up to two crashes anywhere.
SPECIFICATION Spec
CONSTANTS
    PlanTasks <- CheckTasks
    PlanDeps <- CheckDeps
    RepairOf <- MCRepairOf
    Reintegrate <- MCReintegrate
    Rank <- CheckRank
    Gate <- CheckGate
    ReleaseTasks = {}
    PromoteOnApproval = {TRUE, FALSE}
    Outcomes <- CheckOutcomes
    HasFallback = {"build"}
    Repairable <- CheckRepairable
    RollbackOnFailure = {"report"}
    MaxAttempts <- MCMaxAttempts
    MaxRepairs = 2
    MaxWaves = 30
    MaxParallel = 2
    TimeMayRunOut = FALSE
    GitMayFail = TRUE
    CrashPoints = {"start", "loop", "budget", "recover", "wave", "failures",
                   "repair", "rewire", "count", "gates", "request",
                   "approved", "promote", "promoted", "review", "proceed"}
    MaxCrashes = 2
INVARIANTS
    DependenciesFirst
    AttemptBudget
    RoutesSurvive
    RepairsSurvive
CHECK_DEADLOCK FALSE
