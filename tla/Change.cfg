\* The change, with up to two crashes anywhere and merges that may fail.
SPECIFICATION Spec
CONSTANTS
    PlanTasks <- ChangeTasks
    PlanDeps <- ChangeDeps
    RepairOf <- MCRepairOf
    Reintegrate <- MCReintegrate
    Rank <- ChangeRank
    Gate <- ChangeGate
    ReleaseTasks = {"release"}
    PromoteOnApproval = {TRUE, FALSE}
    Outcomes <- ChangeOutcomes
    HasFallback = {}
    Repairable <- ChangeRepairable
    RollbackOnFailure = {}
    MaxAttempts <- MCMaxAttempts
    MaxRepairs = 2
    MaxWaves = 30
    MaxParallel = 2
    TimeMayRunOut = FALSE
    GitMayFail = TRUE
    CrashPoints = {"start", "loop", "budget", "recover", "wave", "failures",
                   "repair", "rewire", "count", "gates", "request",
                   "approved", "promote", "promoted", "review", "proceed"}
    MaxCrashes = 2
INVARIANTS
    TypeOK
    DependenciesFirst
    AttemptBudget
    GateAuthority
    MainlineAuthority
    GatesSurvive
    CompletionSurvives
CHECK_DEADLOCK FALSE
