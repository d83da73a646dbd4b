\* Two gates in one wave.
SPECIFICATION Spec
CONSTANTS
    PlanTasks <- PairTasks
    PlanDeps <- PairDeps
    RepairOf <- MCRepairOf
    Reintegrate <- MCReintegrate
    Rank <- PairRank
    Gate <- PairGate
    ReleaseTasks = {}
    PromoteOnApproval = {TRUE, FALSE}
    Outcomes <- PairOutcomes
    HasFallback = {}
    Repairable = {}
    RollbackOnFailure = {}
    MaxAttempts <- MCMaxAttempts
    MaxRepairs = 2
    MaxWaves = 30
    MaxParallel = 2
    TimeMayRunOut = FALSE
    GitMayFail = FALSE
    CrashPoints = {}
    MaxCrashes = 0
INVARIANTS
    GateBeforeDependents
CHECK_DEADLOCK FALSE
