\* A plan that is no graph: every tick raises until the waves are used up.
SPECIFICATION FairSpec
CONSTANTS
    PlanTasks <- KnotTasks
    PlanDeps <- KnotDeps
    RepairOf <- MCRepairOf
    Reintegrate <- MCReintegrate
    Rank <- KnotRank
    Gate <- KnotGate
    ReleaseTasks = {}
    PromoteOnApproval = {TRUE, FALSE}
    Outcomes <- KnotOutcomes
    HasFallback = {}
    Repairable = {}
    RollbackOnFailure = {}
    MaxAttempts <- MCMaxAttempts
    MaxRepairs = 2
    MaxWaves = 6
    MaxParallel = 2
    TimeMayRunOut = FALSE
    GitMayFail = FALSE
    CrashPoints = {"start", "loop", "budget", "recover", "wave", "failures",
                   "repair", "rewire", "count", "gates", "request",
                   "approved", "promote", "promoted", "review", "proceed"}
    MaxCrashes = 1
INVARIANTS
    RowsOfAnAdoptedPlan
PROPERTIES
    SettlesAnyway
CHECK_DEADLOCK FALSE
