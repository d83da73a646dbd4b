\* The change, with two crashes anywhere but inside ApprovalService.request.
SPECIFICATION FairSpec
CONSTANTS
    PlanTasks <- ChangeTasks
    PlanDeps <- ChangeDeps
    RepairOf <- MCRepairOf
    Reintegrate <- MCReintegrate
    Rank <- ChangeRank
    Gate <- ChangeGate
    ReleaseTasks = {"release"}
    PromoteOnApproval = {TRUE, FALSE}
    Outcomes <- ChangeOutcomes
    HasFallback = {}
    Repairable <- ChangeRepairable
    RollbackOnFailure = {}
    MaxAttempts <- MCMaxAttempts
    MaxRepairs = 2
    MaxWaves = 30
    MaxParallel = 2
    TimeMayRunOut = TRUE
    GitMayFail = TRUE
    CrashPoints = {"start", "loop", "budget", "recover", "wave", "failures",
                   "repair", "rewire", "count", "gates", "approved",
                   "promote", "promoted", "review", "proceed"}
    MaxCrashes = 2
INVARIANTS
    OneOpenQuestion
    PausesSurvive
PROPERTIES
    RejectionStops
    Governance
    SettlesAnyway
CHECK_DEADLOCK FALSE
