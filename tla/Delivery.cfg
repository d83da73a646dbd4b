\* A delivery from seed to merge, with crashes of the workers.
SPECIFICATION DSpec
CONSTANTS
    PlanTasks <- MCTasks
    PlanDeps <- MCDeps
    RepairOf <- MCRepairOf
    Reintegrate <- MCReintegrate
    Rank <- MCRank
    Gate <- MCGate
    ReleaseTasks = {"release"}
    PromoteOnApproval = {TRUE}
    Outcomes <- MCOutcomes
    HasFallback = {"implement", "verify"}
    Repairable = {"verify", "scan"}
    RollbackOnFailure = {"verify"}
    MaxAttempts <- MCMaxAttempts
    MaxRepairs = 2
    MaxWaves = 30
    MaxParallel = 2
    TimeMayRunOut = FALSE
    GitMayFail = TRUE
    CrashPoints = {"wave", "failures", "repair", "rewire", "count"}
    MaxCrashes = 1
    Files = {"code", "tests", "notes", "docs", "policies"}
    Contents = {"none", "v0", "v1", "v2"}
    Base <- MCBase
    Capability <- MCCapability
    Seed <- MCSeed
    FallbackSeed <- MCFallbackSeed
    Checks <- MCChecks
    FallbackChecks <- MCFallbackChecks
    Optional = {"docs"}
    Passes <- MCPasses
    MayTimeOut = {"pytest"}
    Rules <- MCRules
INVARIANTS
    MergedAsReported
    MergedIsProposed
    PolicySawTheMerge
    CheckedAsCommitted
    FirstEvidenceCounts
    RollbackSurvives
CHECK_DEADLOCK FALSE
