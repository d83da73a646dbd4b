\* A repaired release and the evidence it is merged on.
SPECIFICATION DSpec
CONSTANTS
    PlanTasks <- MCTasks
    PlanDeps <- MCDeps
    RepairOf <- MCRepairOf
    Reintegrate <- MCReintegrate
    Rank <- MCRank
    Gate <- MCGate
    ReleaseTasks = {"release"}
    PromoteOnApproval = {TRUE}
    Outcomes <- MCOutcomes
    HasFallback = {"implement", "verify"}
    Repairable = {"verify", "scan"}
    RollbackOnFailure = {"verify"}
    MaxAttempts <- MCMaxAttempts
    MaxRepairs = 2
    MaxWaves = 30
    MaxParallel = 2
    TimeMayRunOut = FALSE
    GitMayFail = FALSE
    CrashPoints = {"wave", "failures"}
    MaxCrashes = 0
    Files = {"code", "tests", "notes", "docs", "policies"}
    Contents = {"none", "v0", "v1", "v2"}
    Base <- MCBase
    Capability <- MCCapability
    Seed <- MCSeed
    FallbackSeed <- MCFallbackSeed
    Checks <- MCChecks
    FallbackChecks <- MCFallbackChecks
    Optional = {"docs"}
    Passes <- MCPasses
    MayTimeOut = {"pytest"}
    Rules <- MCRules
INVARIANT
    EvidenceOfTheMerge
CHECK_DEADLOCK FALSE
