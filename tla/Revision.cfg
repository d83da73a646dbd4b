\* A scripted and an operator's revision, each cut short anywhere.
SPECIFICATION RSpec
CONSTANTS
    PlanTasks <- MCTasks
    PlanDeps <- MCDeps
    RepairOf <- MCRepairOf
    Reintegrate <- MCReintegrate
    Rank <- MCRank
    Gate <- MCGate
    ReleaseTasks = {"release"}
    PromoteOnApproval = {TRUE}
    Outcomes <- MCOutcomes
    HasFallback = {}
    Repairable = {"verify"}
    RollbackOnFailure = {}
    MaxAttempts <- MCMaxAttempts
    MaxRepairs = 1
    MaxWaves = 30
    MaxParallel = 2
    TimeMayRunOut = FALSE
    GitMayFail = FALSE
    CrashPoints = {"wave"}
    MaxCrashes = 1
    Contract = "consistency_contract"
    Produces <- MCProduces
    Reads <- MCReads
    Subjects <- MCSubjects
    Trigger = "verify"
    SameEachTime = {"migrate", "docs"}
    Upserts = {"analytics"}
    RevisedDeps <- MCRevisedDeps
    Reapproval = {TRUE, FALSE}
    MaxReplans = 1
    MaxRevisions = 2
    MaxDeaths = 1
INVARIANTS
    CompleteMeansCurrent
    GatesUnlessReplaced
PROPERTIES
    UnaffectedWorkKept
    RenewedAuthority
CHECK_DEADLOCK FALSE
