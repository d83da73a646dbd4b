\* Two Python processes and a Rust one start together; they may die twice.
SPECIFICATION FairSpec
CONSTANTS
    Pys = {p1, p2}
    Rss = {r1}
    MaxEvents = 2
    MaxCrashes = 2
INVARIANTS
    ServesOnlyMigrated
    TotalsCountEvents
PROPERTY
    ComesUp
CHECK_DEADLOCK FALSE
