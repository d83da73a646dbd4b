SPECIFICATION Spec
CONSTANTS
    Names <- MCNames
    MaxTasks = 3
    DepLists <- MCDepLists
INVARIANTS
    AcceptsExactlyPlans
CHECK_DEADLOCK FALSE
