SPECIFICATION Spec
CONSTANTS
    NULL = NULL
    nsats = 2
    ntasks = 11
    golden_index = 3
    Rewards = {10, 30}
    TaskSets <- OneOrTwo
    INT_MAX = 16
    MaxFailures = 1
INVARIANTS
    BestOfRated
    AllTriedOnce
    SolutionsSorted
CHECK_DEADLOCK FALSE
