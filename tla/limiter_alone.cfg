SPECIFICATION Spec
CONSTANTS
    a = a
    b = b
    c = c
    t1 = t1
    Threads = {t1}
    Names = {a,b,c}
    NoRule = NoRule
    Rules <- LoneRules
    FirstRules <- LoneTable
    Lists <- LoneLists
    LazyName = c
    LazyRule <- Bucket
    MaxTime = 8
    MaxChecks = 7
    MaxChanges = 0
    MaxStepsBack = 0
CHECK_DEADLOCK FALSE
INVARIANTS
    RemainingIsPromise
    PatienceRewarded
