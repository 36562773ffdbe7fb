SPECIFICATION Spec
CONSTANTS
    a = a
    b = b
    c = c
    t1 = t1
    t2 = t2
    Threads = {t1,t2}
    Names = {a,b}
    NoRule = NoRule
    Rules <- SharedRules
    FirstRules <- SharedTable
    Lists <- SharedLists
    LazyName = b
    LazyRule <- Leaky
    MaxTime = 1
    MaxChecks = 2
    MaxChanges = 1
    MaxStepsBack = 1
SYMMETRY Symmetry
INVARIANTS
    TypeOK
    LedgerBalances
    DecidedUnderLiveRule
    AddedOncePerThread
