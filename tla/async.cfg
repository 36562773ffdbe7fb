SPECIFICATION FairSpec
CONSTANTS
    a = a
    b = b
    c = c
    t1 = t1
    t2 = t2
    Tasks = {t1,t2}
    NoTask = NoTask
    Names = {a,b,c}
    NoRule = NoRule
    Rules <- TwoRules
    FirstRules <- FirstTable
    Lists <- TwoLists
    LazyName = c
    LazyRule <- Wide
    Setups <- AllSetups
    MaxTime = 1
    MaxStepsBack <- FewStepsBack
    MaxChecks <- FewChecks
    MaxChanges <- FewChanges
    MaxCancels = 1
INVARIANTS
    LedgerBalances
    AddedOnce
PROPERTIES
    StampsInOrder
    RemainingIsPromise
    CheckEnds
