SPECIFICATION FairSpec
CONSTANTS
    Threads = {t1,t2}
    t1 = t1
    t2 = t2
    Keys = {k1,k2}
    k1 = k1
    k2 = k2
    NoThread = NoThread
    RuleOf <- GcraRule
    MaxTime = 1
    MaxChecks = 2
    MaxStepsBack = 1
INVARIANTS
    TypeOK
    MutualExclusion
PROPERTIES
    AtomicSpec
    EveryCheckReturns
