SPECIFICATION Spec
CONSTANTS
    Threads = {t1}
    t1 = t1
    Keys = {k1}
    k1 = k1
    NoThread = NoThread
    RuleOf <- LeakyRule
    MaxTime = 3
    MaxChecks = 2
    MaxStepsBack = 0
INVARIANT LeakyRetryTight
