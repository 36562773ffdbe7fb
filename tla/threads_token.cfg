SPECIFICATION Spec
CONSTANTS
    Threads = {t1,t2}
    t1 = t1
    t2 = t2
    Keys = {k1}
    k1 = k1
    NoThread = NoThread
    RuleOf <- TokenRule
    MaxTime = 2
    MaxChecks = 2
    MaxStepsBack = 0
INVARIANT TokenEnvelope
