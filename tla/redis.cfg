SPECIFICATION OneKeySpec
CONSTANTS
    a = a
    b = b
    pa = pa
    pb = pb
    ss = ss
    st = st
    sl = sl
    sg = sg
    sf = sf
    ls = ls
    lg = lg
    Callers = {a,b}
    Processes = {pa,pb}
    ProcessOf <- TwoProcesses
    Skew <- OneAhead
    Keys = {ss,st,sl,sg,sf,ls,lg}
    RuleOf <- SmallRules
    ServerTimed = {ss,st,sl,sg,sf}
    PolicyOf <- SmallPolicies
    BucketTTL = 2
    MaxResends = 1
    MaxTime = 3
    MaxCalls <- FewCalls
    MaxFaults <- FewFaults
INVARIANTS
    SkewEnvelope
    FixedOnTime
    LedgerBalances
    OrphansAreFaults
    OutageEnvelope
    RetryAfterHonoured
PROPERTIES
    ImplementsAtomicStorage
