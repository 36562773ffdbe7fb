SPECIFICATION OneKeySpec
CONSTANTS
    a = a
    b = b
    pa = pa
    pb = pb
    ss = ss
    st = st
    sl = sl
    sg = sg
    sf = sf
    ls = ls
    lg = lg
    Callers = {a,b}
    Processes = {pa,pb}
    ProcessOf <- TwoProcesses
    Skew <- OneAhead
    Keys = {st}
    RuleOf <- SlowBucket
    ServerTimed = {st}
    PolicyOf <- SmallPolicies
    BucketTTL = 2
    MaxResends = 1
    MaxTime = 4
    MaxCalls <- FourCalls
    MaxFaults <- NoFaults
INVARIANTS
    AverageIsRate
