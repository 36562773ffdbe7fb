SPECIFICATION BoundedOrderedSpec
CONSTANTS
    ks = ks
    kf = kf
    kt = kt
    kl = kl
    kg = kg
    Keys = {ks,kf,kt,kl,kg}
    RuleOf <- SmallRules
    MaxTime = 10
    MaxGrants = 6
CHECK_DEADLOCK FALSE
INVARIANTS
    TokenEnvelope
    QueueIsWindow
    FixedPerWindow
