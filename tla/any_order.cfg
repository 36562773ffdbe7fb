SPECIFICATION BoundedSpec
CONSTANTS
    ks = ks
    kf = kf
    kt = kt
    kl = kl
    kg = kg
    Keys = {ks,kf,kt,kl,kg}
    RuleOf <- SmallRules
    MaxTime = 8
    MaxGrants = 5
CHECK_DEADLOCK FALSE
INVARIANTS
    AtomicTypeOK
    SlidingEnvelope
    FixedEnvelope
    GcraEnvelope
    LeakyEnvelope
    RemainingIsExact
    RetryHonoured
    RetryTight
