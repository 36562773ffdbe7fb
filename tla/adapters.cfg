SPECIFICATION Spec
CONSTANTS
    r1 = r1
    r2 = r2
    Requests = {r1,r2}
    Stacks <- SmallStacks
    Second = 2
    MaxTime = 5
    MaxReceived = 3
    MaxOutages = 1
SYMMETRY Symmetry
INVARIANTS
    StatusTellsWhy
    OneLayersQuota
PROPERTIES
    RetryAfterSuffices
