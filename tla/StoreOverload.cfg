SPECIFICATION LifecycleSpec
CONSTANTS
    k1 = k1
    k2 = k2
    k3 = k3
    s1 = s1
    s2 = s2
    Callers = {w1, w2}
    Keys = {k1, k2, k3}
    Values = {v1}
    Stripes = {s1, s2}
    StripeOf <- MCStripeOf
    TTL = 2
    MaxEntries = 2
    MaxTime = 4
    None = None
    Free = Free
PROPERTIES
    OverloadOnlyWhenAllLive
