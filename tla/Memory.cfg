SPECIFICATION FairSpec
CONSTANTS
    c1 = c1
    c2 = c2
    t1 = t1
    t2 = t2
    m1 = m1
    s1 = s1
    s2 = s2
    Callers = {w1, w2}
    Consumers = {c1, c2}
    PayloadIds = {p1}
    Texts = {t1, t2, m1}
    NoText = NoText
    Hashes <- MCHashes
    HashPayload <- MCHashPayload
    MaskResults <- MCMaskResults
    DemaskingEnabled <- MCDemasking
    NoConsumer = NoConsumer
    Keys <- MCKeys
    Values <- MCValues
    None = None
    Stripes = {s1, s2}
    StripeOf <- MCStripeOf
    Free = Free
    TTL = 1
    MaxEntries = 1
    MaxTime = 2
    MaxRequests = 3
INVARIANTS
    ServiceTypeOK
    AtomicTransition
    RoundTrip
    PrepareOnce
    DisabledNeverDemasked
PROPERTIES
    LiveNeverEvicted
    ImplementsLifecycle
    RequestsAnswered
