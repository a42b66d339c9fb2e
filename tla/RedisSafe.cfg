SPECIFICATION Spec
CONSTANTS
    t1 = t1
    t2 = t2
    m1 = m1
    Callers = {w1, w2}
    Consumers = {c1}
    PayloadIds = {p1}
    Texts = {t1, t2, m1}
    NoText = NoText
    Hashes <- MCHashes
    HashPayload <- MCHashPayload
    MaskResults <- MCMaskResults
    DemaskingEnabled <- MCDemasking
    NoConsumer = NoConsumer
    Keys <- MCKeys
    Values <- MCValues
    None = None
    Records <- MCRecords
    Decode <- MCDecode
    Encode <- MCEncode
    InitialRecords <- MCInitialRecords
    MaxCasRetries = 2
    MaxFaults = 1
    MaxRequests = 3
    MaxRedeploys = 1
INVARIANTS
    ServiceTypeOK
    AtomicTransition
    AtomicOrphan
    RoundTrip
    LegacyNeverExposed
PROPERTIES
    ImplementsLifecycle
    DisabledOpensNothing
