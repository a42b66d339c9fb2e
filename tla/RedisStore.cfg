SPECIFICATION StoreFairSpec
CONSTANTS
    v1 = v1
    Callers = {w1, w2}
    Keys = {k1}
    Values = {v1, v2}
    None = None
    Records <- MCRecords
    Decode <- MCDecode
    Encode <- MCEncode
    InitialRecords <- MCInitialRecords
    MaxCasRetries = 2
    MaxFaults = 1
PROPERTIES
    TransitionEnds
