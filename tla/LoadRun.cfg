SPECIFICATION FairSpec
CONSTANTS
    None = None
    Unavailable = Unavailable
    rps100 = rps100
    root = root
    Targets <- MCTargets
    Root <- root
    Loads <- MCLoads
    OldLoad <- MCOldLoad
    Levels <- MCLevels
    MaxSamples = 2
    MaxErrorRate = 1
    MaxIncompleteRatio = 1
    RequiredUsers = 0
    RequiredConnections = 1
INVARIANTS
    LoadTypeOK
    GreenIsEarned
    ReportedSettled
    CpuReportSane
    MismatchesExplained
PROPERTIES
    RunnerFinishes
