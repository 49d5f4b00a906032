SPECIFICATION FairSpec
CONSTANTS
    FailThreshold = 3
    RecoverThreshold = 2
    Sustain = 2
    Links = {l1}
    MaxEdits = 1
    MaxRestarts = 1
    MaxPasses = 0
    MaxFaults = 2
INVARIANTS
    TypeOK
    OneAlarmPerEpisode
PROPERTIES
    VerdictNeedsEvidence
    LinksSettle
