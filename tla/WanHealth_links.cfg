SPECIFICATION Spec
CONSTANTS
    FailThreshold = 3
    RecoverThreshold = 2
    Sustain = 2
    Links = {l1, l2}
    MaxEdits = 0
    MaxRestarts = 1
    MaxPasses = 1
    MaxFaults = 0
SYMMETRY LinkSymmetry
INVARIANTS
    MarkFollowsStatus
PROPERTIES
    MarkLeavesBeforeRoute
