SPECIFICATION Spec
CONSTANTS
    FailThreshold = 3
    RecoverThreshold = 2
    Sustain = 3
    Links = {l1}
    MaxEdits = 0
    MaxRestarts = 0
    MaxPasses = 0
    MaxFaults = 0
INVARIANTS
    MarkHasRoute
