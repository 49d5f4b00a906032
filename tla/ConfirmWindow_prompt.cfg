SPECIFICATION Spec
CONSTANTS
    q1 = q1
    q2 = q2
    fwd = fwd
    inp = inp
    fA = fA
    fB = fB
    iA = iA
    absent = absent
    accept = accept
    drop = drop
    inputPolicy = inputPolicy
    NoPending = NoPending
    NoState = NoState
    NoSettings = NoSettings
    Requests <- MCRequests
    Rows <- MCRows
    Values = {fA, fB, iA}
    InputValues = {iA}
    Absent = absent
    Settings = {}
    SettingValues = {accept, drop}
    InitRows <- MCInitRows
    InitSettings <- MCInitSettings
    Mutations <- MCMutations
    Faults = {"read", "arm", "write", "mark", "snapshot", "replace", "settings", "reverting", "clear", "nft", "persist"}
    PromptWrites = TRUE
    MaxMutations = 2
    MaxFaults = 1
    MaxCrashes = 1
SYMMETRY MCSymmetry
CHECK_DEADLOCK FALSE
PROPERTIES
    ImplementsTrialChange
