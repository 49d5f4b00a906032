SPECIFICATION Spec
CONSTANTS
    Links = {1, 2}
    InitLinks <- MCInitLinks
    Edits <- MCEdits
    Applies = {a1, a2}
    OneAtATime = FALSE
    MaxChanges = 0
    MaxFaults = 0
    MaxRestarts = 0
    Marks = {m1}
    Tables = {t1}
    OtherRules = {}
    MaxSteerEvents = 0
CHECK_DEADLOCK FALSE
INVARIANTS
    UnconfirmedNeverStays
