SPECIFICATION Spec
CONSTANTS
    Links = {1, 2}
    InitLinks <- MCInitLinks
    Edits <- MCEdits
    Applies = {a1}
    OneAtATime = TRUE
    MaxChanges = 1
    MaxFaults = 1
    MaxRestarts = 1
    Marks = {m1, m2}
    Tables = {t1, t2}
    OtherRules = {}
    MaxSteerEvents = 2
CHECK_DEADLOCK FALSE
INVARIANTS
    UplinksTypeOK
    RouteIsSound
PROPERTIES
    UplinksSettle
