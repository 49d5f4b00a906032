SPECIFICATION Spec
CONSTANTS
    Parts = {"health", "net", "trial", "chains", "domains", "queue", "names"}
    Reloads = {r1}
    Services = {s1, s2}
    MaxHealthEvents = 3
    MaxHealthFaults = 2
    MaxNetEdits = 2
    MaxNetFaults = 1
    MaxReboots = 1
    Changers = {c1}
    Contents = {f1}
    MaxTrialFaults = 1
    InputGroups = {gi}
    ForwardGroups = {gf}
    MaxChainEdits = 1
    MaxChainFaults = 1
    MaxChainEvents = 2
    Day = 1
    LastInstant = 2
    Limits = {2}
    MaxSaves = 1
    MaxQuotaFaults = 1
    MaxQuotaRestarts = 1
    Month = 2
    LinkInstants = 2
    ClosingDays = {0, 1}
    LinkLimit = 2
    MaxLinkSaves = 1
    MaxLinkFaults = 1
    MaxLinkRestarts = 1
    Domains = {1}
    Marks = {"m1"}
    Addrs = {1}
    MaxPorDominio = 1
    Plans = {p1, p2}
    MaxQueueEdits = 1
    MaxQueueFaults = 1
    Hostnames = {"a", "b"}
    PublicAddrs = {1, 2}
    MaxNameEvents = 2
    MaxNameFaults = 1
    LastWindow = 2
    Rollup = 2
    MaxGauges = 1
    MaxStateCalls = 2
    MaxMetricEvents = 2
    Scenarios <- MCSteers
CHECK_DEADLOCK FALSE
PROPERTIES
    RowsReachTheMachine
    TrialsEnd
    AlertsTellTheTruth
