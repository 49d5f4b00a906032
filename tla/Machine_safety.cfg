SPECIFICATION SafetySpec
CONSTANTS
    Parts = {"health", "net", "trial", "chains", "hostQuota", "linkQuota", "domains", "queue", "names", "series"}
    Reloads = {r1, r2}
    Services = {s1, s2}
    MaxHealthEvents = 3
    MaxHealthFaults = 2
    MaxNetEdits = 2
    MaxNetFaults = 1
    MaxReboots = 1
    Changers = {c1, c2}
    Contents = {f1}
    MaxTrialFaults = 1
    InputGroups = {gi}
    ForwardGroups = {gf}
    MaxChainEdits = 2
    MaxChainFaults = 2
    MaxChainEvents = 3
    Day = 1
    LastInstant = 2
    Limits = {2}
    MaxSaves = 1
    MaxQuotaFaults = 1
    MaxQuotaRestarts = 1
    Month = 2
    LinkInstants = 2
    ClosingDays = {0, 1}
    LinkLimit = 2
    MaxLinkSaves = 1
    MaxLinkFaults = 1
    MaxLinkRestarts = 1
    Domains = {1, 2}
    Marks = {"m1"}
    Addrs = {1, 2}
    MaxPorDominio = 1
    Plans = {p1, p2}
    MaxQueueEdits = 2
    MaxQueueFaults = 2
    Hostnames = {"a", "b"}
    PublicAddrs = {1, 2}
    MaxNameEvents = 2
    MaxNameFaults = 1
    LastWindow = 2
    Rollup = 2
    MaxGauges = 1
    MaxStateCalls = 2
    MaxMetricEvents = 2
    Scenarios <- MCScenarios
CHECK_DEADLOCK FALSE
INVARIANTS
    MachineTypeOK
    DaemonsServe
    ChainsAreWhole
    
    SeriesAreWhole
    NameIsTrue
    DomainsAreCarried
    QueueIsAccounted
PROPERTIES
    TrialIsTracked
    RecoveryFollowsOutage
