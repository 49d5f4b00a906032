SPECIFICATION PanelSpec
CONSTANTS
    Parts = {"accounts", "vpn", "adoption", "backup", "elements", "capture", "update", "vault", "merge"}
    AccountIds = {admin, u1}
    DefaultAdmin = admin
    AdminRole = radmin
    OtherRoles = {rhelp}
    AccountRequests = {1, 2}
    Codes = {k1, k2}
    MaxAttempts = 2
    MaxAccountEvents = 3
    VpnUsers = {v1, v2}
    Nets = {1, 2}
    Hosts = {1, 2}
    TunnelCalls = {1, 2}
    MaxTunnelEdits = 3
    MaxTunnelFaults = 1
    PlainRules = {ra1, ra2}
    RichRules = {rx1}
    LongestChain = 2
    MaxAdoptEdits = 2
    MaxAdoptFaults = 2
    RestoreUsers = {bu1}
    RestoreCalls = {b1, b2}
    MaxRestoreAttempts = 2
    MaxBackupEdits = 3
    MaxBackupFaults = 1
    LanHosts = {h1}
    LanAddrs = {1, 2}
    Listed = {d1}
    Forwards = {pf1}
    ElementCalls = {1, 2}
    MaxElementEdits = 3
    MaxElementFaults = 1
    CaptureAsks = {1, 2}
    CaptureSeconds = 2
    MaxCaptureEvents = 3
    UpdateCalls = {1, 2}
    MaxVersion = 3
    MaxUpdateEvents = 2
    MaxUpdateFaults = 1
    SecretNames = {1, 2}
    MaxVaultEdits = 2
    MaxVaultFaults = 2
    absent = absent
    Absent = absent
    GroupIds = {1, 2, 3}
    RuleIds = {1, 2}
    System = 1
    WindowKinds <- MCAllKinds
    OtherKinds <- MCAllKinds
    MaxPosition = 2
    MaxOthers = 1
CHECK_DEADLOCK FALSE
INVARIANTS
    PanelTypeOK
    
    UpgradeKeepsRules
    BackupKeepsItsWord
    
    CapturesAreThere
    UpdateIsHonest
    SecretsHold
    RevertMergesRows

    
