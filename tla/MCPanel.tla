------------------------------- MODULE MCPanel -------------------------------
(* What the panel keeps and does by itself, side by side: accounts, tunnel,  *)
(* rules of an upgraded machine, backups, elements, captures, updates,       *)
(* secrets and the merge of a revert. A behaviour follows one of them, named *)
(* by focus, as in MCMachine.                                                *)
EXTENDS Accounts, VpnTunnel, RuleAdoption, BackupRestore, HostElements,
        PacketCapture, SelfUpdate, SecretVault, GroupRuleMergeProperties

CONSTANTS
    Parts, \* the services a run follows
    absent \* no row

VARIABLE focus

MCAllKinds == Kinds

MergeParked ==
    /\ db = [groups |-> [g \in GroupIds |-> IF g = System THEN [scope |-> "forward", pos |-> 0, at |-> 0]
                                                          ELSE Absent],
             rules  |-> [r \in RuleIds |-> Absent]]
    /\ snapshot = db /\ applied = db /\ base = db
    /\ others = {} /\ count = 0 /\ stage = "armed"

PanelInit ==
    /\ focus \in Parts
    /\ AccountInit /\ (focus # "accounts" => Used = {DefaultAdmin})
    /\ TunnelInit /\ (focus # "vpn" => ~tunnelRow.on)
    /\ ElementInit /\ (focus # "elements" => \A h \in LanHosts : hostRows[h].ip = 0)
    /\ CaptureInit /\ UpdateInit
    /\ VaultInit /\ (focus # "vault" => \A n \in SecretNames : plain[n] = 0)
    /\ BackupInit
    /\ (focus # "backup" => passphrase = "none" /\ \A f \in lgbak : f.settings.lastRun.ok)
    /\ AdoptInit /\ (focus # "adoption" => original = <<>> /\ latches = {})
    /\ IF focus = "merge" THEN Init ELSE MergeParked

\* The services the step does not follow stay as they are.
Others(p) ==
    /\ UNCHANGED focus
    /\ IF p = "accounts" THEN TRUE ELSE UNCHANGED accountVars
    /\ IF p = "vpn" THEN TRUE ELSE UNCHANGED tunnelVars
    /\ IF p = "adoption" THEN TRUE ELSE UNCHANGED adoptVars
    /\ IF p = "backup" THEN TRUE ELSE UNCHANGED backupVars
    /\ IF p = "elements" THEN TRUE ELSE UNCHANGED elementVars
    /\ IF p = "capture" THEN TRUE ELSE UNCHANGED captureVars
    /\ IF p = "update" THEN TRUE ELSE UNCHANGED updateVars
    /\ IF p = "vault" THEN TRUE ELSE UNCHANGED vaultVars
    /\ IF p = "merge" THEN TRUE ELSE UNCHANGED vars

PanelNext ==
    \/ focus = "accounts" /\ AccountNext /\ Others("accounts")
    \/ focus = "vpn" /\ TunnelNext /\ Others("vpn")
    \/ focus = "adoption" /\ AdoptNext /\ Others("adoption")
    \/ focus = "backup" /\ BackupNext /\ Others("backup")
    \/ focus = "elements" /\ ElementNext /\ Others("elements")
    \/ focus = "capture" /\ CaptureNext /\ Others("capture")
    \/ focus = "update" /\ UpdateNext /\ Others("update")
    \/ focus = "vault" /\ VaultNext /\ Others("vault")
    \/ focus = "merge" /\ Next /\ Others("merge")

panelVars == <<focus, accountVars, tunnelVars, adoptVars, backupVars, elementVars,
               captureVars, updateVars, vaultVars, vars>>

PanelSpec == PanelInit /\ [][PanelNext]_panelVars

\* A parked service is at an initial state, which a run that follows it checks.
Of(p, invariant) == focus = p => invariant

\* Type invariant of the panel's services.
PanelTypeOK ==
    /\ Of("accounts", AccountTypeOK) /\ Of("vpn", TunnelTypeOK) /\ Of("adoption", AdoptTypeOK)
    /\ Of("backup", BackupTypeOK) /\ Of("elements", ElementTypeOK) /\ Of("capture", CaptureTypeOK)
    /\ Of("update", UpdateTypeOK) /\ Of("vault", VaultTypeOK)
    /\ Of("merge", MergeTypeOK)

\* Somebody administers the accounts, a token opens what its password opens, and
\* a second factor in force is not exchanged for another.
AccessIsKept ==
    [][/\ (Of("accounts", SomebodyManages /\ TokensAreOfThePassword))'
       /\ FactorIsNotReplaced]_accountVars

\* A revert puts the input chain back in order, leaves what others wrote and
\* undoes what its window did.
RevertMergesRows ==
    /\ Of("merge", InputChainComesBack) /\ Of("merge", OthersSurvive) /\ Of("merge", WindowIsUndone)

\* The peers of the tunnel have users, groups, addresses and secrets, and the
\* tunnel recorded as applied runs its row and its peers.
TunnelIsWhole == Of("vpn", PeersAreWhole) /\ Of("vpn", OkMeansTunnel)

\* The rules of a machine that is upgraded are kept, once, and stay in force in
\* their order, and the blocks of rules are never left out of the forward chain.
UpgradeKeepsRules ==
    Of("adoption", RulesAreKept) /\ Of("adoption", RulesStayInForce) /\ Of("adoption", BlocksStay)

\* A backup holds what was saved before it was asked for, the alert of a failed
\* one is open exactly when the last one failed, and a file is tried with no
\* more wrong passphrases than the limit.
BackupKeepsItsWord ==
    Of("backup", BackupHoldsWhatWasSaved) /\ Of("backup", BackupFailureIsShown) /\ Of("backup", TriesAreBounded)

\* The hosts marked as blocked are the blocked ones, the forwards those listed,
\* and the boot file has the elements of the table but what the kernel
\* contained by itself.
ElementsFollowRows ==
    /\ Of("elements", BlockedIsEnforced) /\ Of("elements", UnblockedIsFree)
    /\ Of("elements", ForwardsFollowRows)
    /\ Of("elements", FileKeepsElements) /\ Of("elements", ContainedStaysOut)

\* A capture offered is there, and none that nobody asked for stays.
CapturesAreThere == Of("capture", OfferedIsThere) /\ Of("capture", TemporaryGoes)

\* An update that went in was verified, one that failed is told, and neither
\* leaves its download behind.
UpdateIsHonest ==
    Of("update", OnlyVerifiedGoesIn) /\ Of("update", UpdateIsTold) /\ Of("update", SpoolIsEmptied)

\* A credential given is kept at every step of its move, can be opened, and is
\* served from the table of secrets only.
SecretsHold == Of("vault", SecretsAreKept) /\ Of("vault", SecretsOpen) /\ Of("vault", ServesFromVault)
=============================================================================
