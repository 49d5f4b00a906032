------------------------------ MODULE VpnTunnel ------------------------------
(* The WireGuard tunnel (wireguard, storage/repo_wireguard.go and            *)
(* api/handlers/wireguard.go): the row, the peers and their secrets, the     *)
(* file of wg-quick and the interface that runs, and what hangs on them: the *)
(* groups of the peers, the open port and the DNS listener.                  *)
EXTENDS Naturals, FiniteSets, FiniteSetsExt

CONSTANTS
    VpnUsers,        \* local users
    Nets,            \* networks of the tunnel, numbered
    Hosts,           \* addresses in each network, numbered; the server's is not among them
    TunnelCalls,     \* calls under way at the same time, numbered; the first also serves the boot pass
    MaxTunnelEdits,  \* bound on requests
    MaxTunnelFaults  \* bound on failures and restarts

ASSUME TunnelAssumption ==
    /\ Nets \subseteq Nat /\ 1 \in Nets /\ Hosts \subseteq Nat /\ TunnelCalls \subseteq Nat /\ 1 \in TunnelCalls
    /\ MaxTunnelEdits \in Nat /\ MaxTunnelFaults \in Nat

VARIABLES
    tunnelRow,     \* wireguard_config
    peers,         \* wireguard_peers
    vpnUsers,      \* users
    vpnSecrets,         \* secrets, by number
    peerGroups,    \* the users whose managed firewall group has its row
    tunnelFile,    \* /etc/wireguard, as [net, peers] or "none"
    tunnelRun,     \* what the interface was started with, or "none"
    tunnelUnit,    \* the unit is enabled
    projected,     \* the port and the groups as the kernel has them
    vpnCall,          \* the requests, and the boot pass
    tunnelOp,            \* what the holder of Service.mu is at
    vpnExcuse,        \* history: why what was recorded may not be so
    tunnelEdits, tunnelFaults

tunnelVars == <<tunnelRow, peers, vpnUsers, vpnSecrets, peerGroups, tunnelFile, tunnelRun, tunnelUnit,
                projected, vpnCall, tunnelOp, vpnExcuse, tunnelEdits, tunnelFaults>>

NoPeer == [net |-> 0, host |-> 0, key |-> 0]
NoTunnel == [net |-> 0, peers |-> {}]
NoVpnCall == [at |-> "idle", ask |-> "none", user |-> "nobody"]
NoHolder == [at |-> "free", by |-> 0, seen |-> NoTunnel, key |-> 0, changed |-> FALSE, ok |-> TRUE]
IsPeer(u) == peers[u] # NoPeer
PeerUsers == {u \in VpnUsers : IsPeer(u)}
PeerList == {[user |-> u, host |-> peers[u].host, net |-> peers[u].net, key |-> peers[u].key] : u \in PeerUsers}
TunnelEdit == tunnelEdits < MaxTunnelEdits /\ tunnelEdits' = tunnelEdits + 1
TunnelFault == tunnelFaults < MaxTunnelFaults /\ tunnelFaults' = tunnelFaults + 1
NoFault == UNCHANGED <<tunnelEdits, tunnelFaults>>

TunnelInit ==
    /\ tunnelRow \in [on : BOOLEAN, net : {1}, ok : {TRUE}]
    /\ peers = [u \in VpnUsers |-> NoPeer]
    /\ vpnUsers = VpnUsers
    /\ vpnSecrets = {} /\ peerGroups = {}
    /\ tunnelFile = (IF tunnelRow.on THEN [net |-> 1, peers |-> {}] ELSE NoTunnel)
    /\ tunnelRun = tunnelFile
    /\ tunnelUnit = tunnelRow.on
    /\ projected = [open |-> tunnelRow.on, groups |-> {}]
    /\ vpnCall = [c \in TunnelCalls |-> NoVpnCall]
    /\ tunnelOp = NoHolder
    /\ vpnExcuse = {}
    /\ tunnelEdits = 0 /\ tunnelFaults = 0

-----------------------------------------------------------------------------
\* A request comes in, and waits for Service.mu.
Asks(c) ==
    /\ vpnCall[c].at = "idle" /\ \A d \in TunnelCalls : d < c => vpnCall[d].at # "idle"
    /\ TunnelEdit
    /\ \/ \E on \in BOOLEAN, n \in Nets :
            /\ <<on, n>> # <<tunnelRow.on, tunnelRow.net>>
            /\ vpnCall' = [vpnCall EXCEPT ![c] = [at |-> "waits", ask |-> "config", on |-> on, net |-> n, user |-> "nobody"]]
       \/ \E u \in vpnUsers, ask \in {"enroll", "revoke"} :
            vpnCall' = [vpnCall EXCEPT ![c] = [at |-> "waits", ask |-> ask, user |-> u]]
    /\ UNCHANGED <<tunnelRow, peers, vpnUsers, vpnSecrets, peerGroups, tunnelFile, tunnelRun, tunnelUnit, projected,
                   tunnelOp, vpnExcuse, tunnelFaults>>

LocksTunnel(c) ==
    /\ vpnCall[c].at = "waits" /\ tunnelOp = NoHolder
    /\ tunnelOp' = [NoHolder EXCEPT !.at = IF vpnCall[c].ask = "boot" THEN "list" ELSE vpnCall[c].ask, !.by = c]
    /\ vpnCall' = [vpnCall EXCEPT ![c].at = "holds"]
    /\ UNCHANGED <<tunnelRow, peers, vpnUsers, vpnSecrets, peerGroups, tunnelFile, tunnelRun, tunnelUnit, projected,
                   vpnExcuse>> /\ NoFault

TunnelCaller == vpnCall[tunnelOp.by]
TunnelAt(a) == tunnelOp.at = a
TunnelGoes(a) == tunnelOp' = [tunnelOp EXCEPT !.at = a]
\* The service's part ends: the handler integrates, or answers at once.
TunnelLeaves(next) == tunnelOp' = NoHolder /\ vpnCall' = [vpnCall EXCEPT ![tunnelOp.by] = IF next = "idle" THEN NoVpnCall ELSE [@ EXCEPT !.at = next]]

\* UpdateConfig: the new row keeps what was recorded of the old one.
SavesConfig ==
    /\ TunnelAt("config")
    /\ tunnelRow' = [tunnelRow EXCEPT !.on = TunnelCaller.on, !.net = TunnelCaller.net]
    /\ TunnelGoes("list")
    /\ UNCHANGED <<peers, vpnUsers, vpnSecrets, peerGroups, tunnelFile, tunnelRun, tunnelUnit, projected, vpnCall,
                   vpnExcuse>> /\ NoFault

-----------------------------------------------------------------------------
\* NextAddress: the first address nobody has.
FreeHosts(net) == {h \in Hosts : \A u \in PeerUsers : <<peers[u].net, peers[u].host>> # <<net, h>>}
FirstOf(hs) == CHOOSE h \in hs : \A i \in hs : h <= i

\* Enroll refuses a tunnel that is off, a user that is gone, a full network and
\* a peer that a change of network left outside the tunnel.
MayEnroll(u) ==
    /\ tunnelRow.on /\ u \in vpnUsers
    /\ IF IsPeer(u) THEN peers[u].net = tunnelRow.net ELSE FreeHosts(tunnelRow.net) # {}

\* A key and its secret are new: nobody has them.
NextKey == Max({0} \cup vpnSecrets) + 1

\* Mutant: the old secret goes before the row that names the new one is written.
OldSecretFirst(u) == (vpnSecrets \ {IF IsPeer(u) THEN peers[u].key ELSE 0}) \cup {NextKey}

\* Enroll: the new secret is in the vault before any row names it.
SecretFirst(u) == vpnSecrets \cup {NextKey}

PreparesPeer ==
    /\ TunnelAt("enroll")
    /\ IF MayEnroll(TunnelCaller.user)
       THEN vpnSecrets' = SecretFirst(TunnelCaller.user) /\ tunnelOp' = [tunnelOp EXCEPT !.at = "upsert", !.key = NextKey] /\ UNCHANGED vpnCall
       ELSE TunnelLeaves("idle") /\ UNCHANGED vpnSecrets
    /\ UNCHANGED <<tunnelRow, peers, vpnUsers, peerGroups, tunnelFile, tunnelRun, tunnelUnit, projected,
                   vpnExcuse>> /\ NoFault

\* UpsertWireGuardPeer: a peer keeps its address and its group.
Upserted(u) ==
    [peers EXCEPT ![u] = IF IsPeer(u) THEN [@ EXCEPT !.key = tunnelOp.key]
                         ELSE [net |-> tunnelRow.net, host |-> FirstOf(FreeHosts(tunnelRow.net)), key |-> tunnelOp.key]]

WritesPeer ==
    LET u == TunnelCaller.user IN
    /\ TunnelAt("upsert")
    /\ \/ /\ u \in vpnUsers
          /\ peers' = Upserted(u)
          /\ peerGroups' = IF IsPeer(u) THEN peerGroups ELSE peerGroups \cup {u}
          /\ tunnelOp' = [tunnelOp EXCEPT !.at = "dropSecret", !.key = IF IsPeer(u) THEN peers[u].key ELSE 0]
          /\ UNCHANGED <<vpnSecrets, vpnCall>> /\ NoFault
       \/ /\ IF u \in vpnUsers THEN TunnelFault /\ UNCHANGED tunnelEdits ELSE NoFault
          /\ vpnSecrets' \in {vpnSecrets \ {tunnelOp.key}, vpnSecrets}
          /\ TunnelLeaves("idle")
          /\ UNCHANGED <<peers, peerGroups>>
    /\ UNCHANGED <<tunnelRow, vpnUsers, tunnelFile, tunnelRun, tunnelUnit, projected, vpnExcuse>>

\* DeleteWireGuardPeer: the peer, its group and the group's rules at once.
DeletesPeer ==
    LET u == TunnelCaller.user IN
    /\ TunnelAt("revoke")
    /\ IF IsPeer(u)
       THEN /\ peers' = [peers EXCEPT ![u] = NoPeer]
            /\ peerGroups' = peerGroups \ {u}
            /\ tunnelOp' = [tunnelOp EXCEPT !.at = "dropSecret", !.key = peers[u].key]
            /\ UNCHANGED vpnCall
       ELSE TunnelLeaves("integrates") /\ UNCHANGED <<peers, peerGroups>>
    /\ UNCHANGED <<tunnelRow, vpnUsers, vpnSecrets, tunnelFile, tunnelRun, tunnelUnit, projected, vpnExcuse>> /\ NoFault

\* The secret no row names any more goes last; when that fails it stays behind.
DropsSecret ==
    /\ TunnelAt("dropSecret")
    /\ \/ vpnSecrets' = vpnSecrets \ {tunnelOp.key} /\ NoFault
       \/ TunnelFault /\ UNCHANGED <<vpnSecrets, tunnelEdits>>
    /\ TunnelGoes("list")
    /\ UNCHANGED <<tunnelRow, peers, vpnUsers, peerGroups, tunnelFile, tunnelRun, tunnelUnit, projected, vpnCall,
                   vpnExcuse>>

\* DeleteUser, of the accounts: all the user owns goes with it, in one
\* transaction and without the tunnel's mutex; nothing is applied.
UserIsDeleted(u) ==
    /\ u \in vpnUsers
    /\ TunnelEdit
    /\ vpnUsers' = vpnUsers \ {u}
    /\ peers' = [peers EXCEPT ![u] = NoPeer]
    /\ peerGroups' = IF IsPeer(u) THEN peerGroups \ {u} ELSE peerGroups
    /\ vpnSecrets' = IF IsPeer(u) THEN vpnSecrets \ {peers[u].key} ELSE vpnSecrets
    /\ vpnExcuse' = IF IsPeer(u) THEN vpnExcuse \cup {"deleted"} ELSE vpnExcuse
    /\ UNCHANGED <<tunnelRow, tunnelFile, tunnelRun, tunnelUnit, projected, vpnCall, tunnelOp, tunnelFaults>>

-----------------------------------------------------------------------------
\* reconcileLocked: the row and the peers of this moment.
ListsPeers ==
    /\ TunnelAt("list")
    /\ tunnelOp' = [tunnelOp EXCEPT !.at = IF tunnelRow.on THEN "groups" ELSE "stop",
                        !.seen = [net |-> tunnelRow.net, peers |-> PeerList]]
    /\ vpnExcuse' = vpnExcuse \ {"deleted"}
    /\ UNCHANGED <<tunnelRow, peers, vpnUsers, vpnSecrets, peerGroups, tunnelFile, tunnelRun, tunnelUnit, projected,
                   vpnCall>> /\ NoFault

\* EnsureWireGuardPeerGroup: each peer that was listed has its group again.
EnsuresGroups ==
    /\ TunnelAt("groups")
    /\ peerGroups' = peerGroups \cup {p.user : p \in tunnelOp.seen.peers}
    /\ vpnExcuse' = IF \E p \in tunnelOp.seen.peers : ~IsPeer(p.user) THEN vpnExcuse \cup {"revived"} ELSE vpnExcuse
    /\ TunnelGoes("write")
    /\ UNCHANGED <<tunnelRow, peers, vpnUsers, vpnSecrets, tunnelFile, tunnelRun, tunnelUnit, projected, vpnCall>> /\ NoFault

\* RenderServerConfig refuses a peer outside the tunnel.
Renders(f) == \A p \in f.peers : p.net = f.net

\* The file is replaced when it differs, and only what wg-quick accepts.
WritesTunnel ==
    /\ TunnelAt("write")
    /\ IF Renders(tunnelOp.seen)
       THEN /\ tunnelFile' = tunnelOp.seen
            /\ tunnelOp' = [tunnelOp EXCEPT !.at = "enable", !.seen = NoTunnel, !.changed = tunnelFile # tunnelOp.seen]
       ELSE tunnelOp' = [tunnelOp EXCEPT !.at = "record", !.ok = FALSE] /\ UNCHANGED tunnelFile
    /\ UNCHANGED <<tunnelRow, peers, vpnUsers, vpnSecrets, peerGroups, tunnelRun, tunnelUnit, projected, vpnCall,
                   vpnExcuse>> /\ NoFault

EnablesUnit ==
    /\ TunnelAt("enable")
    /\ tunnelUnit' = TRUE
    /\ TunnelGoes("start")
    /\ UNCHANGED <<tunnelRow, peers, vpnUsers, vpnSecrets, peerGroups, tunnelFile, tunnelRun, projected, vpnCall, vpnExcuse>>
    /\ NoFault

\* A changed file restarts the unit, and a unit that is down is started.
RestartsUnit == tunnelOp.changed \/ tunnelRun = NoTunnel

StartsTunnel ==
    /\ TunnelAt("start")
    /\ tunnelRun' = IF RestartsUnit THEN tunnelFile ELSE tunnelRun
    /\ vpnExcuse' = IF RestartsUnit THEN vpnExcuse \ {"stranded"} ELSE vpnExcuse
    /\ tunnelOp' = [tunnelOp EXCEPT !.at = "record"]
    /\ UNCHANGED <<tunnelRow, peers, vpnUsers, vpnSecrets, peerGroups, tunnelFile, tunnelUnit, projected, vpnCall>> /\ NoFault

\* applyDisabled: the unit stops, then its file goes.
StopsTunnel ==
    /\ TunnelAt("stop")
    /\ tunnelRun' = NoTunnel /\ tunnelUnit' = FALSE
    /\ vpnExcuse' = vpnExcuse \ {"stranded"}
    /\ TunnelGoes("remove")
    /\ UNCHANGED <<tunnelRow, peers, vpnUsers, vpnSecrets, peerGroups, tunnelFile, projected, vpnCall>> /\ NoFault

RemovesTunnel ==
    /\ TunnelAt("remove")
    /\ tunnelFile' = NoTunnel
    /\ TunnelGoes("record")
    /\ UNCHANGED <<tunnelRow, peers, vpnUsers, vpnSecrets, peerGroups, tunnelRun, tunnelUnit, projected, vpnCall, vpnExcuse>>
    /\ NoFault

\* What runs is no longer what the file says, and the next apply will find the
\* file as it wants it and the unit active.
Strands == tunnelOp.changed /\ tunnelOp.at \in {"enable", "start"} /\ tunnelRun' # NoTunnel

\* Any call of the apply may fail: a restart that fails may leave nothing running.
ApplyFails ==
    /\ tunnelOp.at \in {"groups", "write", "enable", "start", "stop", "remove"}
    /\ TunnelFault /\ UNCHANGED tunnelEdits
    /\ tunnelRun' \in (IF TunnelAt("start") THEN {tunnelRun, NoTunnel} ELSE {tunnelRun})
    /\ vpnExcuse' = IF Strands THEN vpnExcuse \cup {"stranded"}
                    ELSE IF tunnelRun' = NoTunnel THEN vpnExcuse \ {"stranded"} ELSE vpnExcuse
    /\ tunnelOp' = [tunnelOp EXCEPT !.at = "record", !.ok = FALSE]
    /\ UNCHANGED <<tunnelRow, peers, vpnUsers, vpnSecrets, peerGroups, tunnelFile, tunnelUnit, projected, vpnCall>>

\* recordApply: how it went; a record that fails is dropped.
RecordsApply ==
    /\ TunnelAt("record")
    /\ \/ tunnelRow' = [tunnelRow EXCEPT !.ok = tunnelOp.ok] /\ UNCHANGED vpnExcuse /\ NoFault
       \/ TunnelFault /\ vpnExcuse' = vpnExcuse \cup {"unsaid"} /\ UNCHANGED <<tunnelRow, tunnelEdits>>
    /\ TunnelLeaves(IF TunnelCaller.ask = "config" /\ ~tunnelOp.ok THEN "idle" ELSE "integrates")
    /\ UNCHANGED <<peers, vpnUsers, vpnSecrets, peerGroups, tunnelFile, tunnelRun, tunnelUnit, projected>>

-----------------------------------------------------------------------------
\* reconcileIntegrations, after the mutex: the input chain, the groups and the
\* DNS listener, each tried whatever came of the others.
Integrates(c) ==
    /\ vpnCall[c].at = "integrates"
    /\ \/ /\ projected' = [open |-> tunnelRow.on, groups |-> peerGroups]
          /\ vpnCall' = [vpnCall EXCEPT ![c] = NoVpnCall]
          /\ UNCHANGED vpnExcuse /\ NoFault
       \/ /\ TunnelFault /\ UNCHANGED tunnelEdits
          /\ projected' \in [open : {projected.open, tunnelRow.on}, groups : {projected.groups, peerGroups}]
          /\ \/ vpnCall[c].ask = "boot" /\ vpnCall' = [vpnCall EXCEPT ![c] = NoVpnCall] /\ vpnExcuse' = vpnExcuse \cup {"unsaid"}
             \/ vpnCall[c].ask # "boot" /\ vpnCall' = [vpnCall EXCEPT ![c].at = "records"] /\ UNCHANGED vpnExcuse
    /\ UNCHANGED <<tunnelRow, peers, vpnUsers, vpnSecrets, peerGroups, tunnelFile, tunnelRun, tunnelUnit, tunnelOp>>

\* RecordIntegrationError takes the mutex again.
RecordsIntegration(c) ==
    /\ vpnCall[c].at = "records" /\ tunnelOp = NoHolder
    /\ tunnelRow' = [tunnelRow EXCEPT !.ok = FALSE]
    /\ vpnCall' = [vpnCall EXCEPT ![c] = NoVpnCall]
    /\ UNCHANGED <<peers, vpnUsers, vpnSecrets, peerGroups, tunnelFile, tunnelRun, tunnelUnit, projected, tunnelOp, vpnExcuse>>
    /\ NoFault

\* The process starts again, with or without the machine: systemd starts the
\* unit if it is enabled, and the boot pass reconciles.
TunnelRestarts ==
    /\ TunnelFault /\ UNCHANGED tunnelEdits
    /\ vpnCall' = [c \in TunnelCalls |-> IF c = 1 THEN [NoVpnCall EXCEPT !.at = "waits", !.ask = "boot"] ELSE NoVpnCall]
    /\ tunnelOp' = NoHolder
    /\ \/ /\ UNCHANGED tunnelRun
          /\ vpnExcuse' = IF Strands THEN vpnExcuse \cup {"stranded"} ELSE vpnExcuse
       \/ /\ tunnelRun' = IF tunnelUnit THEN tunnelFile ELSE NoTunnel
          /\ vpnExcuse' = vpnExcuse \ {"stranded"}
    /\ UNCHANGED <<tunnelRow, peers, vpnUsers, vpnSecrets, peerGroups, tunnelFile, tunnelUnit, projected>>

HolderStep ==
    \/ SavesConfig \/ PreparesPeer \/ WritesPeer \/ DeletesPeer \/ DropsSecret \/ ListsPeers \/ EnsuresGroups
    \/ WritesTunnel \/ EnablesUnit \/ StartsTunnel \/ StopsTunnel \/ RemovesTunnel \/ ApplyFails \/ RecordsApply

TunnelNext ==
    \/ \E c \in TunnelCalls : Asks(c) \/ LocksTunnel(c) \/ Integrates(c) \/ RecordsIntegration(c)
    \/ \E u \in VpnUsers : UserIsDeleted(u)
    \/ HolderStep \/ TunnelRestarts

TunnelSpec == TunnelInit /\ [][TunnelNext]_tunnelVars

-----------------------------------------------------------------------------
\* Type invariant of the tunnel.
TunnelTypeOK ==
    /\ tunnelRow \in [on : BOOLEAN, net : Nets, ok : BOOLEAN]
    /\ \A u \in PeerUsers : peers[u].net \in Nets /\ peers[u].host \in Hosts /\ peers[u].key \in 1..(MaxTunnelEdits + 1)
    /\ vpnSecrets \subseteq 1..(MaxTunnelEdits + 1) /\ peerGroups \subseteq VpnUsers /\ vpnUsers \subseteq VpnUsers
    /\ tunnelUnit \in BOOLEAN /\ projected.open \in BOOLEAN /\ projected.groups \subseteq VpnUsers
    /\ tunnelFile.net \in Nets \cup {0} /\ tunnelRun.net \in Nets \cup {0}
    /\ tunnelOp.by \in TunnelCalls \cup {0} /\ tunnelOp.ok \in BOOLEAN /\ tunnelOp.changed \in BOOLEAN
    /\ \A c \in TunnelCalls : vpnCall[c].at \in {"idle", "waits", "holds", "integrates", "records"}
    /\ vpnExcuse \subseteq {"deleted", "revived", "stranded", "unsaid"}
    /\ tunnelEdits \in 0..MaxTunnelEdits /\ tunnelFaults \in 0..MaxTunnelFaults

\* UpsertWireGuardPeer, DeleteWireGuardPeer, DeleteUser: wherever a call stops,
\* a peer has a living user, a group, an address nobody else has and its secret
\* in the vault; a group without a peer is one that was put back after its user
\* had been deleted.
PeersAreWhole ==
    /\ \A u \in PeerUsers : u \in vpnUsers /\ u \in peerGroups /\ peers[u].key \in vpnSecrets
    /\ \A u, v \in PeerUsers : u # v => <<peers[u].net, peers[u].host>> # <<peers[v].net, peers[v].host>>
    /\ "revived" \notin vpnExcuse => \A u \in peerGroups : IsPeer(u)

\* recordApply, RecordIntegrationError: between calls, a row that says the
\* tunnel was applied is right about what runs, about the port and about the
\* groups. The cases where it is not are known: a user was deleted, a file was
\* replaced and the call ended before the restart, a failure was not recorded.
OkMeansTunnel ==
    /\ tunnelOp = NoHolder /\ tunnelRow.ok /\ \A c \in TunnelCalls : vpnCall[c].at = "idle"
    /\ vpnExcuse = {}
    => /\ tunnelRun = IF tunnelRow.on THEN [net |-> tunnelRow.net, peers |-> PeerList] ELSE NoTunnel
       /\ projected = [open |-> tunnelRow.on, groups |-> PeerUsers]
=============================================================================
