------------------------- MODULE TunnelAdoptionProofs -------------------------
(***************************************************************************)
(* What the VPN guarantees for every set of users, networks, hosts and     *)
(* calls: its peers stay whole, and a tunnel recorded as applied runs what *)
(* its row and its peers ask for.  And what an upgrade guarantees for      *)
(* every chain of rules there was: none is lost, doubled or out of order.  *)
(* TunnelInv and AdoptInv are the inductive invariants; PanelProofs lifts  *)
(* them to the panel.                                                      *)
(***************************************************************************)
EXTENDS VpnTunnel, RuleAdoption, FiniteNumbers

-----------------------------------------------------------------------------
(* The tunnel *)

TunnelStages == {"config", "enroll", "upsert", "revoke", "dropSecret", "list", "groups", "write", "enable", "start",
                 "stop", "remove", "record"}
\* The holder has changed what the tunnel derives from, or is applying it.
TunnelPast == {"dropSecret", "list", "groups", "write", "enable", "start", "stop", "remove", "record"}
VpnStages == {"idle", "waits", "holds", "integrates", "records"}
VpnAsks == [at : VpnStages, ask : {"none", "boot", "enroll", "revoke"}, user : VpnUsers \cup {"nobody"}]
           \cup [at : VpnStages, ask : {"config"}, on : BOOLEAN, net : Nets, user : {"nobody"}]
PeerRows == [net : Nat, host : Nat, key : Nat]
TunnelTables == [net : Nat, peers : SUBSET [user : VpnUsers, host : Nat, net : Nat, key : Nat]]
TunnelHolders == [at : {"free"} \cup TunnelStages, by : Nat, seen : TunnelTables, key : Nat, changed : BOOLEAN, ok : BOOLEAN]

TunnelShape ==
    /\ tunnelRow \in [on : BOOLEAN, net : Nets, ok : BOOLEAN]
    /\ peers \in [VpnUsers -> PeerRows]
    /\ vpnUsers \subseteq VpnUsers /\ peerGroups \subseteq VpnUsers
    /\ vpnSecrets \subseteq Nat \ {0} /\ IsFiniteSet(vpnSecrets)
    /\ vpnCall \in [TunnelCalls -> VpnAsks]
    /\ tunnelOp \in TunnelHolders

\* One call holds Service.mu, and is at a step of what it asked for.
HolderFits ==
    /\ \/ tunnelOp = NoHolder
       \/ tunnelOp.at # "free" /\ tunnelOp.by \in TunnelCalls /\ vpnCall[tunnelOp.by].at = "holds"
    /\ \A c \in TunnelCalls :
         /\ vpnCall[c].at = "waits" => vpnCall[c].ask # "none"
         /\ vpnCall[c].ask \in {"enroll", "revoke"} => vpnCall[c].user \in VpnUsers
         /\ vpnCall[c].at = "holds" =>
              /\ tunnelOp.at # "free" /\ tunnelOp.by = c
              /\ tunnelOp.at = "config" => vpnCall[c].ask = "config"
              /\ tunnelOp.at \in {"enroll", "upsert"} => vpnCall[c].ask = "enroll"
              /\ tunnelOp.at = "revoke" => vpnCall[c].ask = "revoke"

\* No two peers share an address or a key, and the key a call is about to write,
\* or to drop, is no peer's.
PeersFit ==
    /\ PeersAreWhole
    /\ \A u, v \in PeerUsers : u # v => peers[u].key # peers[v].key
    /\ tunnelOp.at \in {"upsert", "dropSecret"} => \A u \in PeerUsers : peers[u].key # tunnelOp.key
    /\ tunnelOp.at = "upsert" =>
         /\ tunnelOp.key \in vpnSecrets
         /\ vpnCall[tunnelOp.by].user \in vpnUsers /\ ~ IsPeer(vpnCall[tunnelOp.by].user) => FreeHosts(tunnelRow.net) # {}

\* What the row and the peers ask for.
Wanted == IF tunnelRow.on THEN [net |-> tunnelRow.net, peers |-> PeerList] ELSE NoTunnel

\* How far an apply is: what it listed is what is wanted still, unless a user
\* was deleted meanwhile; what runs is the file, unless the file is new.
StageFits ==
    /\ tunnelOp.at \in {"groups", "write"} => tunnelRow.on /\ ("deleted" \notin vpnExcuse => tunnelOp.seen = Wanted)
    /\ tunnelOp.at \in {"enable", "start"} => tunnelRow.on /\ ("deleted" \notin vpnExcuse => tunnelFile = Wanted)
    /\ tunnelOp.at \in {"stop", "remove"} => ~ tunnelRow.on
    /\ tunnelOp.at = "remove" => tunnelRun = NoTunnel
    /\ tunnelOp.at = "record" /\ tunnelOp.ok /\ "deleted" \notin vpnExcuse /\ "stranded" \notin vpnExcuse => tunnelRun = Wanted
RunFits ==
    "stranded" \notin vpnExcuse =>
      \/ tunnelRun = NoTunnel \/ tunnelRun = tunnelFile
      \/ tunnelOp.changed /\ tunnelOp.at \in {"enable", "start"}

\* A row that says applied is right, outside an apply and what leads to one.
AppliedFits ==
    /\ tunnelRow.ok /\ "unsaid" \notin vpnExcuse /\ "deleted" \notin vpnExcuse /\ tunnelOp.at \notin TunnelPast
    /\ ~ \E c \in TunnelCalls : vpnCall[c].ask = "boot" /\ vpnCall[c].at = "waits"
    => /\ "stranded" \notin vpnExcuse => tunnelRun = Wanted
       /\ "revived" \notin vpnExcuse /\ (\A c \in TunnelCalls : vpnCall[c].at \notin {"integrates", "records"})
          => projected = [open |-> tunnelRow.on, groups |-> PeerUsers]

TunnelInv == TunnelShape /\ HolderFits /\ PeersFit /\ StageFits /\ RunFits /\ AppliedFits

\* The first address of some is one of them.
LEMMA FirstIsOne ==
    ASSUME NEW hs, hs \subseteq Nat, hs # {}
    PROVE  FirstOf(hs) \in hs
<1>1. PICK b \in hs : TRUE
  OBVIOUS
<1> DEFINE gap == {g \in 0 .. b : b - g \in hs}
<1>2. IsFiniteSet(gap) /\ gap \subseteq Nat /\ 0 \in gap
  <2>1. b \in Nat
    OBVIOUS
  <2>2. IsFiniteSet(0 .. b)
    BY <2>1, FS_Interval
  <2>3. gap \subseteq 0 .. b
    OBVIOUS
  <2>4. b - 0 = b /\ 0 \in 0 .. b
    BY <2>1
  <2> QED  BY <2>1, <2>2, <2>3, <2>4, FS_Subset
<1>3. PICK g \in gap : \A k \in gap : k <= g
  <2> HIDE DEF gap
  <2> QED  BY <1>2, FiniteMax
<1>4. \A i \in hs : b - g <= i
  <2> SUFFICES ASSUME NEW i \in hs
               PROVE  b - g <= i
    OBVIOUS
  <2>1. i \in Nat /\ b \in Nat /\ g \in 0 .. b
    OBVIOUS
  <2>2. CASE i <= b
    <3>1. b - i \in 0 .. b /\ b - (b - i) = i
      BY <2>1, <2>2
    <3>2. b - i \in gap
      BY <3>1
    <3>3. b - i <= g
      BY <3>2, <1>3
    <3> QED  BY <2>1, <3>3
  <2>3. CASE ~ (i <= b)
    BY <2>1, <2>3
  <2> QED  BY <2>2, <2>3
<1>5. \E h \in hs : \A i \in hs : h <= i
  <2>1. b - g \in hs
    OBVIOUS
  <2> QED  BY <2>1, <1>4
<1> QED  BY <1>5 DEF FirstOf

\* The next key is nobody's.
LEMMA NextKeyIsNew ==
    ASSUME vpnSecrets \subseteq Nat \ {0}, IsFiniteSet(vpnSecrets)
    PROVE  NextKey \in Nat \ {0} /\ NextKey \notin vpnSecrets
<1> DEFINE all == {0} \cup vpnSecrets
           top == Max(all)
<1>1. IsFiniteSet(all) /\ all \subseteq Nat /\ all # {}
  <2>1. IsFiniteSet(vpnSecrets \cup {0})
    BY FS_AddElement
  <2> QED  BY <2>1
<1>2. \E x \in all : \A y \in all : x >= y
  <2>1. PICK x \in all : \A y \in all : y <= x
    BY <1>1, FiniteMax
  <2>2. \A y \in all : x >= y
    BY <1>1, <2>1
  <2> QED  BY <2>2
<1> HIDE DEF all
<1>3. top \in all /\ \A y \in all : top >= y
  BY <1>2 DEF Max
<1>4. top \in Nat
  BY <1>1, <1>3
<1>5. NextKey = top + 1
  BY DEF NextKey, all
<1>6. vpnSecrets \subseteq all
  BY DEF all
<1> HIDE DEF top
<1>7. \A y \in vpnSecrets : y \in Nat /\ top >= y
  BY <1>3, <1>6
<1>8. top + 1 \notin vpnSecrets
  BY <1>4, <1>7
<1> QED  BY <1>4, <1>5, <1>8

LEMMA NoVpnCallIs == NoVpnCall \in VpnAsks
BY DEF NoVpnCall, VpnAsks, VpnStages

LEMMA NoHolderIs == NoHolder \in TunnelHolders
BY DEF NoHolder, TunnelHolders, TunnelTables, NoTunnel

LEMMA TunnelStarts == TunnelInit => TunnelInv
<1> SUFFICES ASSUME TunnelInit
             PROVE  TunnelInv
  OBVIOUS
<1>1. PICK on \in BOOLEAN : tunnelRow = [on |-> on, net |-> 1, ok |-> TRUE]
  BY DEF TunnelInit
<1>2. tunnelRow \in [on : BOOLEAN, net : Nets, ok : BOOLEAN] /\ tunnelRow.on = on /\ tunnelRow.net = 1 /\ tunnelRow.ok
  BY <1>1, TunnelAssumption
<1>3. /\ peers = [u \in VpnUsers |-> NoPeer] /\ vpnUsers = VpnUsers /\ vpnSecrets = {} /\ peerGroups = {}
      /\ tunnelFile = (IF tunnelRow.on THEN [net |-> 1, peers |-> {}] ELSE NoTunnel) /\ tunnelRun = tunnelFile
      /\ projected = [open |-> tunnelRow.on, groups |-> {}] /\ vpnCall = [c \in TunnelCalls |-> NoVpnCall]
      /\ tunnelOp = NoHolder /\ vpnExcuse = {}
  BY DEF TunnelInit
<1>4. PeerUsers = {} /\ PeerList = {}
  BY <1>3 DEF PeerUsers, IsPeer, PeerList
<1>5. \A c \in TunnelCalls : vpnCall[c].at = "idle" /\ vpnCall[c].ask = "none"
  BY <1>3 DEF NoVpnCall
<1>6. tunnelOp.at = "free"
  BY <1>3 DEF NoHolder
<1>7. TunnelShape
  <2>1. NoPeer \in PeerRows
    BY DEF NoPeer, PeerRows
  <2>2. IsFiniteSet(vpnSecrets)
    BY <1>3, FS_EmptySet
  <2>3. vpnCall \in [TunnelCalls -> VpnAsks]
    BY <1>3, NoVpnCallIs
  <2> QED  BY <1>2, <1>3, <2>1, <2>2, <2>3, NoHolderIs DEF TunnelShape
<1>8. HolderFits
  BY <1>3, <1>5 DEF HolderFits
<1>9. PeersFit
  BY <1>3, <1>4, <1>6 DEF PeersFit, PeersAreWhole
<1>10. tunnelRun = Wanted
  BY <1>2, <1>3, <1>4 DEF Wanted
<1>11. StageFits /\ RunFits
  BY <1>3, <1>6 DEF StageFits, RunFits
<1>12. AppliedFits
  BY <1>3, <1>4, <1>10 DEF AppliedFits
<1> QED  BY <1>7, <1>8, <1>9, <1>11, <1>12 DEF TunnelInv

LEMMA TunnelHolds == TunnelInv => PeersAreWhole /\ OkMeansTunnel
<1> SUFFICES ASSUME TunnelInv
             PROVE  PeersAreWhole /\ OkMeansTunnel
  OBVIOUS
<1>1. PeersAreWhole
  BY DEF TunnelInv, PeersFit
<1>2. OkMeansTunnel
  <2> SUFFICES ASSUME tunnelOp = NoHolder, tunnelRow.ok, \A c \in TunnelCalls : vpnCall[c].at = "idle", vpnExcuse = {}
               PROVE  /\ tunnelRun = Wanted
                      /\ projected = [open |-> tunnelRow.on, groups |-> PeerUsers]
    BY DEF OkMeansTunnel, Wanted
  <2>1. tunnelOp.at \notin TunnelPast
    BY DEF NoHolder, TunnelPast
  <2> QED  BY <2>1 DEF TunnelInv, AppliedFits
<1> QED  BY <1>1, <1>2

\* A call at another step is still the same call.
LEMMA AskGoes ==
    ASSUME NEW a \in VpnAsks, NEW at \in VpnStages
    PROVE  LET b == [a EXCEPT !.at = at] IN
           b \in VpnAsks /\ b.at = at /\ b.ask = a.ask /\ b.user = a.user /\ (a.ask = "config" => b.on = a.on /\ b.net = a.net)
<1> DEFINE Bare == [at : VpnStages, ask : {"none", "boot", "enroll", "revoke"}, user : VpnUsers \cup {"nobody"}]
           Config == [at : VpnStages, ask : {"config"}, on : BOOLEAN, net : Nets, user : {"nobody"}]
<1>1. PICK b : b = [a EXCEPT !.at = at]
  OBVIOUS
<1>2. CASE a \in Bare
  <2>1. b \in Bare
    BY <1>1, <1>2
  <2>2. b.at = at /\ b.ask = a.ask /\ b.user = a.user /\ a.ask # "config"
    BY <1>1, <1>2, <2>1
  <2> QED  BY <1>1, <2>1, <2>2 DEF VpnAsks
<1>3. CASE a \in Config
  <2>1. b \in Config
    BY <1>1, <1>3
  <2>2. b.at = at /\ b.ask = a.ask /\ b.user = a.user /\ b.on = a.on /\ b.net = a.net
    BY <1>1, <1>3, <2>1
  <2> QED  BY <1>1, <2>1, <2>2 DEF VpnAsks
<1> QED  BY <1>2, <1>3 DEF VpnAsks

LEMMA AskIsOne ==
    ASSUME NEW a \in VpnAsks
    PROVE  /\ a.at \in VpnStages /\ a.ask \in {"none", "boot", "enroll", "revoke", "config"}
           /\ a.ask = "config" => a.on \in BOOLEAN /\ a.net \in Nets
BY DEF VpnAsks

\* The holder's call, while Service.mu is held.
LEMMA HolderIs ==
    ASSUME TunnelShape, HolderFits, tunnelOp.at # "free"
    PROVE  /\ tunnelOp.by \in TunnelCalls /\ TunnelCaller \in VpnAsks /\ TunnelCaller.at = "holds"
           /\ tunnelOp.at = "config" => TunnelCaller.ask = "config"
           /\ tunnelOp.at \in {"enroll", "upsert", "revoke"} => TunnelCaller.user \in VpnUsers
<1>1. tunnelOp # NoHolder
  BY DEF NoHolder
<1>2. tunnelOp.by \in TunnelCalls /\ TunnelCaller.at = "holds"
  BY <1>1 DEF HolderFits, TunnelCaller
<1>3. TunnelCaller \in VpnAsks
  BY <1>2 DEF TunnelShape, TunnelCaller
<1>4. tunnelOp.at = "config" => TunnelCaller.ask = "config"
  BY <1>2 DEF HolderFits, TunnelCaller
<1>5. tunnelOp.at \in {"enroll", "upsert", "revoke"} => TunnelCaller.user \in VpnUsers
  BY <1>2 DEF HolderFits, TunnelCaller
<1> QED  BY <1>2, <1>3, <1>4, <1>5

\* The holder goes on with its call, or lets go of the mutex.
HolderStays ==
    /\ UNCHANGED vpnCall
    /\ tunnelOp' \in TunnelHolders /\ tunnelOp'.by = tunnelOp.by
    /\ tunnelOp'.at \in TunnelPast \/ (tunnelOp.at = "enroll" /\ tunnelOp'.at = "upsert")
HolderLeaves == \E at \in {"idle", "integrates"} : TunnelLeaves(at)

LEMMA StageIs ==
    ASSUME tunnelOp \in TunnelHolders, NEW at \in TunnelStages
    PROVE  LET o == [tunnelOp EXCEPT !.at = at] IN
           o \in TunnelHolders /\ o.at = at /\ o.by = tunnelOp.by /\ o.seen = tunnelOp.seen /\ o.key = tunnelOp.key
           /\ o.changed = tunnelOp.changed /\ o.ok = tunnelOp.ok
<1>1. PICK o : o = [tunnelOp EXCEPT !.at = at]
  OBVIOUS
<1>2. o \in TunnelHolders
  BY <1>1 DEF TunnelHolders
<1> QED  BY <1>1, <1>2 DEF TunnelHolders

LEMMA KeyStageIs ==
    ASSUME tunnelOp \in TunnelHolders, NEW at \in TunnelStages, NEW key \in Nat
    PROVE  LET o == [tunnelOp EXCEPT !.at = at, !.key = key] IN
           o \in TunnelHolders /\ o.at = at /\ o.by = tunnelOp.by /\ o.key = key
<1>1. PICK o : o = [tunnelOp EXCEPT !.at = at, !.key = key]
  OBVIOUS
<1>2. o \in TunnelHolders
  BY <1>1 DEF TunnelHolders
<1> QED  BY <1>1, <1>2 DEF TunnelHolders

LEMMA SeenStageIs ==
    ASSUME tunnelOp \in TunnelHolders, NEW at \in TunnelStages, NEW seen \in TunnelTables
    PROVE  LET o == [tunnelOp EXCEPT !.at = at, !.seen = seen] IN
           o \in TunnelHolders /\ o.at = at /\ o.by = tunnelOp.by /\ o.seen = seen
<1>1. PICK o : o = [tunnelOp EXCEPT !.at = at, !.seen = seen]
  OBVIOUS
<1>2. o \in TunnelHolders
  BY <1>1 DEF TunnelHolders
<1> QED  BY <1>1, <1>2 DEF TunnelHolders

LEMMA WrittenStageIs ==
    ASSUME tunnelOp \in TunnelHolders, NEW changed \in BOOLEAN
    PROVE  LET o == [tunnelOp EXCEPT !.at = "enable", !.seen = NoTunnel, !.changed = changed] IN
           o \in TunnelHolders /\ o.at = "enable" /\ o.by = tunnelOp.by /\ o.changed = changed
<1>1. PICK o : o = [tunnelOp EXCEPT !.at = "enable", !.seen = NoTunnel, !.changed = changed]
  OBVIOUS
<1>2. o \in TunnelHolders
  BY <1>1 DEF TunnelHolders, TunnelStages, NoTunnel, TunnelTables
<1> QED  BY <1>1, <1>2 DEF TunnelHolders

LEMMA FailedStageIs ==
    ASSUME tunnelOp \in TunnelHolders
    PROVE  LET o == [tunnelOp EXCEPT !.at = "record", !.ok = FALSE] IN
           o \in TunnelHolders /\ o.at = "record" /\ o.by = tunnelOp.by /\ o.ok = FALSE
<1>1. PICK o : o = [tunnelOp EXCEPT !.at = "record", !.ok = FALSE]
  OBVIOUS
<1>2. o \in TunnelHolders
  BY <1>1 DEF TunnelHolders, TunnelStages
<1> QED  BY <1>1, <1>2 DEF TunnelHolders

LEMMA PeerListIs ==
    TunnelShape => [net |-> tunnelRow.net, peers |-> PeerList] \in TunnelTables
<1> SUFFICES ASSUME TunnelShape
             PROVE  [net |-> tunnelRow.net, peers |-> PeerList] \in TunnelTables
  OBVIOUS
<1>1. tunnelRow.net \in Nat
  BY TunnelAssumption DEF TunnelShape
<1>2. ASSUME NEW u \in PeerUsers
      PROVE  [user |-> u, host |-> peers[u].host, net |-> peers[u].net, key |-> peers[u].key]
             \in [user : VpnUsers, host : Nat, net : Nat, key : Nat]
  <2>1. u \in VpnUsers /\ peers[u] \in PeerRows
    BY DEF PeerUsers, TunnelShape
  <2> QED  BY <2>1 DEF PeerRows
<1>3. PeerList \subseteq [user : VpnUsers, host : Nat, net : Nat, key : Nat]
  BY <1>2 DEF PeerList
<1> QED  BY <1>1, <1>3 DEF TunnelTables

LEMMA HolderMoves ==
    ASSUME TunnelShape, HolderFits, HolderStep
    PROVE  tunnelOp.at # "free" /\ (HolderStays \/ HolderLeaves)
<1>0. tunnelOp \in TunnelHolders
  BY DEF TunnelShape
<1>1. CASE SavesConfig
  BY <1>0, <1>1, StageIs DEF SavesConfig, TunnelAt, TunnelGoes, HolderStays, TunnelPast, TunnelStages
<1>2. CASE PreparesPeer
  <2>1. tunnelOp.at = "enroll"
    BY <1>2 DEF PreparesPeer, TunnelAt
  <2>2. CASE MayEnroll(TunnelCaller.user)
    <3> DEFINE k == NextKey
    <3>1. UNCHANGED vpnCall /\ tunnelOp' = [tunnelOp EXCEPT !.at = "upsert", !.key = k]
      BY <1>2, <2>2 DEF PreparesPeer
    <3>2. k \in Nat
      BY NextKeyIsNew DEF TunnelShape
    <3> HIDE DEF k
    <3>3. "upsert" \in TunnelStages
      BY DEF TunnelStages
    <3>4. /\ tunnelOp' \in TunnelHolders
          /\ tunnelOp'.at = "upsert" /\ tunnelOp'.by = tunnelOp.by
      BY <1>0, <3>1, <3>2, <3>3, KeyStageIs
    <3> QED  BY <2>1, <3>1, <3>4 DEF HolderStays
  <2>3. CASE ~ MayEnroll(TunnelCaller.user)
    BY <1>2, <2>1, <2>3 DEF PreparesPeer, HolderLeaves
  <2> QED  BY <2>2, <2>3
<1>3. CASE WritesPeer
  <2>1. tunnelOp.at = "upsert"
    BY <1>3 DEF WritesPeer, TunnelAt
  <2>2. CASE TunnelLeaves("idle")
    BY <2>1, <2>2 DEF HolderLeaves
  <2>3. CASE ~ TunnelLeaves("idle")
    <3> DEFINE u == TunnelCaller.user
               k == IF IsPeer(u) THEN peers[u].key ELSE 0
    <3>1. u \in VpnUsers
      BY <2>1, HolderIs
    <3>2. k \in Nat
      BY <3>1 DEF TunnelShape, PeerRows
    <3>3. UNCHANGED vpnCall /\ tunnelOp' = [tunnelOp EXCEPT !.at = "dropSecret", !.key = k]
      BY <1>3, <2>3 DEF WritesPeer
    <3> HIDE DEF k
    <3> QED  BY <1>0, <2>1, <3>2, <3>3, KeyStageIs DEF HolderStays, TunnelStages, TunnelPast
  <2> QED  BY <2>2, <2>3
<1>4. CASE DeletesPeer
  <2>1. tunnelOp.at = "revoke"
    BY <1>4 DEF DeletesPeer, TunnelAt
  <2>2. CASE ~ IsPeer(TunnelCaller.user)
    BY <1>4, <2>1, <2>2 DEF DeletesPeer, HolderLeaves
  <2>3. CASE IsPeer(TunnelCaller.user)
    <3>1. TunnelCaller.user \in VpnUsers
      BY <2>1, HolderIs
    <3> DEFINE k == peers[TunnelCaller.user].key
    <3>2. k \in Nat
      BY <3>1 DEF TunnelShape, PeerRows
    <3>3. UNCHANGED vpnCall /\ tunnelOp' = [tunnelOp EXCEPT !.at = "dropSecret", !.key = k]
      BY <1>4, <2>3 DEF DeletesPeer
    <3> HIDE DEF k
    <3> QED  BY <1>0, <2>1, <3>2, <3>3, KeyStageIs DEF HolderStays, TunnelStages, TunnelPast
  <2> QED  BY <2>2, <2>3
<1>5. CASE DropsSecret
  BY <1>0, <1>5, StageIs DEF DropsSecret, TunnelAt, TunnelGoes, HolderStays, TunnelPast, TunnelStages
<1>6. CASE ListsPeers
  <2>1. UNCHANGED vpnCall /\ tunnelOp.at = "list"
    BY <1>6 DEF ListsPeers, TunnelAt
  <2>2. PICK at \in {"groups", "stop"} :
          tunnelOp' = [tunnelOp EXCEPT !.at = at, !.seen = [net |-> tunnelRow.net, peers |-> PeerList]]
    BY <1>6 DEF ListsPeers
  <2>3. at \in TunnelStages /\ at \in TunnelPast
    BY DEF TunnelStages, TunnelPast
  <2> QED  BY <1>0, <2>1, <2>2, <2>3, SeenStageIs, PeerListIs DEF HolderStays
<1>7. CASE EnsuresGroups
  BY <1>0, <1>7, StageIs DEF EnsuresGroups, TunnelAt, TunnelGoes, HolderStays, TunnelPast, TunnelStages
<1>8. CASE WritesTunnel
  <2>1. UNCHANGED vpnCall /\ tunnelOp.at = "write"
    BY <1>8 DEF WritesTunnel, TunnelAt
  <2>2. CASE Renders(tunnelOp.seen)
    <3>1. PICK ch \in BOOLEAN : tunnelOp' = [tunnelOp EXCEPT !.at = "enable", !.seen = NoTunnel, !.changed = ch]
      BY <1>8, <2>2 DEF WritesTunnel
    <3> QED  BY <1>0, <2>1, <3>1, WrittenStageIs DEF HolderStays, TunnelPast
  <2>3. CASE ~ Renders(tunnelOp.seen)
    BY <1>0, <1>8, <2>1, <2>3, FailedStageIs DEF WritesTunnel, HolderStays, TunnelPast
  <2> QED  BY <2>2, <2>3
<1>9. CASE EnablesUnit
  BY <1>0, <1>9, StageIs DEF EnablesUnit, TunnelAt, TunnelGoes, HolderStays, TunnelPast, TunnelStages
<1>10. CASE StartsTunnel
  BY <1>0, <1>10, StageIs DEF StartsTunnel, TunnelAt, HolderStays, TunnelPast, TunnelStages
<1>11. CASE StopsTunnel
  BY <1>0, <1>11, StageIs DEF StopsTunnel, TunnelAt, TunnelGoes, HolderStays, TunnelPast, TunnelStages
<1>12. CASE RemovesTunnel
  BY <1>0, <1>12, StageIs DEF RemovesTunnel, TunnelAt, TunnelGoes, HolderStays, TunnelPast, TunnelStages
<1>13. CASE ApplyFails
  BY <1>0, <1>13, FailedStageIs DEF ApplyFails, HolderStays, TunnelPast
<1>14. CASE RecordsApply
  BY <1>14 DEF RecordsApply, TunnelAt, HolderLeaves
<1> QED
  BY <1>1, <1>2, <1>3, <1>4, <1>5, <1>6, <1>7, <1>8, <1>9, <1>10, <1>11, <1>12, <1>13, <1>14 DEF HolderStep

\* What holds of the holder and its call, call by call.
CallIsFit(c) ==
    /\ vpnCall[c].at = "waits" => vpnCall[c].ask # "none"
    /\ vpnCall[c].ask \in {"enroll", "revoke"} => vpnCall[c].user \in VpnUsers
    /\ vpnCall[c].at = "holds" =>
         /\ tunnelOp.at # "free" /\ tunnelOp.by = c
         /\ tunnelOp.at = "config" => vpnCall[c].ask = "config"
         /\ tunnelOp.at \in {"enroll", "upsert"} => vpnCall[c].ask = "enroll"
         /\ tunnelOp.at = "revoke" => vpnCall[c].ask = "revoke"

LEMMA FitsIs ==
    HolderFits <=> /\ \/ tunnelOp = NoHolder
                      \/ tunnelOp.at # "free" /\ tunnelOp.by \in TunnelCalls /\ vpnCall[tunnelOp.by].at = "holds"
                   /\ \A c \in TunnelCalls : CallIsFit(c)
BY DEF HolderFits, CallIsFit

LEMMA LeavesIs ==
    ASSUME TunnelShape, HolderFits, tunnelOp.at # "free", NEW at \in {"idle", "integrates"}, TunnelLeaves(at)
    PROVE  /\ tunnelOp' = NoHolder
           /\ vpnCall' \in [TunnelCalls -> VpnAsks]
           /\ \A c \in TunnelCalls : c # tunnelOp.by => vpnCall'[c] = vpnCall[c] /\ vpnCall[c].at # "holds"
           /\ vpnCall'[tunnelOp.by].at = at
           /\ vpnCall'[tunnelOp.by].ask \in {"none", TunnelCaller.ask}
           /\ vpnCall'[tunnelOp.by].ask # "none" => vpnCall'[tunnelOp.by].user = TunnelCaller.user
<1> DEFINE a == IF at = "idle" THEN NoVpnCall ELSE [TunnelCaller EXCEPT !.at = at]
<1>1. tunnelOp' = NoHolder /\ vpnCall' = [vpnCall EXCEPT ![tunnelOp.by] = a]
  BY DEF TunnelLeaves, TunnelCaller
<1>2. tunnelOp.by \in TunnelCalls /\ TunnelCaller \in VpnAsks
  BY HolderIs
<1>3. /\ a \in VpnAsks /\ a.at = at /\ a.ask \in {"none", TunnelCaller.ask}
      /\ a.ask # "none" => a.user = TunnelCaller.user
  <2>1. CASE at = "idle"
    BY <2>1, NoVpnCallIs DEF NoVpnCall
  <2>2. CASE at # "idle"
    <3>1. at \in VpnStages
      BY DEF VpnStages
    <3> QED  BY <1>2, <2>2, <3>1, AskGoes
  <2> QED  BY <2>1, <2>2
<1> HIDE DEF a
<1>4. vpnCall \in [TunnelCalls -> VpnAsks]
  BY DEF TunnelShape
<1>5. \A c \in TunnelCalls : vpnCall[c].at = "holds" => c = tunnelOp.by
  BY FitsIs DEF CallIsFit
<1> QED  BY <1>1, <1>2, <1>3, <1>4, <1>5

\* A call that does not hold the mutex moves.
LEMMA OutsideCalls ==
    ASSUME TunnelShape, HolderFits, NEW c \in TunnelCalls, NEW a \in VpnAsks, vpnCall' = [vpnCall EXCEPT ![c] = a],
           UNCHANGED tunnelOp, vpnCall[c].at # "holds", a.at # "holds", a.at = "waits" => a.ask # "none",
           a.ask \in {"enroll", "revoke"} => a.user \in VpnUsers
    PROVE  vpnCall' \in [TunnelCalls -> VpnAsks] /\ HolderFits' /\ vpnCall'[c] = a
           /\ \A d \in TunnelCalls : d # c => vpnCall'[d] = vpnCall[d]
<1>1. vpnCall \in [TunnelCalls -> VpnAsks]
  BY DEF TunnelShape
<1>2. vpnCall' \in [TunnelCalls -> VpnAsks] /\ vpnCall'[c] = a /\ \A d \in TunnelCalls : d # c => vpnCall'[d] = vpnCall[d]
  BY <1>1
<1>3. \A d \in TunnelCalls : CallIsFit(d)'
  <2> SUFFICES ASSUME NEW d \in TunnelCalls
               PROVE  CallIsFit(d)'
    OBVIOUS
  <2>1. CASE d = c
    BY <1>2, <2>1 DEF CallIsFit
  <2>2. CASE d # c
    BY <1>2, <2>2, FitsIs DEF CallIsFit
  <2> QED  BY <2>1, <2>2
<1>4. \/ tunnelOp' = NoHolder
      \/ tunnelOp'.at # "free" /\ tunnelOp'.by \in TunnelCalls /\ vpnCall'[tunnelOp'.by].at = "holds"
  BY <1>2, FitsIs
<1> QED  BY <1>2, <1>3, <1>4 DEF HolderFits, CallIsFit

\* The calls that move by themselves.
LEMMA AsksIs ==
    ASSUME TunnelShape, HolderFits, NEW c \in TunnelCalls, Asks(c)
    PROVE  /\ UNCHANGED <<tunnelRow, peers, vpnUsers, vpnSecrets, peerGroups, tunnelFile, tunnelRun, projected, tunnelOp, vpnExcuse>>
           /\ vpnCall' \in [TunnelCalls -> VpnAsks] /\ HolderFits'
           /\ vpnCall[c].at = "idle" /\ vpnCall'[c].at = "waits" /\ vpnCall'[c].ask # "boot"
           /\ \A d \in TunnelCalls : d # c => vpnCall'[d] = vpnCall[d]
<1>1. /\ UNCHANGED <<tunnelRow, peers, vpnUsers, vpnSecrets, peerGroups, tunnelFile, tunnelRun, projected, tunnelOp, vpnExcuse>>
      /\ vpnCall[c].at = "idle"
  BY DEF Asks
<1>2. PICK a \in VpnAsks : /\ vpnCall' = [vpnCall EXCEPT ![c] = a] /\ a.at = "waits" /\ a.ask \notin {"none", "boot"}
                           /\ a.ask \in {"enroll", "revoke"} => a.user \in VpnUsers
  <2>1. CASE \E on \in BOOLEAN, n \in Nets :
               vpnCall' = [vpnCall EXCEPT ![c] = [at |-> "waits", ask |-> "config", on |-> on, net |-> n, user |-> "nobody"]]
    <3>1. PICK on \in BOOLEAN, n \in Nets :
               vpnCall' = [vpnCall EXCEPT ![c] = [at |-> "waits", ask |-> "config", on |-> on, net |-> n, user |-> "nobody"]]
      BY <2>1
    <3>2. [at |-> "waits", ask |-> "config", on |-> on, net |-> n, user |-> "nobody"] \in VpnAsks
      BY DEF VpnAsks, VpnStages
    <3> QED  BY <3>1, <3>2
  <2>2. CASE \E u \in vpnUsers, ask \in {"enroll", "revoke"} :
               vpnCall' = [vpnCall EXCEPT ![c] = [at |-> "waits", ask |-> ask, user |-> u]]
    <3>1. PICK u \in vpnUsers, ask \in {"enroll", "revoke"} :
               vpnCall' = [vpnCall EXCEPT ![c] = [at |-> "waits", ask |-> ask, user |-> u]]
      BY <2>2
    <3>2. u \in VpnUsers
      BY DEF TunnelShape
    <3>3. [at |-> "waits", ask |-> ask, user |-> u] \in VpnAsks
      BY <3>2 DEF VpnAsks, VpnStages
    <3> QED  BY <3>1, <3>2, <3>3
  <2> QED  BY <2>1, <2>2 DEF Asks
<1>3. UNCHANGED tunnelOp
  BY <1>1
<1>4. vpnCall' \in [TunnelCalls -> VpnAsks] /\ HolderFits' /\ vpnCall'[c] = a
      /\ \A d \in TunnelCalls : d # c => vpnCall'[d] = vpnCall[d]
  BY <1>1, <1>2, <1>3, OutsideCalls
<1> QED  BY <1>1, <1>2, <1>4

LEMMA LocksIs ==
    ASSUME TunnelShape, HolderFits, NEW c \in TunnelCalls, LocksTunnel(c)
    PROVE  /\ UNCHANGED <<tunnelRow, peers, vpnUsers, vpnSecrets, peerGroups, tunnelFile, tunnelRun, projected, vpnExcuse>>
           /\ vpnCall' \in [TunnelCalls -> VpnAsks] /\ tunnelOp' \in TunnelHolders /\ HolderFits'
           /\ tunnelOp = NoHolder /\ vpnCall[c].at = "waits" /\ vpnCall'[c].at = "holds" /\ vpnCall'[c].ask = vpnCall[c].ask
           /\ tunnelOp'.at = (IF vpnCall[c].ask = "boot" THEN "list" ELSE vpnCall[c].ask)
           /\ tunnelOp'.at \in {"list", "config", "enroll", "revoke"}
           /\ \A d \in TunnelCalls : d # c => vpnCall'[d] = vpnCall[d]
<1> DEFINE at == IF vpnCall[c].ask = "boot" THEN "list" ELSE vpnCall[c].ask
<1>1. /\ UNCHANGED <<tunnelRow, peers, vpnUsers, vpnSecrets, peerGroups, tunnelFile, tunnelRun, projected, vpnExcuse>>
      /\ vpnCall[c].at = "waits" /\ tunnelOp = NoHolder
      /\ tunnelOp' = [NoHolder EXCEPT !.at = at, !.by = c] /\ vpnCall' = [vpnCall EXCEPT ![c] = [vpnCall[c] EXCEPT !.at = "holds"]]
  BY DEF LocksTunnel
<1>2. vpnCall \in [TunnelCalls -> VpnAsks] /\ vpnCall[c] \in VpnAsks
  BY DEF TunnelShape
<1>3. PICK a \in VpnAsks : a = [vpnCall[c] EXCEPT !.at = "holds"] /\ a.at = "holds" /\ a.ask = vpnCall[c].ask /\ a.user = vpnCall[c].user
  <2>1. "holds" \in VpnStages
    BY DEF VpnStages
  <2>2. PICK b : b = vpnCall[c]
    OBVIOUS
  <2>3. b \in VpnAsks
    BY <1>2, <2>2
  <2>4. LET d == [b EXCEPT !.at = "holds"] IN d \in VpnAsks /\ d.at = "holds" /\ d.ask = b.ask /\ d.user = b.user
    BY <2>1, <2>3, AskGoes
  <2> QED  BY <2>2, <2>4
<1>4. /\ vpnCall' \in [TunnelCalls -> VpnAsks] /\ vpnCall'[c].at = "holds" /\ vpnCall'[c].ask = vpnCall[c].ask
      /\ vpnCall'[c].user = vpnCall[c].user
      /\ \A d \in TunnelCalls : d # c => vpnCall'[d] = vpnCall[d]
  BY <1>1, <1>2, <1>3
<1>5. at \in {"list", "config", "enroll", "revoke"}
  BY <1>1, <1>2, AskIsOne, FitsIs DEF CallIsFit
<1> HIDE DEF at
<1>6. tunnelOp' \in TunnelHolders /\ tunnelOp'.at = at /\ tunnelOp'.by = c
  <2>1. tunnelOp' = [at |-> at, by |-> c, seen |-> NoTunnel, key |-> 0, changed |-> FALSE, ok |-> TRUE]
    BY <1>1 DEF NoHolder
  <2>2. c \in Nat /\ at \in TunnelStages
    BY <1>5, TunnelAssumption DEF TunnelStages
  <2> QED  BY <2>1, <2>2 DEF TunnelHolders, NoTunnel, TunnelTables
<1>7. \A d \in TunnelCalls : vpnCall[d].at # "holds"
  BY <1>1, FitsIs DEF CallIsFit, NoHolder
<1>8. \A d \in TunnelCalls : CallIsFit(d)'
  <2> SUFFICES ASSUME NEW d \in TunnelCalls
               PROVE  CallIsFit(d)'
    OBVIOUS
  <2>1. CASE d = c
    <3>1. CallIsFit(c)
      BY FitsIs
    <3>2. tunnelOp'.at = (IF vpnCall[c].ask = "boot" THEN "list" ELSE vpnCall[c].ask)
      BY <1>6 DEF at
    <3> QED  BY <1>4, <1>5, <1>6, <2>1, <3>1, <3>2 DEF CallIsFit
  <2>2. CASE d # c
    BY <1>4, <1>7, <2>2, FitsIs DEF CallIsFit
  <2> QED  BY <2>1, <2>2
<1>9. tunnelOp'.at # "free" /\ tunnelOp'.by \in TunnelCalls /\ vpnCall'[tunnelOp'.by].at = "holds"
  BY <1>4, <1>5, <1>6
<1>10. HolderFits'
  BY <1>8, <1>9 DEF HolderFits, CallIsFit
<1> QED  BY <1>1, <1>4, <1>5, <1>6, <1>10 DEF at

LEMMA IntegratesIs ==
    ASSUME TunnelShape, HolderFits, NEW c \in TunnelCalls, Integrates(c)
    PROVE  /\ UNCHANGED <<tunnelRow, peers, vpnUsers, vpnSecrets, peerGroups, tunnelFile, tunnelRun, tunnelOp>>
           /\ vpnCall' \in [TunnelCalls -> VpnAsks] /\ HolderFits'
           /\ vpnCall[c].at = "integrates" /\ vpnCall'[c].at \in {"idle", "records"}
           /\ \A d \in TunnelCalls : d # c => vpnCall'[d] = vpnCall[d]
<1>1. /\ UNCHANGED <<tunnelRow, peers, vpnUsers, vpnSecrets, peerGroups, tunnelFile, tunnelRun, tunnelOp>>
      /\ vpnCall[c].at = "integrates"
  BY DEF Integrates
<1>2. vpnCall[c] \in VpnAsks /\ CallIsFit(c)
  BY FitsIs DEF TunnelShape
<1>3. PICK a \in VpnAsks : /\ vpnCall' = [vpnCall EXCEPT ![c] = a] /\ a.at \in {"idle", "records"}
                           /\ a.ask \in {"enroll", "revoke"} => a.user \in VpnUsers
  <2>1. CASE vpnCall' = [vpnCall EXCEPT ![c] = NoVpnCall]
    BY <2>1, NoVpnCallIs DEF NoVpnCall
  <2>2. CASE vpnCall' = [vpnCall EXCEPT ![c].at = "records"]
    <3>1. PICK a \in VpnAsks : a = [vpnCall[c] EXCEPT !.at = "records"] /\ a.at = "records" /\ a.ask = vpnCall[c].ask
                               /\ a.user = vpnCall[c].user
      BY <1>2, AskGoes DEF VpnStages
    <3> QED  BY <1>2, <2>2, <3>1 DEF CallIsFit
  <2> QED  BY <2>1, <2>2 DEF Integrates
<1>4. UNCHANGED tunnelOp
  BY <1>1
<1>5. vpnCall' \in [TunnelCalls -> VpnAsks] /\ HolderFits' /\ vpnCall'[c] = a
      /\ \A d \in TunnelCalls : d # c => vpnCall'[d] = vpnCall[d]
  BY <1>1, <1>3, <1>4, OutsideCalls
<1> QED  BY <1>1, <1>3, <1>5

LEMMA RecordsIs ==
    ASSUME TunnelShape, HolderFits, NEW c \in TunnelCalls, RecordsIntegration(c)
    PROVE  /\ UNCHANGED <<peers, vpnUsers, vpnSecrets, peerGroups, tunnelFile, tunnelRun, projected, tunnelOp, vpnExcuse>>
           /\ tunnelOp = NoHolder /\ tunnelRow' = [tunnelRow EXCEPT !.ok = FALSE]
           /\ vpnCall' \in [TunnelCalls -> VpnAsks] /\ HolderFits'
<1>1. /\ UNCHANGED <<peers, vpnUsers, vpnSecrets, peerGroups, tunnelFile, tunnelRun, projected, tunnelOp, vpnExcuse>>
      /\ tunnelOp = NoHolder /\ tunnelRow' = [tunnelRow EXCEPT !.ok = FALSE] /\ vpnCall[c].at = "records"
      /\ vpnCall' = [vpnCall EXCEPT ![c] = NoVpnCall] /\ UNCHANGED tunnelOp
  BY DEF RecordsIntegration
<1>2. NoVpnCall \in VpnAsks /\ NoVpnCall.at = "idle" /\ NoVpnCall.ask = "none"
  BY NoVpnCallIs DEF NoVpnCall
<1>3. vpnCall' \in [TunnelCalls -> VpnAsks] /\ HolderFits'
  BY <1>1, <1>2, OutsideCalls
<1> QED  BY <1>1, <1>3

LEMMA BootsIs ==
    ASSUME TunnelShape, TunnelRestarts
    PROVE  /\ UNCHANGED <<tunnelRow, peers, vpnUsers, vpnSecrets, peerGroups, tunnelFile, projected>>
           /\ vpnCall' \in [TunnelCalls -> VpnAsks] /\ tunnelOp' = NoHolder /\ HolderFits'
           /\ vpnCall'[1].at = "waits" /\ vpnCall'[1].ask = "boot"
<1>1. /\ UNCHANGED <<tunnelRow, peers, vpnUsers, vpnSecrets, peerGroups, tunnelFile, projected>> /\ tunnelOp' = NoHolder
      /\ vpnCall' = [c \in TunnelCalls |-> IF c = 1 THEN [NoVpnCall EXCEPT !.at = "waits", !.ask = "boot"] ELSE NoVpnCall]
  BY DEF TunnelRestarts
<1> DEFINE bootCall == [at |-> "waits", ask |-> "boot", user |-> "nobody"]
<1>2. vpnCall' = [c \in TunnelCalls |-> IF c = 1 THEN bootCall ELSE NoVpnCall]
  <2>1. [NoVpnCall EXCEPT !.at = "waits", !.ask = "boot"] = bootCall
    <3>1. [NoVpnCall EXCEPT !.at = "waits"] = [at |-> "waits", ask |-> "none", user |-> "nobody"]
      BY DEF NoVpnCall
    <3>2. [[at |-> "waits", ask |-> "none", user |-> "nobody"] EXCEPT !.ask = "boot"] = bootCall
      OBVIOUS
    <3> QED  BY <3>1, <3>2, Zenon
  <2> QED  BY <1>1, <2>1
<1>3. bootCall \in VpnAsks
  BY DEF VpnAsks, VpnStages
<1>4. vpnCall' \in [TunnelCalls -> VpnAsks]
  BY <1>2, <1>3, NoVpnCallIs
<1>5. \A c \in TunnelCalls : CallIsFit(c)'
  BY <1>2 DEF CallIsFit, NoVpnCall
<1>6. vpnCall'[1].at = "waits" /\ vpnCall'[1].ask = "boot"
  BY <1>2, TunnelAssumption
<1>7. HolderFits'
  BY <1>1, <1>5 DEF HolderFits, CallIsFit
<1> QED  BY <1>1, <1>4, <1>6, <1>7

LEMMA HolderTurn ==
    ASSUME TunnelShape, HolderFits, HolderStep
    PROVE  vpnCall' \in [TunnelCalls -> VpnAsks] /\ tunnelOp' \in TunnelHolders /\ HolderFits'
<1>1. tunnelOp.at # "free" /\ (HolderStays \/ HolderLeaves)
  BY HolderMoves
<1>2. CASE HolderStays
  <2>1. /\ vpnCall' = vpnCall /\ tunnelOp' \in TunnelHolders /\ tunnelOp'.by = tunnelOp.by
        /\ \/ tunnelOp'.at \in TunnelPast
           \/ tunnelOp.at = "enroll" /\ tunnelOp'.at = "upsert"
    BY <1>2 DEF HolderStays
  <2>2. \A c \in TunnelCalls : CallIsFit(c)'
    <3> SUFFICES ASSUME NEW c \in TunnelCalls
                 PROVE  CallIsFit(c)'
      OBVIOUS
    <3>1. CallIsFit(c)
      BY FitsIs
    <3>2. tunnelOp'.at \in TunnelPast =>
            tunnelOp'.at # "free" /\ tunnelOp'.at \notin {"config", "enroll", "upsert", "revoke"}
      BY DEF TunnelPast
    <3> QED  BY <2>1, <3>1, <3>2 DEF CallIsFit
  <2>3. tunnelOp'.at # "free"
    BY <2>1 DEF TunnelPast
  <2>4. tunnelOp'.by \in TunnelCalls /\ vpnCall'[tunnelOp'.by].at = "holds"
    BY <1>1, <2>1, HolderIs DEF TunnelCaller
  <2>5. vpnCall' \in [TunnelCalls -> VpnAsks]
    BY <2>1 DEF TunnelShape
  <2> QED  BY <2>1, <2>2, <2>3, <2>4, <2>5 DEF HolderFits, CallIsFit
<1>3. CASE HolderLeaves
  <2>1. PICK at \in {"idle", "integrates"} : TunnelLeaves(at)
    BY <1>3 DEF HolderLeaves
  <2>2. /\ tunnelOp' = NoHolder
        /\ vpnCall' \in [TunnelCalls -> VpnAsks]
        /\ \A c \in TunnelCalls : c # tunnelOp.by => vpnCall'[c] = vpnCall[c] /\ vpnCall[c].at # "holds"
        /\ vpnCall'[tunnelOp.by].at = at
        /\ vpnCall'[tunnelOp.by].ask \in {"none", TunnelCaller.ask}
        /\ vpnCall'[tunnelOp.by].ask # "none" => vpnCall'[tunnelOp.by].user = TunnelCaller.user
    BY <1>1, <2>1, LeavesIs
  <2>3. \A c \in TunnelCalls : CallIsFit(c)'
    <3> SUFFICES ASSUME NEW c \in TunnelCalls
                 PROVE  CallIsFit(c)'
      OBVIOUS
    <3>1. CallIsFit(c)
      BY FitsIs
    <3>2. CASE c = tunnelOp.by
      BY <2>2, <3>1, <3>2 DEF CallIsFit, TunnelCaller
    <3>3. CASE c # tunnelOp.by
      BY <2>2, <3>1, <3>3 DEF CallIsFit
    <3> QED  BY <3>2, <3>3
  <2> QED  BY <2>2, <2>3, NoHolderIs DEF HolderFits, CallIsFit
<1> QED  BY <1>1, <1>2, <1>3

LEMMA CallsTurn ==
    ASSUME TunnelShape, HolderFits, [TunnelNext]_tunnelVars
    PROVE  vpnCall' \in [TunnelCalls -> VpnAsks] /\ tunnelOp' \in TunnelHolders /\ HolderFits'
<1>1. CASE UNCHANGED <<vpnCall, tunnelOp>>
  <2>1. vpnCall' = vpnCall /\ tunnelOp' = tunnelOp
    BY <1>1
  <2> QED  BY <2>1 DEF TunnelShape, HolderFits
<1>2. CASE HolderStep
  BY <1>2, HolderTurn
<1>3. ASSUME NEW c \in TunnelCalls, Asks(c) \/ LocksTunnel(c) \/ Integrates(c) \/ RecordsIntegration(c)
      PROVE  vpnCall' \in [TunnelCalls -> VpnAsks] /\ tunnelOp' \in TunnelHolders /\ HolderFits'
  <2>1. tunnelOp \in TunnelHolders
    BY DEF TunnelShape
  <2> QED  BY <1>3, <2>1, AsksIs, LocksIs, IntegratesIs, RecordsIs
<1>4. CASE TunnelRestarts
  BY <1>4, BootsIs, NoHolderIs
<1>5. ASSUME NEW u \in VpnUsers, UserIsDeleted(u)
      PROVE  UNCHANGED <<vpnCall, tunnelOp>>
  BY <1>5 DEF UserIsDeleted
<1> QED  BY <1>1, <1>2, <1>3, <1>4, <1>5 DEF TunnelNext, tunnelVars

-----------------------------------------------------------------------------
(* The tunnel: its rows *)

RowsShape ==
    /\ tunnelRow \in [on : BOOLEAN, net : Nets, ok : BOOLEAN]
    /\ peers \in [VpnUsers -> PeerRows]
    /\ vpnUsers \subseteq VpnUsers /\ peerGroups \subseteq VpnUsers
    /\ vpnSecrets \subseteq Nat \ {0} /\ IsFiniteSet(vpnSecrets)

LEMMA ShapeIs == TunnelShape <=> RowsShape /\ vpnCall \in [TunnelCalls -> VpnAsks] /\ tunnelOp \in TunnelHolders
BY DEF TunnelShape, RowsShape

LEMMA RowIs ==
    ASSUME tunnelRow \in [on : BOOLEAN, net : Nets, ok : BOOLEAN], NEW ok \in BOOLEAN
    PROVE  LET r == [tunnelRow EXCEPT !.ok = ok] IN
           r \in [on : BOOLEAN, net : Nets, ok : BOOLEAN] /\ r.on = tunnelRow.on /\ r.net = tunnelRow.net /\ r.ok = ok
OBVIOUS

\* The peer a call of Enroll writes.
LEMMA UpsertedIs ==
    ASSUME TunnelShape, HolderFits, PeersFit, tunnelOp.at = "upsert", TunnelCaller.user \in vpnUsers
    PROVE  LET u == TunnelCaller.user
               p == Upserted(u) IN
           /\ u \in VpnUsers /\ p \in [VpnUsers -> PeerRows] /\ \A v \in VpnUsers : v # u => p[v] = peers[v]
           /\ p[u].key = tunnelOp.key /\ tunnelOp.key # 0 /\ p[u] # NoPeer
           /\ IsPeer(u) => p[u].net = peers[u].net /\ p[u].host = peers[u].host
           /\ ~ IsPeer(u) => p[u].net = tunnelRow.net /\ p[u].host \in FreeHosts(tunnelRow.net)
<1> DEFINE u == TunnelCaller.user
           host == FirstOf(FreeHosts(tunnelRow.net))
           row == IF IsPeer(u) THEN [peers[u] EXCEPT !.key = tunnelOp.key]
                  ELSE [net |-> tunnelRow.net, host |-> host, key |-> tunnelOp.key]
<1>1. u \in VpnUsers /\ peers \in [VpnUsers -> PeerRows] /\ tunnelOp.key \in vpnSecrets /\ tunnelOp.key \in Nat \ {0}
  BY DEF TunnelShape, PeersFit
<1>2. tunnelRow.net \in Nat
  BY TunnelAssumption DEF TunnelShape
<1>3. ~ IsPeer(u) => host \in FreeHosts(tunnelRow.net) /\ host \in Nat
  <2> SUFFICES ASSUME ~ IsPeer(u)
               PROVE  host \in FreeHosts(tunnelRow.net) /\ host \in Nat
    OBVIOUS
  <2>1. FreeHosts(tunnelRow.net) # {}
    BY DEF PeersFit, TunnelCaller
  <2>2. FreeHosts(tunnelRow.net) \subseteq Nat
    BY TunnelAssumption DEF FreeHosts
  <2> QED  BY <2>1, <2>2, FirstIsOne
<1> HIDE DEF host
<1>4. /\ row \in PeerRows /\ row.key = tunnelOp.key
      /\ IsPeer(u) => row.net = peers[u].net /\ row.host = peers[u].host
      /\ ~ IsPeer(u) => row.net = tunnelRow.net /\ row.host = host
  <2>1. CASE IsPeer(u)
    <3>1. PICK r : r = [peers[u] EXCEPT !.key = tunnelOp.key]
      OBVIOUS
    <3>2. peers[u] \in PeerRows
      BY <1>1
    <3>3. r \in PeerRows
      BY <1>1, <3>1, <3>2 DEF PeerRows
    <3>4. r.key = tunnelOp.key /\ r.net = peers[u].net /\ r.host = peers[u].host
      BY <3>1, <3>2 DEF PeerRows
    <3> QED  BY <2>1, <3>1, <3>3, <3>4
  <2>2. CASE ~ IsPeer(u)
    BY <1>1, <1>2, <1>3, <2>2 DEF PeerRows
  <2> QED  BY <2>1, <2>2
<1>5. Upserted(u) = [peers EXCEPT ![u] = row]
  BY DEF Upserted, host
<1>6. row # NoPeer
  BY <1>1, <1>4 DEF NoPeer
<1> HIDE DEF row, u
<1>7. /\ Upserted(u) \in [VpnUsers -> PeerRows] /\ Upserted(u)[u] = row
      /\ \A v \in VpnUsers : v # u => Upserted(u)[v] = peers[v]
  BY <1>1, <1>4, <1>5
<1> QED  BY <1>1, <1>3, <1>4, <1>6, <1>7 DEF u

\* A row without its peer.
LEMMA PeerGoes ==
    ASSUME peers \in [VpnUsers -> PeerRows], NEW u \in VpnUsers, peers' = [peers EXCEPT ![u] = NoPeer]
    PROVE  /\ peers' \in [VpnUsers -> PeerRows] /\ PeerUsers' = PeerUsers \ {u}
           /\ \A v \in VpnUsers : v # u => peers'[v] = peers[v]
           /\ ~ IsPeer(u) => peers' = peers
<1>1. NoPeer \in PeerRows
  BY DEF NoPeer, PeerRows
<1>2. peers' \in [VpnUsers -> PeerRows] /\ peers'[u] = NoPeer /\ \A v \in VpnUsers : v # u => peers'[v] = peers[v]
  BY <1>1
<1>3. PeerUsers' = PeerUsers \ {u}
  BY <1>2 DEF PeerUsers, IsPeer
<1>4. ~ IsPeer(u) => peers' = peers
  BY <1>2 DEF IsPeer
<1> QED  BY <1>2, <1>3, <1>4

LEMMA RowsStep ==
    ASSUME TunnelShape, HolderFits, PeersFit, [TunnelNext]_tunnelVars
    PROVE  RowsShape'
<1>0. RowsShape
  BY DEF TunnelShape, RowsShape
<1>1. CASE UNCHANGED <<tunnelRow, peers, vpnUsers, vpnSecrets, peerGroups>>
  BY <1>0, <1>1 DEF RowsShape
<1>2. CASE SavesConfig
  <2>1. TunnelCaller \in VpnAsks /\ TunnelCaller.ask = "config"
    BY <1>2, HolderIs DEF SavesConfig, TunnelAt
  <2>2. TunnelCaller.on \in BOOLEAN /\ TunnelCaller.net \in Nets
    BY <2>1, AskIsOne
  <2> DEFINE on == TunnelCaller.on
             net == TunnelCaller.net
  <2>3. tunnelRow' = [tunnelRow EXCEPT !.on = on, !.net = net] /\ UNCHANGED <<peers, vpnUsers, vpnSecrets, peerGroups>>
    BY <1>2 DEF SavesConfig
  <2> HIDE DEF on, net
  <2>4. tunnelRow' \in [on : BOOLEAN, net : Nets, ok : BOOLEAN]
    <3>1. on \in BOOLEAN /\ net \in Nets
      BY <2>2 DEF on, net
    <3> QED  BY <1>0, <2>3, <3>1 DEF RowsShape
  <2> QED  BY <1>0, <2>3, <2>4 DEF RowsShape
<1>3. CASE PreparesPeer
  <2>1. UNCHANGED <<tunnelRow, peers, vpnUsers, peerGroups>> /\ vpnSecrets' \in {vpnSecrets, vpnSecrets \cup {NextKey}}
    BY <1>3 DEF PreparesPeer, SecretFirst
  <2>2. NextKey \in Nat \ {0}
    BY <1>0, NextKeyIsNew DEF RowsShape
  <2>3. IsFiniteSet(vpnSecrets \cup {NextKey})
    BY <1>0, FS_AddElement DEF RowsShape
  <2> QED  BY <1>0, <2>1, <2>2, <2>3 DEF RowsShape
<1>4. CASE WritesPeer
  <2>1. tunnelOp.at = "upsert"
    BY <1>4 DEF WritesPeer, TunnelAt
  <2>2. UNCHANGED <<tunnelRow, vpnUsers>>
    BY <1>4 DEF WritesPeer
  <2>3. CASE /\ TunnelCaller.user \in vpnUsers /\ peers' = Upserted(TunnelCaller.user) /\ UNCHANGED vpnSecrets
             /\ peerGroups' = IF IsPeer(TunnelCaller.user) THEN peerGroups ELSE peerGroups \cup {TunnelCaller.user}
    <3>1. TunnelCaller.user \in VpnUsers /\ Upserted(TunnelCaller.user) \in [VpnUsers -> PeerRows]
      BY <2>1, <2>3, UpsertedIs
    <3> QED  BY <1>0, <2>2, <2>3, <3>1 DEF RowsShape
  <2>4. CASE vpnSecrets' \in {vpnSecrets \ {tunnelOp.key}, vpnSecrets} /\ UNCHANGED <<peers, peerGroups>>
    <3>1. IsFiniteSet(vpnSecrets \ {tunnelOp.key})
      BY <1>0, FS_RemoveElement DEF RowsShape
    <3> QED  BY <1>0, <2>2, <2>4, <3>1 DEF RowsShape
  <2> QED  BY <1>4, <2>3, <2>4 DEF WritesPeer
<1>5. CASE DeletesPeer
  <2>1. TunnelCaller.user \in VpnUsers
    BY <1>5, HolderIs DEF DeletesPeer, TunnelAt
  <2>2. UNCHANGED <<tunnelRow, vpnUsers, vpnSecrets>>
    BY <1>5 DEF DeletesPeer
  <2>3. CASE IsPeer(TunnelCaller.user)
    <3>1. peers' = [peers EXCEPT ![TunnelCaller.user] = NoPeer] /\ peerGroups' = peerGroups \ {TunnelCaller.user}
      BY <1>5, <2>3 DEF DeletesPeer
    <3> QED  BY <1>0, <2>1, <2>2, <3>1, PeerGoes DEF RowsShape
  <2>4. CASE ~ IsPeer(TunnelCaller.user)
    BY <1>0, <1>5, <2>2, <2>4 DEF DeletesPeer, RowsShape
  <2> QED  BY <2>3, <2>4
<1>6. CASE DropsSecret
  <2>1. UNCHANGED <<tunnelRow, peers, vpnUsers, peerGroups>> /\ vpnSecrets' \in {vpnSecrets, vpnSecrets \ {tunnelOp.key}}
    BY <1>6 DEF DropsSecret
  <2>2. IsFiniteSet(vpnSecrets \ {tunnelOp.key})
    BY <1>0, FS_RemoveElement DEF RowsShape
  <2> QED  BY <1>0, <2>1, <2>2 DEF RowsShape
<1>7. ASSUME NEW u \in VpnUsers, UserIsDeleted(u)
      PROVE  RowsShape'
  <2>1. /\ UNCHANGED tunnelRow /\ vpnUsers' = vpnUsers \ {u} /\ peers' = [peers EXCEPT ![u] = NoPeer]
        /\ peerGroups' \in {peerGroups, peerGroups \ {u}} /\ vpnSecrets' \in {vpnSecrets, vpnSecrets \ {peers[u].key}}
    BY <1>7 DEF UserIsDeleted
  <2>2. IsFiniteSet(vpnSecrets \ {peers[u].key})
    BY <1>0, FS_RemoveElement DEF RowsShape
  <2>3. peers' \in [VpnUsers -> PeerRows]
    BY <1>0, <2>1, PeerGoes DEF RowsShape
  <2>4. vpnSecrets' \subseteq Nat \ {0} /\ IsFiniteSet(vpnSecrets')
    BY <1>0, <2>1, <2>2 DEF RowsShape
  <2> QED  BY <1>0, <2>1, <2>3, <2>4 DEF RowsShape
<1>8. CASE EnsuresGroups
  <2>1. UNCHANGED <<tunnelRow, peers, vpnUsers, vpnSecrets>> /\ peerGroups' = peerGroups \cup {p.user : p \in tunnelOp.seen.peers}
    BY <1>8 DEF EnsuresGroups
  <2>2. \A p \in tunnelOp.seen.peers : p.user \in VpnUsers
    BY DEF TunnelShape, TunnelHolders, TunnelTables
  <2> QED  BY <1>0, <2>1, <2>2 DEF RowsShape
<1>9. CASE RecordsApply
  <2>1. UNCHANGED <<peers, vpnUsers, vpnSecrets, peerGroups>>
    BY <1>9 DEF RecordsApply
  <2>2. UNCHANGED tunnelRow \/ tunnelRow' = [tunnelRow EXCEPT !.ok = tunnelOp.ok]
    BY <1>9 DEF RecordsApply
  <2>3. tunnelOp.ok \in BOOLEAN
    BY DEF TunnelShape, TunnelHolders
  <2>4. tunnelRow' \in [on : BOOLEAN, net : Nets, ok : BOOLEAN]
    BY <1>0, <2>2, <2>3, RowIs DEF RowsShape
  <2> QED  BY <1>0, <2>1, <2>4 DEF RowsShape
<1>10. ASSUME NEW c \in TunnelCalls, RecordsIntegration(c)
       PROVE  RowsShape'
  <2>1. UNCHANGED <<peers, vpnUsers, vpnSecrets, peerGroups>> /\ tunnelRow' = [tunnelRow EXCEPT !.ok = FALSE]
    BY <1>10 DEF RecordsIntegration
  <2>2. tunnelRow' \in [on : BOOLEAN, net : Nets, ok : BOOLEAN]
    BY <1>0, <2>1, RowIs DEF RowsShape
  <2> QED  BY <1>0, <2>1, <2>2 DEF RowsShape
<1>11. ASSUME NEW c \in TunnelCalls, Asks(c) \/ LocksTunnel(c) \/ Integrates(c)
       PROVE  UNCHANGED <<tunnelRow, peers, vpnUsers, vpnSecrets, peerGroups>>
  BY <1>11 DEF Asks, LocksTunnel, Integrates
<1>12. CASE ListsPeers \/ WritesTunnel \/ EnablesUnit \/ StartsTunnel
  BY <1>1, <1>12 DEF ListsPeers, WritesTunnel, EnablesUnit, StartsTunnel
<1>13. CASE StopsTunnel \/ RemovesTunnel \/ ApplyFails \/ TunnelRestarts
  BY <1>1, <1>13 DEF StopsTunnel, RemovesTunnel, ApplyFails, TunnelRestarts
<1> QED
  BY <1>1, <1>2, <1>3, <1>4, <1>5, <1>6, <1>7, <1>8, <1>9, <1>10, <1>11, <1>12, <1>13
  DEF TunnelNext, HolderStep, tunnelVars

LEMMA TunnelShapeStep ==
    TunnelInv /\ [TunnelNext]_tunnelVars => TunnelShape' /\ HolderFits'
BY RowsStep, CallsTurn, ShapeIs DEF TunnelInv, TunnelShape, RowsShape

-----------------------------------------------------------------------------
(* The tunnel: the peers stay whole *)

\* A peer on its own, and next to another.
PeerIsWhole(u) == u \in vpnUsers /\ u \in peerGroups /\ peers[u].key \in vpnSecrets
PeersDiffer(u, v) == <<peers[u].net, peers[u].host>> # <<peers[v].net, peers[v].host>> /\ peers[u].key # peers[v].key
\* A group has its peer, and what the holder has in hand is nobody's.
GroupsHavePeers == "revived" \notin vpnExcuse => \A u \in peerGroups : IsPeer(u)
KeyIsFree == tunnelOp.at \in {"upsert", "dropSecret"} => \A u \in PeerUsers : peers[u].key # tunnelOp.key
MayUpsert ==
    tunnelOp.at = "upsert" =>
      /\ tunnelOp.key \in vpnSecrets
      /\ vpnCall[tunnelOp.by].user \in vpnUsers /\ ~ IsPeer(vpnCall[tunnelOp.by].user) => FreeHosts(tunnelRow.net) # {}

LEMMA PeersFitIs ==
    PeersFit <=> /\ \A u \in PeerUsers : PeerIsWhole(u)
                 /\ \A u, v \in PeerUsers : u # v => PeersDiffer(u, v)
                 /\ GroupsHavePeers /\ KeyIsFree /\ MayUpsert
BY DEF PeersFit, PeersAreWhole, PeerIsWhole, PeersDiffer, GroupsHavePeers, KeyIsFree, MayUpsert

LEMMA PeersStay ==
    ASSUME PeersFit, UNCHANGED <<peers, vpnUsers, vpnSecrets, peerGroups>>,
           "revived" \in vpnExcuse => "revived" \in vpnExcuse',
           \/ tunnelOp'.at \notin {"upsert", "dropSecret"}
           \/ UNCHANGED <<tunnelOp, tunnelRow>> /\ (tunnelOp.at = "upsert" => vpnCall'[tunnelOp.by].user = vpnCall[tunnelOp.by].user)
    PROVE  PeersFit'
<1>1. PeerUsers' = PeerUsers /\ (\A u : IsPeer(u)' <=> IsPeer(u)) /\ peers' = peers /\ vpnSecrets' = vpnSecrets
      /\ vpnUsers' = vpnUsers /\ peerGroups' = peerGroups
  BY DEF PeerUsers, IsPeer
<1>2. /\ \A u \in PeerUsers : PeerIsWhole(u)
      /\ \A u, v \in PeerUsers : u # v => PeersDiffer(u, v)
      /\ GroupsHavePeers /\ KeyIsFree /\ MayUpsert
  BY PeersFitIs
<1>3. (\A u \in PeerUsers : PeerIsWhole(u))'
  BY <1>1, <1>2 DEF PeerIsWhole
<1>4. (\A u, v \in PeerUsers : u # v => PeersDiffer(u, v))'
  BY <1>1, <1>2 DEF PeersDiffer
<1>5. GroupsHavePeers'
  BY <1>1, <1>2 DEF GroupsHavePeers
<1>6. CASE tunnelOp'.at \notin {"upsert", "dropSecret"}
  BY <1>3, <1>4, <1>5, <1>6 DEF PeersFit, PeersAreWhole, PeerIsWhole, PeersDiffer, GroupsHavePeers
<1>7. CASE UNCHANGED <<tunnelOp, tunnelRow>> /\ (tunnelOp.at = "upsert" => vpnCall'[tunnelOp.by].user = vpnCall[tunnelOp.by].user)
  <2>1. KeyIsFree'
    BY <1>1, <1>2, <1>7 DEF KeyIsFree
  <2>2. FreeHosts(tunnelRow.net)' = FreeHosts(tunnelRow.net)
    BY <1>1, <1>7 DEF FreeHosts
  <2>3. MayUpsert'
    BY <1>1, <1>2, <1>7, <2>2 DEF MayUpsert
  <2> QED
    BY <1>3, <1>4, <1>5, <2>1, <2>3
    DEF PeersFit, PeersAreWhole, PeerIsWhole, PeersDiffer, GroupsHavePeers, KeyIsFree, MayUpsert
<1> QED  BY <1>6, <1>7

\* A new peer has an address of its own, and takes the key at hand.
LEMMA UpsertStep ==
    ASSUME TunnelInv, tunnelOp.at = "upsert", NEW u, u = TunnelCaller.user, u \in vpnUsers, peers' = Upserted(u),
           peerGroups' = (IF IsPeer(u) THEN peerGroups ELSE peerGroups \cup {u}), UNCHANGED <<vpnUsers, vpnSecrets, vpnExcuse>>,
           tunnelOp'.at = "dropSecret", tunnelOp'.key = (IF IsPeer(u) THEN peers[u].key ELSE 0)
    PROVE  PeersFit'
<1>1. /\ u \in VpnUsers /\ peers' \in [VpnUsers -> PeerRows] /\ \A v \in VpnUsers : v # u => peers'[v] = peers[v]
      /\ peers'[u].key = tunnelOp.key /\ tunnelOp.key # 0 /\ peers'[u] # NoPeer
      /\ IsPeer(u) => peers'[u].net = peers[u].net /\ peers'[u].host = peers[u].host
      /\ ~ IsPeer(u) => peers'[u].net = tunnelRow.net /\ peers'[u].host \in FreeHosts(tunnelRow.net)
  BY UpsertedIs DEF TunnelInv
<1>2. /\ \A v \in PeerUsers : PeerIsWhole(v)
      /\ \A v, w \in PeerUsers : v # w => PeersDiffer(v, w)
      /\ GroupsHavePeers /\ KeyIsFree /\ MayUpsert
  BY PeersFitIs DEF TunnelInv
<1>3. PeerUsers' = PeerUsers \cup {u} /\ (u \in PeerUsers <=> IsPeer(u)) /\ \A v \in PeerUsers : v \in VpnUsers
  BY <1>1 DEF PeerUsers, IsPeer
<1>4. (\A v \in PeerUsers : PeerIsWhole(v))'
  <2> SUFFICES ASSUME NEW v \in PeerUsers'
               PROVE  PeerIsWhole(v)'
    OBVIOUS
  <2>1. CASE v = u
    <3>1. tunnelOp.key \in vpnSecrets
      BY <1>2 DEF MayUpsert
    <3>2. u \in peerGroups'
      BY <1>2, <1>3 DEF PeerIsWhole
    <3> QED  BY <1>1, <2>1, <3>1, <3>2 DEF PeerIsWhole
  <2>2. CASE v # u
    <3>1. v \in PeerUsers /\ PeerIsWhole(v) /\ peers'[v] = peers[v]
      BY <1>1, <1>2, <1>3, <2>2
    <3> QED  BY <3>1 DEF PeerIsWhole
  <2> QED  BY <2>1, <2>2
<1>5. ASSUME NEW v \in PeerUsers, v # u
      PROVE  /\ <<peers'[u].net, peers'[u].host>> # <<peers[v].net, peers[v].host>>
             /\ peers'[u].key # peers[v].key
  <2>1. peers'[u].key # peers[v].key
    BY <1>1, <1>2 DEF KeyIsFree
  <2>2. CASE IsPeer(u)
    <3>1. PeersDiffer(u, v)
      BY <1>2, <1>3, <1>5, <2>2
    <3> QED  BY <1>1, <2>1, <2>2, <3>1 DEF PeersDiffer
  <2>3. CASE ~ IsPeer(u)
    <3>1. <<peers[v].net, peers[v].host>> # <<tunnelRow.net, peers'[u].host>>
      BY <1>1, <2>3 DEF FreeHosts
    <3> QED  BY <1>1, <2>1, <2>3, <3>1
  <2> QED  BY <2>2, <2>3
<1>6. (\A v, w \in PeerUsers : v # w => PeersDiffer(v, w))'
  <2> SUFFICES ASSUME NEW v \in PeerUsers', NEW w \in PeerUsers', v # w
               PROVE  PeersDiffer(v, w)'
    OBVIOUS
  <2>1. CASE v = u
    <3>1. w \in PeerUsers /\ w # u /\ peers'[w] = peers[w]
      BY <1>1, <1>3, <2>1
    <3> QED  BY <1>5, <2>1, <3>1 DEF PeersDiffer
  <2>2. CASE w = u
    <3>1. v \in PeerUsers /\ v # u /\ peers'[v] = peers[v]
      BY <1>1, <1>3, <2>2
    <3> QED  BY <1>5, <2>2, <3>1 DEF PeersDiffer
  <2>3. CASE v # u /\ w # u
    <3>1. v \in PeerUsers /\ w \in PeerUsers /\ peers'[v] = peers[v] /\ peers'[w] = peers[w] /\ PeersDiffer(v, w)
      BY <1>1, <1>2, <1>3, <2>3
    <3> QED  BY <3>1 DEF PeersDiffer
  <2> QED  BY <2>1, <2>2, <2>3
<1>7. GroupsHavePeers'
  <2> SUFFICES ASSUME "revived" \notin vpnExcuse, NEW v \in peerGroups'
               PROVE  IsPeer(v)'
    BY DEF GroupsHavePeers
  <2>1. CASE v = u
    BY <1>1, <2>1 DEF IsPeer
  <2>2. CASE v # u
    <3>1. v \in peerGroups /\ IsPeer(v)
      BY <1>2, <2>2 DEF GroupsHavePeers
    <3>2. v \in VpnUsers
      BY <3>1 DEF TunnelInv, TunnelShape
    <3> QED  BY <1>1, <2>2, <3>1, <3>2 DEF IsPeer
  <2> QED  BY <2>1, <2>2
<1>8. KeyIsFree'
  <2> SUFFICES ASSUME NEW v \in PeerUsers'
               PROVE  peers'[v].key # tunnelOp'.key
    BY DEF KeyIsFree
  <2>1. CASE ~ IsPeer(u)
    <3>1. v # u => v \in PeerUsers /\ peers'[v] = peers[v] /\ PeerIsWhole(v)
      BY <1>1, <1>2, <1>3
    <3>2. v # u => peers'[v].key # 0
      BY <3>1 DEF PeerIsWhole, TunnelInv, TunnelShape
    <3> QED  BY <1>1, <2>1, <3>2
  <2>2. CASE IsPeer(u) /\ v = u
    BY <1>1, <1>2, <1>3, <2>2 DEF KeyIsFree
  <2>3. CASE IsPeer(u) /\ v # u
    <3>1. v \in PeerUsers /\ peers'[v] = peers[v] /\ u \in PeerUsers
      BY <1>1, <1>3, <2>3
    <3>2. PeersDiffer(v, u)
      BY <1>2, <2>3, <3>1
    <3> QED  BY <2>3, <3>1, <3>2 DEF PeersDiffer
  <2> QED  BY <2>1, <2>2, <2>3
<1>9. MayUpsert'
  BY DEF MayUpsert
<1> QED
  BY <1>4, <1>6, <1>7, <1>8, <1>9
  DEF PeersFit, PeersAreWhole, PeerIsWhole, PeersDiffer, GroupsHavePeers, KeyIsFree, MayUpsert

\* A peer leaves, with its group, and with its secret or before it.
LEMMA PeerGoesStep ==
    ASSUME TunnelInv, NEW u \in VpnUsers, peers' = [peers EXCEPT ![u] = NoPeer],
           vpnUsers' \in {vpnUsers, vpnUsers \ {u}}, vpnSecrets' \in {vpnSecrets, vpnSecrets \ {peers[u].key}},
           IsPeer(u) \/ vpnSecrets' = vpnSecrets,
           peerGroups' = (IF IsPeer(u) THEN peerGroups \ {u} ELSE peerGroups), vpnExcuse \subseteq vpnExcuse'
    PROVE  /\ \A v \in PeerUsers' : v # u /\ v \in PeerUsers /\ PeerIsWhole(v)'
           /\ \A v \in PeerUsers' : peers'[v] = peers[v]
           /\ (\A v, w \in PeerUsers : v # w => PeersDiffer(v, w))'
           /\ GroupsHavePeers'
<1>1. /\ peers' \in [VpnUsers -> PeerRows] /\ PeerUsers' = PeerUsers \ {u}
      /\ \A v \in VpnUsers : v # u => peers'[v] = peers[v]
      /\ ~ IsPeer(u) => peers' = peers
  BY PeerGoes DEF TunnelInv, TunnelShape
<1>2. /\ \A v \in PeerUsers : PeerIsWhole(v)
      /\ \A v, w \in PeerUsers : v # w => PeersDiffer(v, w)
      /\ GroupsHavePeers
  BY PeersFitIs DEF TunnelInv
<1>3. \A v \in PeerUsers : v \in VpnUsers /\ IsPeer(v)
  BY DEF PeerUsers
<1>4. \A v \in PeerUsers' : v # u /\ v \in PeerUsers /\ peers'[v] = peers[v]
  BY <1>1, <1>3
<1>5. ASSUME NEW v \in PeerUsers'
      PROVE  PeerIsWhole(v)'
  <2>1. v # u /\ v \in PeerUsers /\ peers'[v] = peers[v] /\ PeerIsWhole(v)
    BY <1>2, <1>4
  <2>2. v \in vpnUsers' /\ v \in peerGroups'
    BY <2>1 DEF PeerIsWhole
  <2>3. peers[v].key \in vpnSecrets'
    <3>1. CASE vpnSecrets' = vpnSecrets
      BY <2>1, <3>1 DEF PeerIsWhole
    <3>2. CASE IsPeer(u)
      <4>1. u \in PeerUsers
        BY <3>2 DEF PeerUsers
      <4>2. PeersDiffer(v, u)
        BY <1>2, <2>1, <4>1
      <4> QED  BY <2>1, <4>2 DEF PeerIsWhole, PeersDiffer
    <3> QED  BY <3>1, <3>2
  <2> QED  BY <2>1, <2>2, <2>3 DEF PeerIsWhole
<1>6. (\A v, w \in PeerUsers : v # w => PeersDiffer(v, w))'
  BY <1>2, <1>4 DEF PeersDiffer
<1>7. GroupsHavePeers'
  <2> SUFFICES ASSUME "revived" \notin vpnExcuse', NEW v \in peerGroups'
               PROVE  IsPeer(v)'
    BY DEF GroupsHavePeers
  <2>1. v \in peerGroups /\ IsPeer(v) /\ v \in VpnUsers
    BY <1>2 DEF GroupsHavePeers, TunnelInv, TunnelShape
  <2>2. v # u \/ ~ IsPeer(u)
    OBVIOUS
  <2> QED  BY <1>1, <2>1, <2>2 DEF IsPeer
<1> QED  BY <1>4, <1>5, <1>6, <1>7

LEMMA DeletesPeerStep ==
    ASSUME TunnelInv, DeletesPeer
    PROVE  PeersFit'
<1> DEFINE u == TunnelCaller.user
<1>1. u \in VpnUsers /\ tunnelOp.at = "revoke" /\ UNCHANGED <<tunnelRow, vpnUsers, vpnSecrets, vpnExcuse>>
  BY HolderIs DEF DeletesPeer, TunnelAt, TunnelInv
<1>2. CASE IsPeer(u)
  <2>1. /\ peers' = [peers EXCEPT ![u] = NoPeer] /\ peerGroups' = peerGroups \ {u}
        /\ tunnelOp' = [tunnelOp EXCEPT !.at = "dropSecret", !.key = peers[u].key]
    BY <1>2 DEF DeletesPeer
  <2>2. peers[u].key \in Nat /\ tunnelOp \in TunnelHolders
    BY <1>1 DEF TunnelInv, TunnelShape, PeerRows
  <2> DEFINE k == peers[u].key
  <2>3. tunnelOp'.at = "dropSecret" /\ tunnelOp'.key = k
    <3>1. k \in Nat /\ tunnelOp' = [tunnelOp EXCEPT !.at = "dropSecret", !.key = k] /\ "dropSecret" \in TunnelStages
      BY <2>1, <2>2 DEF TunnelStages
    <3> HIDE DEF k
    <3> QED  BY <2>2, <3>1, KeyStageIs
  <2> HIDE DEF u
  <2>4. /\ \A v \in PeerUsers' : v # u /\ v \in PeerUsers /\ PeerIsWhole(v)'
        /\ \A v \in PeerUsers' : peers'[v] = peers[v]
        /\ (\A v, w \in PeerUsers : v # w => PeersDiffer(v, w))'
        /\ GroupsHavePeers'
    BY <1>1, <1>2, <2>1, PeerGoesStep
  <2>5. KeyIsFree'
    <3>1. ASSUME NEW v \in PeerUsers'
          PROVE  peers'[v].key # k
      <4>1. v # u /\ v \in PeerUsers /\ u \in PeerUsers
        BY <1>1, <1>2, <2>4 DEF PeerUsers
      <4>2. PeersDiffer(v, u)
        BY <4>1, PeersFitIs DEF TunnelInv
      <4> QED  BY <2>4, <4>2 DEF PeersDiffer
    <3> QED  BY <2>3, <3>1 DEF KeyIsFree
  <2>6. MayUpsert'
    BY <2>3 DEF MayUpsert
  <2> QED
    BY <2>4, <2>5, <2>6
    DEF PeersFit, PeersAreWhole, PeerIsWhole, PeersDiffer, GroupsHavePeers, KeyIsFree, MayUpsert
<1>3. CASE ~ IsPeer(u)
  <2>1. tunnelOp' = NoHolder /\ UNCHANGED <<peers, peerGroups>>
    BY <1>3 DEF DeletesPeer, TunnelLeaves
  <2>2. tunnelOp'.at \notin {"upsert", "dropSecret"}
    BY <2>1 DEF NoHolder
  <2> QED  BY <1>1, <2>1, <2>2, PeersStay DEF TunnelInv
<1> QED  BY <1>2, <1>3

LEMMA UserGoesStep ==
    ASSUME TunnelInv, NEW u \in VpnUsers, UserIsDeleted(u)
    PROVE  PeersFit'
<1>1. /\ peers' = [peers EXCEPT ![u] = NoPeer] /\ vpnUsers' = vpnUsers \ {u}
      /\ vpnSecrets' = (IF IsPeer(u) THEN vpnSecrets \ {peers[u].key} ELSE vpnSecrets)
      /\ peerGroups' = (IF IsPeer(u) THEN peerGroups \ {u} ELSE peerGroups) /\ vpnExcuse \subseteq vpnExcuse'
      /\ tunnelOp' = tunnelOp /\ tunnelRow' = tunnelRow /\ vpnCall' = vpnCall
  BY DEF UserIsDeleted
<1>2. /\ \A v \in PeerUsers' : v # u /\ v \in PeerUsers /\ PeerIsWhole(v)'
      /\ \A v \in PeerUsers' : peers'[v] = peers[v]
      /\ (\A v, w \in PeerUsers : v # w => PeersDiffer(v, w))'
      /\ GroupsHavePeers'
  BY <1>1, PeerGoesStep
<1>3. KeyIsFree /\ MayUpsert /\ peers \in [VpnUsers -> PeerRows]
  BY PeersFitIs DEF TunnelInv, TunnelShape
<1>4. KeyIsFree'
  BY <1>1, <1>2, <1>3 DEF KeyIsFree
<1>5. MayUpsert'
  <2> SUFFICES ASSUME tunnelOp.at = "upsert"
               PROVE  MayUpsert'
    BY <1>1 DEF MayUpsert
  <2> DEFINE w == vpnCall[tunnelOp.by].user
  <2>1. tunnelOp.key \in vpnSecrets'
    <3>1. tunnelOp.key \in vpnSecrets
      BY <1>3 DEF MayUpsert
    <3>2. IsPeer(u) => peers[u].key # tunnelOp.key
      BY <1>3 DEF KeyIsFree, PeerUsers
    <3> QED  BY <1>1, <3>1, <3>2
  <2>2. ASSUME w \in vpnUsers', ~ IsPeer(w)'
        PROVE  (FreeHosts(tunnelRow.net) # {})'
    <3>1. w \in vpnUsers /\ w # u /\ w \in VpnUsers
      BY <1>1, <2>2 DEF TunnelInv, TunnelShape
    <3>2. peers'[w] = peers[w]
      BY <1>1, <1>3, <3>1
    <3>3. ~ IsPeer(w)
      BY <1>1, <2>2, <3>2 DEF IsPeer
    <3>4. FreeHosts(tunnelRow.net) # {}
      BY <1>3, <3>1, <3>3 DEF MayUpsert
    <3>5. FreeHosts(tunnelRow.net) \subseteq FreeHosts(tunnelRow.net)'
      BY <1>1, <1>2 DEF FreeHosts
    <3> QED  BY <3>4, <3>5
  <2> QED  BY <1>1, <2>1, <2>2 DEF MayUpsert
<1> QED
  BY <1>2, <1>4, <1>5
  DEF PeersFit, PeersAreWhole, PeerIsWhole, PeersDiffer, GroupsHavePeers, KeyIsFree, MayUpsert

LEMMA PreparesPeerStep ==
    ASSUME TunnelInv, PreparesPeer
    PROVE  PeersFit'
<1>1. /\ tunnelOp.at = "enroll" /\ tunnelOp \in TunnelHolders /\ tunnelOp # NoHolder
      /\ UNCHANGED <<tunnelRow, peers, vpnUsers, peerGroups, vpnExcuse>>
  BY DEF PreparesPeer, TunnelAt, TunnelInv, TunnelShape, NoHolder
<1>2. CASE ~ MayEnroll(TunnelCaller.user)
  <2>1. tunnelOp' = NoHolder /\ UNCHANGED vpnSecrets
    BY <1>2 DEF PreparesPeer, TunnelLeaves
  <2>2. tunnelOp'.at \notin {"upsert", "dropSecret"}
    BY <2>1 DEF NoHolder
  <2> QED  BY <1>1, <2>1, <2>2, PeersStay DEF TunnelInv
<1>3. CASE MayEnroll(TunnelCaller.user)
  <2> DEFINE k == NextKey
  <2>1. UNCHANGED vpnCall /\ vpnSecrets' = vpnSecrets \cup {k} /\ tunnelOp' = [tunnelOp EXCEPT !.at = "upsert", !.key = k]
    BY <1>3 DEF PreparesPeer, SecretFirst
  <2>2. k \in Nat \ {0} /\ k \notin vpnSecrets
    BY NextKeyIsNew DEF TunnelInv, TunnelShape
  <2> HIDE DEF k
  <2>3. tunnelOp'.at = "upsert" /\ tunnelOp'.key = k /\ tunnelOp'.by = tunnelOp.by
    <3>1. "upsert" \in TunnelStages
      BY DEF TunnelStages
    <3> QED  BY <1>1, <2>1, <2>2, <3>1, KeyStageIs
  <2>4. PeerUsers' = PeerUsers /\ (\A v : IsPeer(v)' <=> IsPeer(v)) /\ peers' = peers
    BY <1>1 DEF PeerUsers, IsPeer
  <2>5. /\ \A v \in PeerUsers : PeerIsWhole(v)
        /\ \A v, w \in PeerUsers : v # w => PeersDiffer(v, w)
        /\ GroupsHavePeers
    BY PeersFitIs DEF TunnelInv
  <2>6. (\A v \in PeerUsers : PeerIsWhole(v))'
    BY <1>1, <2>1, <2>4, <2>5 DEF PeerIsWhole
  <2>7. (\A v, w \in PeerUsers : v # w => PeersDiffer(v, w))'
    BY <2>4, <2>5 DEF PeersDiffer
  <2>8. GroupsHavePeers'
    BY <1>1, <2>4, <2>5 DEF GroupsHavePeers
  <2>9. KeyIsFree'
    BY <2>2, <2>3, <2>4, <2>5 DEF KeyIsFree, PeerIsWhole
  <2>10. MayUpsert'
    <3>1. ~ IsPeer(TunnelCaller.user) => FreeHosts(tunnelRow.net) # {}
      BY <1>3 DEF MayEnroll
    <3>2. FreeHosts(tunnelRow.net)' = FreeHosts(tunnelRow.net)
      BY <1>1, <2>4 DEF FreeHosts
    <3> QED  BY <1>1, <2>1, <2>3, <2>4, <3>1, <3>2 DEF MayUpsert, TunnelCaller
  <2> QED
    BY <2>6, <2>7, <2>8, <2>9, <2>10
    DEF PeersFit, PeersAreWhole, PeerIsWhole, PeersDiffer, GroupsHavePeers, KeyIsFree, MayUpsert
<1> QED  BY <1>2, <1>3

\* A secret no peer has goes.
LEMMA SecretGoesStep ==
    ASSUME TunnelInv, tunnelOp.at \in {"upsert", "dropSecret"}, UNCHANGED <<peers, vpnUsers, peerGroups, vpnExcuse>>,
           vpnSecrets' \in {vpnSecrets, vpnSecrets \ {tunnelOp.key}}, tunnelOp'.at \notin {"upsert", "dropSecret"}
    PROVE  PeersFit'
<1>1. PeerUsers' = PeerUsers /\ (\A v : IsPeer(v)' <=> IsPeer(v)) /\ peers' = peers
  BY DEF PeerUsers, IsPeer
<1>2. /\ \A v \in PeerUsers : PeerIsWhole(v)
      /\ \A v, w \in PeerUsers : v # w => PeersDiffer(v, w)
      /\ GroupsHavePeers /\ KeyIsFree
  BY PeersFitIs DEF TunnelInv
<1>3. (\A v \in PeerUsers : PeerIsWhole(v))'
  BY <1>1, <1>2 DEF PeerIsWhole, KeyIsFree
<1>4. (\A v, w \in PeerUsers : v # w => PeersDiffer(v, w))'
  BY <1>1, <1>2 DEF PeersDiffer
<1>5. GroupsHavePeers'
  BY <1>1, <1>2 DEF GroupsHavePeers
<1> QED
  BY <1>3, <1>4, <1>5 DEF PeersFit, PeersAreWhole, PeerIsWhole, PeersDiffer, GroupsHavePeers

LEMMA WritesPeerStep ==
    ASSUME TunnelInv, WritesPeer
    PROVE  PeersFit'
<1> DEFINE u == TunnelCaller.user
           k == IF IsPeer(u) THEN peers[u].key ELSE 0
<1>1. /\ tunnelOp.at = "upsert" /\ tunnelOp \in TunnelHolders
      /\ UNCHANGED <<tunnelRow, vpnUsers, vpnExcuse>>
  BY DEF WritesPeer, TunnelAt, TunnelInv, TunnelShape
<1>2. CASE TunnelLeaves("idle") /\ vpnSecrets' \in {vpnSecrets \ {tunnelOp.key}, vpnSecrets} /\ UNCHANGED <<peers, peerGroups>>
  <2>1. tunnelOp'.at \notin {"upsert", "dropSecret"}
    BY <1>2 DEF TunnelLeaves, NoHolder
  <2> QED  BY <1>1, <1>2, <2>1, SecretGoesStep
<1>3. CASE /\ u \in vpnUsers /\ peers' = Upserted(u) /\ UNCHANGED vpnSecrets
           /\ peerGroups' = (IF IsPeer(u) THEN peerGroups ELSE peerGroups \cup {u})
           /\ tunnelOp' = [tunnelOp EXCEPT !.at = "dropSecret", !.key = k]
  <2>1. k \in Nat /\ "dropSecret" \in TunnelStages
    BY <1>3 DEF TunnelInv, TunnelShape, PeerRows, TunnelStages
  <2>2. tunnelOp' = [tunnelOp EXCEPT !.at = "dropSecret", !.key = k]
    BY <1>3
  <2> HIDE DEF k
  <2>3. tunnelOp'.at = "dropSecret" /\ tunnelOp'.key = k
    BY <1>1, <2>1, <2>2, KeyStageIs
  <2> HIDE DEF u
  <2>4. u = TunnelCaller.user /\ k = (IF IsPeer(u) THEN peers[u].key ELSE 0)
    BY DEF u, k
  <2> QED  BY <1>1, <1>3, <2>3, <2>4, UpsertStep
<1> QED  BY <1>2, <1>3 DEF WritesPeer

LEMMA PeersStep ==
    TunnelInv /\ [TunnelNext]_tunnelVars => PeersFit'
<1> SUFFICES ASSUME TunnelInv, [TunnelNext]_tunnelVars
             PROVE  PeersFit'
  OBVIOUS
<1>0. PeersFit /\ TunnelShape /\ HolderFits /\ tunnelOp \in TunnelHolders
  BY DEF TunnelInv, TunnelShape
<1> DEFINE PeersAsBefore == UNCHANGED <<peers, vpnUsers, vpnSecrets, peerGroups>> /\ ("revived" \in vpnExcuse => "revived" \in vpnExcuse')
           Other == tunnelOp'.at \notin {"upsert", "dropSecret"}
<1>1. CASE UNCHANGED tunnelVars
  BY <1>0, <1>1, PeersStay DEF tunnelVars
<1>2. ASSUME NEW c \in TunnelCalls, Asks(c) \/ Integrates(c)
      PROVE  PeersFit'
  <2>1. /\ UNCHANGED <<tunnelRow, peers, vpnUsers, vpnSecrets, peerGroups, tunnelOp>> /\ vpnExcuse \subseteq vpnExcuse'
        /\ vpnCall[c].at # "holds" /\ \A d \in TunnelCalls : d # c => vpnCall'[d] = vpnCall[d]
    <3>1. CASE Asks(c)
      BY <1>0, <3>1, AsksIs
    <3>2. CASE Integrates(c)
      <4>1. vpnExcuse \subseteq vpnExcuse'
        BY <3>2 DEF Integrates
      <4> QED  BY <1>0, <3>2, <4>1, IntegratesIs
    <3> QED  BY <1>2, <3>1, <3>2
  <2>2. tunnelOp.at = "upsert" => vpnCall'[tunnelOp.by] = vpnCall[tunnelOp.by]
    BY <1>0, <2>1, HolderIs DEF TunnelCaller
  <2> QED  BY <1>0, <2>1, <2>2, PeersStay
<1>3. ASSUME NEW c \in TunnelCalls, LocksTunnel(c)
      PROVE  PeersFit'
  <2>1. PeersAsBefore /\ Other
    BY <1>0, <1>3, LocksIs
  <2> QED  BY <1>0, <2>1, PeersStay
<1>4. ASSUME NEW c \in TunnelCalls, RecordsIntegration(c)
      PROVE  PeersFit'
  <2>1. PeersAsBefore /\ Other
    BY <1>0, <1>4, RecordsIs DEF NoHolder
  <2> QED  BY <1>0, <2>1, PeersStay
<1>5. CASE SavesConfig \/ EnablesUnit \/ RemovesTunnel \/ StopsTunnel \/ StartsTunnel
  <2>1. PeersAsBefore
    <3>1. CASE SavesConfig \/ EnablesUnit \/ RemovesTunnel
      BY <3>1 DEF SavesConfig, EnablesUnit, RemovesTunnel
    <3>2. CASE StopsTunnel \/ StartsTunnel
      BY <3>2 DEF StopsTunnel, StartsTunnel
    <3> QED  BY <1>5, <3>1, <3>2
  <2>2. tunnelOp'.at \in {"list", "start", "record", "remove"}
    <3>1. PICK at \in {"list", "start", "record", "remove"} : tunnelOp' = [tunnelOp EXCEPT !.at = at]
      BY <1>5 DEF SavesConfig, EnablesUnit, RemovesTunnel, StopsTunnel, StartsTunnel, TunnelGoes
    <3>2. at \in TunnelStages
      BY DEF TunnelStages
    <3> QED  BY <1>0, <3>1, <3>2, StageIs
  <2> QED  BY <1>0, <2>1, <2>2, PeersStay
<1>6. CASE ListsPeers
  <2>1. PeersAsBefore
    BY <1>6 DEF ListsPeers
  <2>2. PICK at \in {"groups", "stop"} :
          tunnelOp' = [tunnelOp EXCEPT !.at = at, !.seen = [net |-> tunnelRow.net, peers |-> PeerList]]
    BY <1>6 DEF ListsPeers
  <2>3. tunnelOp'.at = at
    <3> DEFINE seen == [net |-> tunnelRow.net, peers |-> PeerList]
    <3>1. seen \in TunnelTables /\ at \in TunnelStages /\ tunnelOp' = [tunnelOp EXCEPT !.at = at, !.seen = seen]
      BY <1>0, <2>2, PeerListIs DEF TunnelStages
    <3> HIDE DEF seen
    <3> QED  BY <1>0, <3>1, SeenStageIs
  <2> QED  BY <1>0, <2>1, <2>3, PeersStay
<1>7. CASE EnsuresGroups
  <2>1. /\ UNCHANGED <<peers, vpnUsers, vpnSecrets>> /\ peerGroups' = peerGroups \cup {p.user : p \in tunnelOp.seen.peers}
        /\ vpnExcuse' = IF \E p \in tunnelOp.seen.peers : ~IsPeer(p.user) THEN vpnExcuse \cup {"revived"} ELSE vpnExcuse
    BY <1>7 DEF EnsuresGroups
  <2>2. tunnelOp'.at = "write"
    BY <1>0, <1>7, StageIs DEF EnsuresGroups, TunnelGoes, TunnelStages
  <2>3. PeerUsers' = PeerUsers /\ (\A v : IsPeer(v)' <=> IsPeer(v)) /\ peers' = peers
    BY <2>1 DEF PeerUsers, IsPeer
  <2>4. /\ \A v \in PeerUsers : PeerIsWhole(v)
        /\ \A v, w \in PeerUsers : v # w => PeersDiffer(v, w)
        /\ GroupsHavePeers
    BY <1>0, PeersFitIs
  <2>5. (\A v \in PeerUsers : PeerIsWhole(v))'
    BY <2>1, <2>3, <2>4 DEF PeerIsWhole
  <2>6. (\A v, w \in PeerUsers : v # w => PeersDiffer(v, w))'
    BY <2>3, <2>4 DEF PeersDiffer
  <2>7. GroupsHavePeers'
    BY <2>1, <2>3, <2>4 DEF GroupsHavePeers
  <2> QED  BY <2>2, <2>5, <2>6, <2>7 DEF PeersFit, PeersAreWhole, PeerIsWhole, PeersDiffer, GroupsHavePeers
<1>8. CASE WritesTunnel
  <2>1. PeersAsBefore
    BY <1>8 DEF WritesTunnel
  <2>2. tunnelOp'.at \in {"enable", "record"}
    <3>1. CASE Renders(tunnelOp.seen)
      <4>1. PICK ch \in BOOLEAN : tunnelOp' = [tunnelOp EXCEPT !.at = "enable", !.seen = NoTunnel, !.changed = ch]
        BY <1>8, <3>1 DEF WritesTunnel
      <4> QED  BY <1>0, <4>1, WrittenStageIs
    <3>2. CASE ~ Renders(tunnelOp.seen)
      BY <1>0, <1>8, <3>2, FailedStageIs DEF WritesTunnel
    <3> QED  BY <3>1, <3>2
  <2> QED  BY <1>0, <2>1, <2>2, PeersStay
<1>9. CASE ApplyFails
  <2>1. PeersAsBefore
    BY <1>9 DEF ApplyFails
  <2>2. tunnelOp'.at = "record"
    BY <1>0, <1>9, FailedStageIs DEF ApplyFails
  <2> QED  BY <1>0, <2>1, <2>2, PeersStay
<1>10. CASE RecordsApply
  <2>1. PeersAsBefore /\ Other
    BY <1>10 DEF RecordsApply, TunnelLeaves, NoHolder
  <2> QED  BY <1>0, <2>1, PeersStay
<1>11. CASE TunnelRestarts
  <2>1. PeersAsBefore /\ Other
    BY <1>11 DEF TunnelRestarts, NoHolder
  <2> QED  BY <1>0, <2>1, PeersStay
<1>12. CASE DropsSecret
  <2>1. UNCHANGED <<peers, vpnUsers, peerGroups, vpnExcuse>> /\ vpnSecrets' \in {vpnSecrets, vpnSecrets \ {tunnelOp.key}}
        /\ tunnelOp.at = "dropSecret"
    BY <1>12 DEF DropsSecret, TunnelAt
  <2>2. tunnelOp'.at = "list"
    BY <1>0, <1>12, StageIs DEF DropsSecret, TunnelGoes, TunnelStages
  <2> QED  BY <2>1, <2>2, SecretGoesStep
<1> QED
  BY <1>1, <1>2, <1>3, <1>4, <1>5, <1>6, <1>7, <1>8, <1>9, <1>10, <1>11, <1>12,
     PreparesPeerStep, WritesPeerStep, DeletesPeerStep, UserGoesStep DEF TunnelNext, HolderStep

-----------------------------------------------------------------------------
(* The tunnel: what runs is what was asked for *)

LEMMA WantedStays ==
    ASSUME UNCHANGED peers, tunnelRow'.on = tunnelRow.on, tunnelRow'.net = tunnelRow.net
    PROVE  Wanted' = Wanted /\ PeerUsers' = PeerUsers
<1>1. peers' = peers /\ PeerUsers' = PeerUsers
  BY DEF PeerUsers, IsPeer
<1>2. PeerList' = PeerList
  BY <1>1 DEF PeerList
<1> QED  BY <1>1, <1>2 DEF Wanted, NoTunnel

\* The stages at which something was listed, and is applied.
Applying == {"groups", "write", "enable", "start", "stop", "remove", "record"}

LEMMA StageStays ==
    ASSUME TunnelInv, UNCHANGED <<tunnelOp, tunnelFile, tunnelRun>>, tunnelRow'.on = tunnelRow.on,
           vpnExcuse \subseteq vpnExcuse', "deleted" \notin vpnExcuse' => Wanted' = Wanted
    PROVE  StageFits' /\ RunFits'
<1>1. StageFits /\ RunFits
  BY DEF TunnelInv
<1>2. tunnelOp' = tunnelOp /\ tunnelFile' = tunnelFile /\ tunnelRun' = tunnelRun
  OBVIOUS
<1>3. StageFits'
  BY <1>1, <1>2 DEF StageFits, NoTunnel
<1>4. RunFits'
  BY <1>1, <1>2 DEF RunFits, NoTunnel
<1> QED  BY <1>3, <1>4

\* Before an apply, and after it.
LEMMA StageOutside ==
    ASSUME TunnelInv, tunnelOp.at \notin {"enable", "start"}, tunnelOp'.at \notin Applying,
           UNCHANGED <<tunnelFile, tunnelRun>>, vpnExcuse \subseteq vpnExcuse' \cup {"deleted"}
    PROVE  StageFits' /\ RunFits'
<1>1. StageFits'
  BY DEF StageFits, Applying
<1>2. RunFits'
  BY DEF RunFits, NoTunnel, TunnelInv
<1> QED  BY <1>1, <1>2

LEMMA StageStep ==
    TunnelInv /\ [TunnelNext]_tunnelVars => StageFits' /\ RunFits'
<1> SUFFICES ASSUME TunnelInv, [TunnelNext]_tunnelVars
             PROVE  StageFits' /\ RunFits'
  OBVIOUS
<1>0. TunnelShape /\ HolderFits /\ PeersFit /\ StageFits /\ RunFits /\ tunnelOp \in TunnelHolders
  BY DEF TunnelInv, TunnelShape
<1>1. CASE UNCHANGED tunnelVars
  <2>1. UNCHANGED <<tunnelOp, tunnelFile, tunnelRun, peers, tunnelRow, vpnExcuse>>
    BY <1>1 DEF tunnelVars
  <2>2. Wanted' = Wanted
    BY <2>1, WantedStays
  <2> QED  BY <2>1, <2>2, StageStays
<1>2. ASSUME NEW c \in TunnelCalls, Asks(c) \/ Integrates(c)
      PROVE  StageFits' /\ RunFits'
  <2>1. UNCHANGED <<tunnelOp, tunnelFile, tunnelRun, peers, tunnelRow>> /\ vpnExcuse \subseteq vpnExcuse'
    BY <1>2 DEF Asks, Integrates
  <2>2. Wanted' = Wanted
    BY <2>1, WantedStays
  <2> QED  BY <2>1, <2>2, StageStays
<1>3. ASSUME NEW c \in TunnelCalls, LocksTunnel(c)
      PROVE  StageFits' /\ RunFits'
  BY <1>0, <1>3, LocksIs, StageOutside DEF NoHolder, Applying
<1>4. ASSUME NEW c \in TunnelCalls, RecordsIntegration(c)
      PROVE  StageFits' /\ RunFits'
  BY <1>0, <1>4, RecordsIs, StageOutside DEF NoHolder, Applying
<1>5. ASSUME NEW u \in VpnUsers, UserIsDeleted(u)
      PROVE  StageFits' /\ RunFits'
  <2>1. /\ UNCHANGED <<tunnelOp, tunnelFile, tunnelRun, tunnelRow>> /\ peers' = [peers EXCEPT ![u] = NoPeer]
        /\ vpnExcuse \subseteq vpnExcuse' /\ (IsPeer(u) => "deleted" \in vpnExcuse')
    BY <1>5 DEF UserIsDeleted
  <2>2. ~ IsPeer(u) => peers' = peers
    BY <1>0, <2>1, PeerGoes DEF TunnelShape
  <2>3. "deleted" \notin vpnExcuse' => Wanted' = Wanted
    BY <2>1, <2>2, WantedStays
  <2> QED  BY <2>1, <2>3, StageStays
<1>6. CASE SavesConfig \/ DropsSecret
  <2>1. UNCHANGED <<tunnelFile, tunnelRun, vpnExcuse>> /\ tunnelOp.at \notin {"enable", "start"} /\ tunnelOp' = [tunnelOp EXCEPT !.at = "list"]
    BY <1>6 DEF SavesConfig, DropsSecret, TunnelAt, TunnelGoes
  <2>2. "list" \in TunnelStages
    BY DEF TunnelStages
  <2>3. tunnelOp'.at = "list"
    BY <1>0, <2>1, <2>2, StageIs
  <2> QED  BY <2>1, <2>3, StageOutside DEF Applying
<1>7. CASE PreparesPeer \/ WritesPeer \/ DeletesPeer
  <2>1. UNCHANGED <<tunnelFile, tunnelRun, vpnExcuse>> /\ tunnelOp.at \in {"enroll", "upsert", "revoke"}
    BY <1>7 DEF PreparesPeer, WritesPeer, DeletesPeer, TunnelAt
  <2>2. tunnelOp'.at \in {"free", "upsert", "dropSecret"}
    <3>1. PICK at \in {"upsert", "dropSecret"}, key \in Nat :
             tunnelOp' = NoHolder \/ tunnelOp' = [tunnelOp EXCEPT !.at = at, !.key = key]
      <4>1. NextKey \in Nat
        BY <1>0, NextKeyIsNew DEF TunnelShape
      <4>2. TunnelCaller.user \in VpnUsers
        BY <1>0, <2>1, HolderIs
      <4>3. peers[TunnelCaller.user].key \in Nat
        BY <1>0, <4>2 DEF TunnelShape, PeerRows
      <4>4. CASE PreparesPeer
        BY <4>1, <4>4 DEF PreparesPeer, TunnelLeaves
      <4>5. CASE WritesPeer
        BY <4>3, <4>5 DEF WritesPeer, TunnelLeaves
      <4>6. CASE DeletesPeer
        BY <4>3, <4>6 DEF DeletesPeer, TunnelLeaves
      <4> QED  BY <1>7, <4>4, <4>5, <4>6
    <3>2. at \in TunnelStages
      BY DEF TunnelStages
    <3>3. CASE tunnelOp' = NoHolder
      BY <3>3 DEF NoHolder
    <3>4. CASE tunnelOp' = [tunnelOp EXCEPT !.at = at, !.key = key]
      <4>1. tunnelOp'.at = at
        BY <1>0, <3>2, <3>4, KeyStageIs
      <4> QED  BY <4>1
    <3> QED  BY <3>1, <3>3, <3>4
  <2> QED  BY <2>1, <2>2, StageOutside DEF Applying
<1>8. CASE RecordsApply
  <2>1. UNCHANGED <<tunnelFile, tunnelRun>> /\ tunnelOp.at = "record" /\ tunnelOp' = NoHolder /\ vpnExcuse \subseteq vpnExcuse'
    BY <1>8 DEF RecordsApply, TunnelAt, TunnelLeaves
  <2> QED  BY <2>1, StageOutside DEF NoHolder, Applying
<1>9. CASE ListsPeers
  <2> DEFINE seen == [net |-> tunnelRow.net, peers |-> PeerList]
             at == IF tunnelRow.on THEN "groups" ELSE "stop"
  <2>1. /\ tunnelOp.at = "list" /\ UNCHANGED <<tunnelRow, peers, tunnelFile, tunnelRun>> /\ vpnExcuse' = vpnExcuse \ {"deleted"}
        /\ tunnelOp' = [tunnelOp EXCEPT !.at = at, !.seen = seen]
    BY <1>9 DEF ListsPeers, TunnelAt
  <2>2. seen \in TunnelTables /\ at \in TunnelStages
    BY <1>0, PeerListIs DEF TunnelStages
  <2>3. Wanted' = Wanted /\ (tunnelRow.on => Wanted = seen)
    BY <2>1, WantedStays DEF Wanted
  <2> HIDE DEF seen, at
  <2>4. tunnelOp'.at = at /\ tunnelOp'.seen = seen
    BY <1>0, <2>1, <2>2, SeenStageIs
  <2>5. StageFits'
    BY <2>1, <2>3, <2>4 DEF StageFits, at
  <2>6. RunFits'
    BY <1>0, <2>1 DEF RunFits, NoTunnel
  <2> QED  BY <2>5, <2>6
<1>10. CASE EnsuresGroups
  <2>1. /\ tunnelOp.at = "groups" /\ UNCHANGED <<tunnelRow, peers, tunnelFile, tunnelRun>> /\ vpnExcuse \subseteq vpnExcuse'
        /\ tunnelOp' = [tunnelOp EXCEPT !.at = "write"]
    BY <1>10 DEF EnsuresGroups, TunnelAt, TunnelGoes
  <2>2. tunnelOp'.at = "write" /\ tunnelOp'.seen = tunnelOp.seen
    BY <1>0, <2>1, StageIs DEF TunnelStages
  <2>3. Wanted' = Wanted
    BY <2>1, WantedStays
  <2>4. StageFits'
    BY <1>0, <2>1, <2>2, <2>3 DEF StageFits
  <2>5. RunFits'
    BY <1>0, <2>1 DEF RunFits, NoTunnel
  <2> QED  BY <2>4, <2>5
<1>11. CASE WritesTunnel
  <2>1. tunnelOp.at = "write" /\ UNCHANGED <<tunnelRow, peers, tunnelRun, vpnExcuse>>
    BY <1>11 DEF WritesTunnel, TunnelAt
  <2>2. Wanted' = Wanted
    BY <2>1, WantedStays
  <2>3. CASE Renders(tunnelOp.seen)
    <3> DEFINE ch == tunnelFile # tunnelOp.seen
    <3>1. tunnelFile' = tunnelOp.seen /\ tunnelOp' = [tunnelOp EXCEPT !.at = "enable", !.seen = NoTunnel, !.changed = ch]
      BY <1>11, <2>3 DEF WritesTunnel
    <3>2. ch \in BOOLEAN
      OBVIOUS
    <3> HIDE DEF ch
    <3>3. tunnelOp'.at = "enable" /\ tunnelOp'.changed = ch
      BY <1>0, <3>1, <3>2, WrittenStageIs
    <3>4. StageFits'
      BY <1>0, <2>1, <2>2, <3>1, <3>3 DEF StageFits
    <3>5. RunFits'
      BY <1>0, <2>1, <3>1, <3>3 DEF RunFits, NoTunnel, ch
    <3> QED  BY <3>4, <3>5
  <2>4. CASE ~ Renders(tunnelOp.seen)
    <3>1. UNCHANGED tunnelFile /\ tunnelOp'.at = "record" /\ tunnelOp'.ok = FALSE
      BY <1>0, <1>11, <2>4, FailedStageIs DEF WritesTunnel
    <3>2. StageFits'
      BY <3>1 DEF StageFits
    <3>3. RunFits'
      BY <1>0, <2>1, <3>1 DEF RunFits, NoTunnel
    <3> QED  BY <3>2, <3>3
  <2> QED  BY <2>3, <2>4
<1>12. CASE EnablesUnit
  <2>1. /\ tunnelOp.at = "enable" /\ UNCHANGED <<tunnelRow, peers, tunnelFile, tunnelRun, vpnExcuse>>
        /\ tunnelOp' = [tunnelOp EXCEPT !.at = "start"]
    BY <1>12 DEF EnablesUnit, TunnelAt, TunnelGoes
  <2>2. tunnelOp'.at = "start" /\ tunnelOp'.changed = tunnelOp.changed
    BY <1>0, <2>1, StageIs DEF TunnelStages
  <2>3. Wanted' = Wanted
    BY <2>1, WantedStays
  <2>4. StageFits'
    BY <1>0, <2>1, <2>2, <2>3 DEF StageFits
  <2>5. RunFits'
    BY <1>0, <2>1, <2>2 DEF RunFits, NoTunnel
  <2> QED  BY <2>4, <2>5
<1>13. CASE StartsTunnel
  <2>1. /\ tunnelOp.at = "start" /\ UNCHANGED <<tunnelRow, peers, tunnelFile>>
        /\ tunnelRun' = (IF RestartsUnit THEN tunnelFile ELSE tunnelRun)
        /\ vpnExcuse' = (IF RestartsUnit THEN vpnExcuse \ {"stranded"} ELSE vpnExcuse)
        /\ tunnelOp' = [tunnelOp EXCEPT !.at = "record"]
    BY <1>13 DEF StartsTunnel, TunnelAt
  <2>2. tunnelOp'.at = "record"
    BY <1>0, <2>1, StageIs DEF TunnelStages
  <2>3. Wanted' = Wanted
    BY <2>1, WantedStays
  <2>4. "stranded" \notin vpnExcuse' => tunnelRun' = tunnelFile
    BY <1>0, <2>1 DEF RunFits, RestartsUnit
  <2>5. StageFits'
    BY <1>0, <2>1, <2>2, <2>3, <2>4 DEF StageFits
  <2>6. RunFits'
    BY <2>1, <2>4 DEF RunFits
  <2> QED  BY <2>5, <2>6
<1>14. CASE StopsTunnel
  <2>1. /\ tunnelOp.at = "stop" /\ UNCHANGED tunnelRow /\ tunnelRun' = NoTunnel /\ tunnelOp' = [tunnelOp EXCEPT !.at = "remove"]
    BY <1>14 DEF StopsTunnel, TunnelAt, TunnelGoes
  <2>2. tunnelOp'.at = "remove"
    BY <1>0, <2>1, StageIs DEF TunnelStages
  <2> QED  BY <1>0, <2>1, <2>2 DEF StageFits, RunFits, NoTunnel
<1>15. CASE RemovesTunnel
  <2>1. /\ tunnelOp.at = "remove" /\ UNCHANGED <<tunnelRow, tunnelRun>> /\ tunnelOp' = [tunnelOp EXCEPT !.at = "record"]
    BY <1>15 DEF RemovesTunnel, TunnelAt, TunnelGoes
  <2>2. tunnelOp'.at = "record"
    BY <1>0, <2>1, StageIs DEF TunnelStages
  <2>3. tunnelRun = NoTunnel /\ ~ tunnelRow.on
    BY <1>0, <2>1 DEF StageFits
  <2>4. StageFits'
    BY <2>1, <2>2, <2>3 DEF StageFits, Wanted, NoTunnel
  <2>5. RunFits'
    BY <2>1, <2>3 DEF RunFits, NoTunnel
  <2> QED  BY <2>4, <2>5
<1>16. CASE ApplyFails
  <2>1. /\ UNCHANGED tunnelFile /\ tunnelRun' \in {tunnelRun, NoTunnel}
        /\ vpnExcuse' = IF Strands THEN vpnExcuse \cup {"stranded"}
                        ELSE IF tunnelRun' = NoTunnel THEN vpnExcuse \ {"stranded"} ELSE vpnExcuse
    BY <1>16 DEF ApplyFails
  <2>2. tunnelOp'.at = "record" /\ tunnelOp'.ok = FALSE
    BY <1>0, <1>16, FailedStageIs DEF ApplyFails
  <2>3. StageFits'
    BY <2>2 DEF StageFits
  <2>4. RunFits'
    BY <1>0, <2>1 DEF RunFits, Strands, NoTunnel
  <2> QED  BY <2>3, <2>4
<1>17. CASE TunnelRestarts
  <2>1. UNCHANGED tunnelFile /\ tunnelOp'.at = "free"
    BY <1>17 DEF TunnelRestarts, NoHolder
  <2>2. StageFits'
    BY <2>1 DEF StageFits
  <2>3. CASE UNCHANGED tunnelRun /\ vpnExcuse' = IF Strands THEN vpnExcuse \cup {"stranded"} ELSE vpnExcuse
    <3>1. RunFits'
      BY <1>0, <2>1, <2>3 DEF RunFits, Strands, NoTunnel
    <3> QED  BY <2>2, <3>1
  <2>4. CASE tunnelRun' = IF tunnelUnit THEN tunnelFile ELSE NoTunnel
    <3>1. RunFits'
      BY <2>1, <2>4 DEF RunFits, NoTunnel
    <3> QED  BY <2>2, <3>1
  <2> QED  BY <1>17, <2>3, <2>4 DEF TunnelRestarts
<1> QED
  BY <1>1, <1>2, <1>3, <1>4, <1>5, <1>6, <1>7, <1>8, <1>9, <1>10, <1>11, <1>12, <1>13, <1>14, <1>15, <1>16, <1>17
  DEF TunnelNext, HolderStep

\* Between calls, or at one that has changed nothing yet.
BootWaits == \E c \in TunnelCalls : vpnCall[c].ask = "boot" /\ vpnCall[c].at = "waits"
Settled == tunnelRow.ok /\ "unsaid" \notin vpnExcuse /\ "deleted" \notin vpnExcuse /\ tunnelOp.at \notin TunnelPast /\ ~ BootWaits
NothingOwed == \A c \in TunnelCalls : vpnCall[c].at \notin {"integrates", "records"}
RunsWanted == "stranded" \notin vpnExcuse => tunnelRun = Wanted
IsProjected == projected = [open |-> tunnelRow.on, groups |-> PeerUsers]

LEMMA AppliedIs ==
    AppliedFits <=> (Settled => RunsWanted /\ ("revived" \notin vpnExcuse /\ NothingOwed => IsProjected))
BY DEF AppliedFits, Settled, BootWaits, NothingOwed, RunsWanted, IsProjected

\* A row that is not settled, or as settled as it was.
LEMMA NotSettled ==
    ASSUME ~ Settled'
    PROVE  AppliedFits'
BY DEF AppliedFits, Settled, BootWaits

LEMMA AsSettled ==
    ASSUME TunnelInv, Settled' => Settled, UNCHANGED <<tunnelRow, tunnelRun, projected, vpnExcuse>>,
           Settled => Wanted' = Wanted /\ PeerUsers' = PeerUsers, NothingOwed' => NothingOwed
    PROVE  AppliedFits'
<1>1. Settled => RunsWanted /\ ("revived" \notin vpnExcuse /\ NothingOwed => IsProjected)
  BY AppliedIs DEF TunnelInv
<1>2. Settled' => RunsWanted' /\ ("revived" \notin vpnExcuse' /\ NothingOwed' => IsProjected')
  BY <1>1 DEF RunsWanted, IsProjected
<1> QED  BY <1>2 DEF AppliedFits, Settled, BootWaits, NothingOwed, RunsWanted, IsProjected

\* The holder lets go of the mutex and nothing was changed, or it is left to
\* the integrations.
LEMMA LeavesSettled ==
    ASSUME TunnelInv, tunnelOp.at # "free", tunnelOp.at \notin TunnelPast, NEW at \in {"idle", "integrates"}, TunnelLeaves(at),
           UNCHANGED <<tunnelRow, peers, tunnelRun, projected, vpnExcuse>>
    PROVE  AppliedFits'
<1>1. /\ \A c \in TunnelCalls : c # tunnelOp.by => vpnCall'[c] = vpnCall[c]
      /\ tunnelOp.by \in TunnelCalls /\ vpnCall[tunnelOp.by].at = "holds"
  BY LeavesIs, HolderIs DEF TunnelInv, TunnelCaller
<1>2. NothingOwed' => NothingOwed
  BY <1>1 DEF NothingOwed
<1>3. ~ BootWaits' => ~ BootWaits
  BY <1>1 DEF BootWaits
<1>4. Settled' => Settled
  BY <1>3 DEF Settled
<1>5. Wanted' = Wanted /\ PeerUsers' = PeerUsers
  BY WantedStays
<1> QED  BY <1>2, <1>4, <1>5, AsSettled

LEMMA AppliedStep ==
    TunnelInv /\ [TunnelNext]_tunnelVars => AppliedFits'
<1> SUFFICES ASSUME TunnelInv, [TunnelNext]_tunnelVars
             PROVE  AppliedFits'
  OBVIOUS
<1>0. TunnelShape /\ HolderFits /\ PeersFit /\ StageFits /\ tunnelOp \in TunnelHolders
  BY DEF TunnelInv, TunnelShape
<1>1. CASE UNCHANGED tunnelVars
  <2>1. UNCHANGED <<tunnelRow, peers, tunnelRun, projected, vpnExcuse, vpnCall, tunnelOp>>
    BY <1>1 DEF tunnelVars
  <2>2. Wanted' = Wanted /\ PeerUsers' = PeerUsers
    BY <2>1, WantedStays
  <2>3. (Settled' => Settled) /\ (NothingOwed' => NothingOwed)
    BY <2>1 DEF Settled, BootWaits, NothingOwed
  <2> QED  BY <2>1, <2>2, <2>3, AsSettled
<1>2. ASSUME NEW c \in TunnelCalls, Asks(c)
      PROVE  AppliedFits'
  <2>1. /\ UNCHANGED <<tunnelRow, peers, tunnelRun, projected, tunnelOp, vpnExcuse>>
        /\ vpnCall[c].at = "idle" /\ \A d \in TunnelCalls : d # c => vpnCall'[d] = vpnCall[d]
    BY <1>0, <1>2, AsksIs
  <2>2. (Settled' => Settled) /\ (NothingOwed' => NothingOwed)
    BY <2>1 DEF Settled, BootWaits, NothingOwed
  <2>3. Wanted' = Wanted /\ PeerUsers' = PeerUsers
    BY <2>1, WantedStays
  <2> QED  BY <2>1, <2>2, <2>3, AsSettled
<1>3. ASSUME NEW c \in TunnelCalls, LocksTunnel(c)
      PROVE  AppliedFits'
  <2>1. /\ UNCHANGED <<tunnelRow, peers, tunnelRun, projected, vpnExcuse>>
        /\ tunnelOp = NoHolder /\ vpnCall[c].at = "waits"
        /\ tunnelOp'.at = (IF vpnCall[c].ask = "boot" THEN "list" ELSE vpnCall[c].ask)
        /\ \A d \in TunnelCalls : d # c => vpnCall'[d] = vpnCall[d]
    BY <1>0, <1>3, LocksIs
  <2>2. CASE vpnCall[c].ask = "boot"
    <3>1. ~ Settled'
      BY <2>1, <2>2 DEF Settled, TunnelPast
    <3> QED  BY <3>1, NotSettled
  <2>3. CASE vpnCall[c].ask # "boot"
    <3>1. ~ BootWaits' => ~ BootWaits
      BY <2>1, <2>3 DEF BootWaits
    <3>2. tunnelOp.at \notin TunnelPast
      BY <2>1 DEF NoHolder, TunnelPast
    <3>3. (Settled' => Settled) /\ (NothingOwed' => NothingOwed)
      BY <2>1, <3>1, <3>2 DEF Settled, NothingOwed
    <3>4. Wanted' = Wanted /\ PeerUsers' = PeerUsers
      BY <2>1, WantedStays
    <3> QED  BY <2>1, <3>3, <3>4, AsSettled
  <2> QED  BY <2>2, <2>3
<1>4. ASSUME NEW c \in TunnelCalls, Integrates(c)
      PROVE  AppliedFits'
  <2>1. /\ UNCHANGED <<tunnelRow, peers, peerGroups, tunnelRun, tunnelOp>> /\ vpnExcuse \subseteq vpnExcuse'
        /\ vpnCall[c].at = "integrates" /\ \A d \in TunnelCalls : d # c => vpnCall'[d] = vpnCall[d]
    <3>1. vpnExcuse \subseteq vpnExcuse'
      BY <1>4 DEF Integrates
    <3> QED  BY <1>0, <1>4, <3>1, IntegratesIs
  <2>2. Wanted' = Wanted /\ PeerUsers' = PeerUsers
    BY <2>1, WantedStays
  <2>3. ~ BootWaits' => ~ BootWaits
    BY <2>1 DEF BootWaits
  <2>4. Settled' => Settled
    BY <2>1, <2>3 DEF Settled
  <2>5. Settled' => RunsWanted'
    <3>1. Settled => RunsWanted
      BY AppliedIs DEF TunnelInv
    <3> QED  BY <2>1, <2>2, <2>4, <3>1 DEF RunsWanted
  <2>6. CASE projected' = [open |-> tunnelRow.on, groups |-> peerGroups] /\ UNCHANGED vpnExcuse
    <3>1. "revived" \notin vpnExcuse => PeerUsers = peerGroups
      <4>1. ASSUME "revived" \notin vpnExcuse
            PROVE  PeerUsers = peerGroups
        <5>1. \A u \in PeerUsers : u \in peerGroups
          BY <1>0, PeersFitIs DEF PeerIsWhole
        <5>2. \A u \in peerGroups : IsPeer(u) /\ u \in VpnUsers
          BY <1>0, <4>1, PeersFitIs DEF GroupsHavePeers, TunnelShape
        <5> QED  BY <5>1, <5>2 DEF PeerUsers
      <4> QED  BY <4>1
    <3>2. "revived" \notin vpnExcuse' => IsProjected'
      BY <2>1, <2>2, <2>6, <3>1 DEF IsProjected
    <3> QED  BY <2>5, <3>2 DEF AppliedFits, Settled, BootWaits, NothingOwed, RunsWanted, IsProjected
  <2>7. CASE vpnExcuse' = vpnExcuse \cup {"unsaid"}
    <3>1. ~ Settled'
      BY <2>7 DEF Settled
    <3> QED  BY <3>1, NotSettled
  <2>8. CASE vpnCall' = [vpnCall EXCEPT ![c].at = "records"]
    <3>1. vpnCall \in [TunnelCalls -> VpnAsks] /\ vpnCall[c] \in VpnAsks
      BY <1>0 DEF TunnelShape
    <3>2. PICK a \in VpnAsks : a = [vpnCall[c] EXCEPT !.at = "records"] /\ a.at = "records"
      BY <3>1, AskGoes DEF VpnStages
    <3>3. vpnCall'[c].at = "records"
      BY <2>8, <3>1, <3>2
    <3>4. ~ NothingOwed'
      BY <3>3 DEF NothingOwed
    <3> QED  BY <2>5, <3>4 DEF AppliedFits, Settled, BootWaits, NothingOwed, RunsWanted, IsProjected
  <2> QED  BY <1>4, <2>6, <2>7, <2>8 DEF Integrates
<1>5. ASSUME NEW c \in TunnelCalls, RecordsIntegration(c)
      PROVE  AppliedFits'
  <2>1. tunnelRow' = [tunnelRow EXCEPT !.ok = FALSE]
    BY <1>0, <1>5, RecordsIs
  <2>2. tunnelRow'.ok = FALSE
    BY <1>0, <2>1, RowIs DEF TunnelShape
  <2>3. ~ Settled'
    BY <2>2 DEF Settled
  <2> QED  BY <2>3, NotSettled
<1>6. ASSUME NEW u \in VpnUsers, UserIsDeleted(u)
      PROVE  AppliedFits'
  <2>1. /\ UNCHANGED <<tunnelRow, tunnelRun, projected, vpnCall, tunnelOp>> /\ peers' = [peers EXCEPT ![u] = NoPeer]
        /\ vpnExcuse' = (IF IsPeer(u) THEN vpnExcuse \cup {"deleted"} ELSE vpnExcuse)
    BY <1>6 DEF UserIsDeleted
  <2>2. CASE IsPeer(u)
    <3>1. ~ Settled'
      BY <2>1, <2>2 DEF Settled
    <3> QED  BY <3>1, NotSettled
  <2>3. CASE ~ IsPeer(u)
    <3>1. UNCHANGED peers
      BY <1>0, <2>1, <2>3, PeerGoes DEF TunnelShape
    <3>2. Wanted' = Wanted /\ PeerUsers' = PeerUsers
      BY <2>1, <3>1, WantedStays
    <3>3. (Settled' => Settled) /\ (NothingOwed' => NothingOwed)
      BY <2>1, <2>3 DEF Settled, BootWaits, NothingOwed
    <3> QED  BY <2>1, <2>3, <3>2, <3>3, AsSettled
  <2> QED  BY <2>2, <2>3
<1>7. CASE TunnelRestarts
  <2>1. vpnCall'[1].at = "waits" /\ vpnCall'[1].ask = "boot" /\ 1 \in TunnelCalls
    BY <1>0, <1>7, BootsIs, TunnelAssumption
  <2>2. ~ Settled'
    BY <2>1 DEF Settled, BootWaits
  <2> QED  BY <2>2, NotSettled
<1>8. CASE HolderStep
  <2>1. tunnelOp.at # "free" /\ (HolderStays \/ HolderLeaves)
    BY <1>0, <1>8, HolderMoves
  <2>2. CASE HolderStays /\ tunnelOp'.at \in TunnelPast
    <3>1. ~ Settled'
      BY <2>2 DEF Settled
    <3> QED  BY <3>1, NotSettled
  <2>3. CASE PreparesPeer
    <3>1. /\ UNCHANGED <<tunnelRow, peers, tunnelRun, projected, vpnExcuse>> /\ tunnelOp.at = "enroll"
          /\ UNCHANGED vpnCall \/ TunnelLeaves("idle")
      BY <2>3 DEF PreparesPeer, TunnelAt
    <3>2. tunnelOp.at \notin TunnelPast
      BY <3>1 DEF TunnelPast
    <3>3. CASE UNCHANGED vpnCall
      <4>1. Wanted' = Wanted /\ PeerUsers' = PeerUsers
        BY <3>1, WantedStays
      <4>2. (Settled' => Settled) /\ (NothingOwed' => NothingOwed)
        BY <3>1, <3>2, <3>3 DEF Settled, BootWaits, NothingOwed
      <4> QED  BY <3>1, <4>1, <4>2, AsSettled
    <3>4. CASE TunnelLeaves("idle")
      BY <2>1, <3>1, <3>2, <3>4, LeavesSettled
    <3> QED  BY <3>1, <3>3, <3>4
  <2>4. CASE WritesPeer /\ ~ HolderStays
    <3>1. tunnelOp.at = "upsert" /\ UNCHANGED <<tunnelRow, tunnelRun, projected, vpnExcuse>>
      BY <2>4 DEF WritesPeer, TunnelAt
    <3>2. TunnelLeaves("idle") /\ UNCHANGED peers
      <4>1. CASE TunnelLeaves("idle") /\ UNCHANGED peers
        BY <4>1
      <4>2. CASE tunnelOp' = [tunnelOp EXCEPT !.at = "dropSecret",
                                              !.key = IF IsPeer(TunnelCaller.user) THEN peers[TunnelCaller.user].key ELSE 0]
                 /\ UNCHANGED vpnCall
        <5> DEFINE k == IF IsPeer(TunnelCaller.user) THEN peers[TunnelCaller.user].key ELSE 0
        <5>1. k \in Nat
          BY <1>0, <2>1, <3>1, HolderIs DEF TunnelShape, PeerRows
        <5>2. tunnelOp' = [tunnelOp EXCEPT !.at = "dropSecret", !.key = k] /\ UNCHANGED vpnCall
          BY <4>2
        <5>3. "dropSecret" \in TunnelStages /\ "dropSecret" \in TunnelPast
          BY DEF TunnelStages, TunnelPast
        <5> HIDE DEF k
        <5>4. HolderStays
          BY <1>0, <5>1, <5>2, <5>3, KeyStageIs DEF HolderStays
        <5> QED  BY <2>4, <5>4
      <4> QED  BY <2>4, <4>1, <4>2 DEF WritesPeer
    <3>3. tunnelOp.at \notin TunnelPast
      BY <3>1 DEF TunnelPast
    <3> QED  BY <2>1, <3>1, <3>2, <3>3, LeavesSettled
  <2>5. CASE DeletesPeer /\ ~ HolderStays
    <3>1. tunnelOp.at = "revoke" /\ UNCHANGED <<tunnelRow, tunnelRun, projected, vpnExcuse>>
      BY <2>5 DEF DeletesPeer, TunnelAt
    <3>2. TunnelLeaves("integrates") /\ UNCHANGED peers
      <4>1. CASE ~ IsPeer(TunnelCaller.user)
        BY <2>5, <4>1 DEF DeletesPeer
      <4>2. CASE IsPeer(TunnelCaller.user)
        <5> DEFINE k == peers[TunnelCaller.user].key
        <5>1. k \in Nat
          BY <1>0, <2>1, <3>1, HolderIs DEF TunnelShape, PeerRows
        <5>2. tunnelOp' = [tunnelOp EXCEPT !.at = "dropSecret", !.key = k] /\ UNCHANGED vpnCall
          BY <2>5, <4>2 DEF DeletesPeer
        <5>3. "dropSecret" \in TunnelStages /\ "dropSecret" \in TunnelPast
          BY DEF TunnelStages, TunnelPast
        <5> HIDE DEF k
        <5>4. HolderStays
          BY <1>0, <5>1, <5>2, <5>3, KeyStageIs DEF HolderStays
        <5> QED  BY <2>5, <5>4
      <4> QED  BY <4>1, <4>2
    <3>3. tunnelOp.at \notin TunnelPast
      BY <3>1 DEF TunnelPast
    <3> QED  BY <2>1, <3>1, <3>2, <3>3, LeavesSettled
  <2>6. CASE RecordsApply
    <3>1. tunnelOp.at = "record" /\ UNCHANGED <<peers, tunnelRun>> /\ vpnExcuse \subseteq vpnExcuse'
      BY <2>6 DEF RecordsApply, TunnelAt
    <3>2. CASE vpnExcuse' = vpnExcuse \cup {"unsaid"}
      <4>1. ~ Settled'
        BY <3>2 DEF Settled
      <4> QED  BY <4>1, NotSettled
    <3>3. CASE tunnelRow' = [tunnelRow EXCEPT !.ok = tunnelOp.ok] /\ UNCHANGED vpnExcuse
      <4>1. tunnelOp.ok \in BOOLEAN
        BY <1>0 DEF TunnelHolders
      <4>2. tunnelRow'.on = tunnelRow.on /\ tunnelRow'.net = tunnelRow.net /\ tunnelRow'.ok = tunnelOp.ok
        BY <1>0, <3>3, <4>1, RowIs DEF TunnelShape
      <4>3. CASE ~ tunnelOp.ok
        <5>1. ~ Settled'
          BY <4>2, <4>3 DEF Settled
        <5> QED  BY <5>1, NotSettled
      <4>4. CASE tunnelOp.ok
        <5>1. TunnelLeaves("integrates")
          BY <2>6, <4>4 DEF RecordsApply
        <5>2. vpnCall'[tunnelOp.by].at = "integrates" /\ tunnelOp.by \in TunnelCalls
          BY <1>0, <2>1, <5>1, LeavesIs, HolderIs
        <5>3. ~ NothingOwed'
          BY <5>2 DEF NothingOwed
        <5>4. Wanted' = Wanted
          BY <3>1, <4>2, WantedStays
        <5>5. Settled' => RunsWanted'
          BY <1>0, <3>1, <3>3, <4>4, <5>4 DEF StageFits, Settled, RunsWanted
        <5> QED  BY <5>3, <5>5 DEF AppliedFits, Settled, BootWaits, NothingOwed, RunsWanted, IsProjected
      <4> QED  BY <4>3, <4>4
    <3> QED  BY <2>6, <3>2, <3>3 DEF RecordsApply
  <2>7. CASE HolderLeaves
    <3>1. PICK at \in {"idle", "integrates"} : TunnelLeaves(at)
      BY <2>7 DEF HolderLeaves
    <3>2. tunnelOp'.at = "free"
      BY <3>1 DEF TunnelLeaves, NoHolder
    <3>3. \A o : o \in TunnelStages => o # "free"
      BY DEF TunnelStages
    <3>4. ~ (SavesConfig \/ DropsSecret \/ EnsuresGroups \/ EnablesUnit \/ StartsTunnel \/ StopsTunnel \/ RemovesTunnel)
      <4>1. ASSUME SavesConfig \/ DropsSecret \/ EnsuresGroups \/ EnablesUnit \/ StartsTunnel \/ StopsTunnel \/ RemovesTunnel
            PROVE  FALSE
        <5>1. PICK at2 \in {"list", "write", "start", "record", "remove"} : tunnelOp' = [tunnelOp EXCEPT !.at = at2]
          <6>1. CASE SavesConfig \/ DropsSecret \/ EnsuresGroups \/ EnablesUnit
            BY <6>1 DEF SavesConfig, DropsSecret, EnsuresGroups, EnablesUnit, TunnelGoes
          <6>2. CASE StartsTunnel \/ StopsTunnel \/ RemovesTunnel
            BY <6>2 DEF StartsTunnel, StopsTunnel, RemovesTunnel, TunnelGoes
          <6> QED  BY <4>1, <6>1, <6>2
        <5>2. at2 \in TunnelStages
          BY DEF TunnelStages
        <5> QED  BY <1>0, <3>2, <3>3, <5>1, <5>2, StageIs
      <4> QED  BY <4>1
    <3>5. ~ (ListsPeers \/ WritesTunnel \/ ApplyFails)
      <4>1. ASSUME ListsPeers \/ WritesTunnel \/ ApplyFails
            PROVE  FALSE
        <5>1. UNCHANGED vpnCall
          BY <4>1 DEF ListsPeers, WritesTunnel, ApplyFails
        <5>2. vpnCall[tunnelOp.by].at = "holds" /\ vpnCall'[tunnelOp.by].at = at
          BY <1>0, <2>1, <3>1, LeavesIs, HolderIs DEF TunnelCaller
        <5> QED  BY <5>1, <5>2
      <4> QED  BY <4>1
    <3> QED  BY <1>8, <2>2, <2>3, <2>4, <2>5, <2>6, <3>2, <3>4, <3>5 DEF HolderStep, HolderStays
  <2>8. CASE HolderStays /\ tunnelOp'.at \notin TunnelPast
    <3>1. tunnelOp.at = "enroll"
      BY <2>8 DEF HolderStays
    <3>2. ~ (SavesConfig \/ WritesPeer \/ DeletesPeer \/ DropsSecret \/ ListsPeers \/ EnsuresGroups \/ WritesTunnel)
      BY <3>1 DEF SavesConfig, WritesPeer, DeletesPeer, DropsSecret, ListsPeers, EnsuresGroups, WritesTunnel, TunnelAt
    <3>3. ~ (EnablesUnit \/ StartsTunnel \/ StopsTunnel \/ RemovesTunnel \/ ApplyFails \/ RecordsApply)
      BY <3>1 DEF EnablesUnit, StartsTunnel, StopsTunnel, RemovesTunnel, ApplyFails, RecordsApply, TunnelAt
    <3> QED  BY <1>8, <2>3, <3>2, <3>3 DEF HolderStep
  <2> QED  BY <2>1, <2>2, <2>7, <2>8
<1> QED
  BY <1>1, <1>2, <1>3, <1>4, <1>5, <1>6, <1>7, <1>8 DEF TunnelNext

LEMMA TunnelStep ==
    TunnelInv /\ [TunnelNext]_tunnelVars => TunnelInv'
BY TunnelShapeStep, PeersStep, StageStep, AppliedStep DEF TunnelInv

-----------------------------------------------------------------------------
(* The invariant of the adoption of the old rules *)

SayableRules == Positions(original, PlainRules \ dismissed)
AdoptRows == {w \in [rule : LegacyRules, on : BOOLEAN, group : {"none", "mine"}] : w.on = (w.rule \in PlainRules)}
AdoptStages == {"serving", "system", "import", "importWrite", "importApply", "migrate", "migrateWrite",
                "migrateApply", "retryApply", "retire", "last"}
LateStages == {"migrateApply", "retryApply", "retire", "last", "serving"}
OldTables == [chain : OldChains, has : BOOLEAN, jumps : BOOLEAN, blocks : SUBSET SystemBlocks, rules : OldChains]

\* The rows tell the chain, but for what was deleted, in its order.
RulesLeft(chain, gone) == Picked(chain, Positions(chain, LegacyRules \ gone))
TellsChain(rows, gone) == RulesOf(rows) = RulesLeft(original, gone)
NoOrphans == \A i \in DOMAIN ruleRows : ruleRows[i].group = "mine"

\* No row before the import and the rest of the chain after it; a rule is in a
\* group that is there, and once they were grouped every rule is in one.
RowInv ==
    /\ original \in OldChains /\ ruleRows \in Seq(AdoptRows)
    /\ groupRows \subseteq SystemBlocks \cup {"mine"}
    /\ blocksOff \subseteq SystemBlocks /\ blocksOff \subseteq wereOff
    /\ latches \subseteq {"system", "imported", "grouped"}
    /\ "imported" \notin latches => ruleRows = <<>> /\ dismissed = {}
    /\ "imported" \in latches => TellsChain(ruleRows, dismissed)
    /\ \A i \in DOMAIN ruleRows : ruleRows[i].group = "mine" => "mine" \in groupRows
    /\ "grouped" \in latches /\ adoptExcuse = {} => "imported" \in latches /\ NoOrphans

\* What the boot pass has read is the chain, and what it did is latched.
BootInv ==
    /\ boot \in [at : AdoptStages, read : OldChains, whole : BOOLEAN]
    /\ boot.at = "importWrite" => "imported" \notin latches /\ boot.read = original
    /\ boot.at = "migrateWrite" => "imported" \in latches
    /\ boot.at \in LateStages /\ boot.whole => "grouped" \in latches

\* The chain waits for the import, here and on disk, unless it went unread;
\* after a boot that went well the rules are served from the groups.
ChainWaits(k) == IF k.has THEN k.chain = original ELSE "lost" \in adoptExcuse
ServesRules ==
    boot.at = "serving" /\ boot.whole /\ adoptExcuse = {} =>
      ~ruleKernel.jumps /\ ruleKernel.rules = Picked(original, SayableRules)

TableInv ==
    /\ ruleKernel \in OldTables /\ ruleFile \in OldTables
    /\ "imported" \notin latches => ChainWaits(ruleKernel) /\ ChainWaits(ruleFile)
    /\ ServesRules /\ BlocksStay

AdoptInv == RowInv /\ BootInv /\ TableInv
-----------------------------------------------------------------------------
(* What a list keeps when some of its entries are taken, in their order *)

\* Positions of a list of n entries.
Within(P, n) == n \in Nat /\ P \subseteq 1..n

\* Among finitely many positions each has a place, and a later one a higher.
LEMMA PlacesAscend ==
    ASSUME NEW n, NEW P, Within(P, n)
    PROVE  /\ IsFiniteSet(P) /\ Cardinality(P) \in 0..n
           /\ \A i \in P : PlaceAmong(i, P) \in 1..Cardinality(P)
           /\ \A i, j \in P : i < j => PlaceAmong(i, P) < PlaceAmong(j, P)
<1>0. n \in Nat /\ P \subseteq 1..n
  BY DEF Within
<1> USE <1>0
<1> DEFINE Upto(i) == {j \in P : j <= i}
<1>1. IsFiniteSet(1..n) /\ Cardinality(1..n) = n
  BY FS_Interval
<1>2. IsFiniteSet(P) /\ Cardinality(P) <= n
  BY <1>1, FS_Subset
<1>3. Cardinality(P) \in Nat
  BY <1>2, FS_CardinalityType
<1>4. ASSUME NEW i \in P
      PROVE  IsFiniteSet(Upto(i)) /\ Cardinality(Upto(i)) \in 1..Cardinality(P)
  <2>1. IsFiniteSet(Upto(i)) /\ Cardinality(Upto(i)) <= Cardinality(P)
    BY <1>2, FS_Subset
  <2>2. Cardinality(Upto(i)) \in Nat
    BY <2>1, FS_CardinalityType
  <2>3. i \in Upto(i)
    OBVIOUS
  <2>4. Cardinality(Upto(i)) # 0
    BY <2>1, <2>3, FS_EmptySet
  <2> QED  BY <1>3, <2>1, <2>2, <2>4
<1>5. ASSUME NEW i \in P, NEW j \in P, i < j
      PROVE  Cardinality(Upto(i)) < Cardinality(Upto(j))
  <2>1. i \in Nat /\ j \in Nat /\ \A m \in P : m \in Nat
    OBVIOUS
  <2>2. Upto(i) \subseteq Upto(j)
    <3>1. \A m \in P : m <= i => m <= j
      BY <1>5, <2>1
    <3> QED  BY <3>1
  <2>3. j \in Upto(j) /\ j \notin Upto(i)
    BY <1>5, <2>1
  <2>4. /\ Cardinality(Upto(i)) <= Cardinality(Upto(j))
        /\ Cardinality(Upto(j)) = Cardinality(Upto(i)) => Upto(j) = Upto(i)
    BY <1>4, <2>2, FS_Subset
  <2>5. Cardinality(Upto(i)) # Cardinality(Upto(j))
    BY <2>3, <2>4
  <2>6. Cardinality(Upto(i)) \in Nat /\ Cardinality(Upto(j)) \in Nat
    BY <1>4, <1>3
  <2> QED  BY <2>4, <2>5, <2>6
<1> QED  BY <1>2, <1>3, <1>4, <1>5 DEF PlaceAmong

\* The positions taken are numbered: each place has its position, and back.
LEMMA NthAndPlace ==
    ASSUME NEW n, NEW P, Within(P, n)
    PROVE  /\ \A k \in 1..Cardinality(P) : Nth(P, k) \in P /\ PlaceAmong(Nth(P, k), P) = k
           /\ \A i \in P : Nth(P, PlaceAmong(i, P)) = i
<1>0. n \in Nat /\ P \subseteq 1..n
  BY DEF Within
<1> USE <1>0
<1> DEFINE f == [i \in P |-> PlaceAmong(i, P)]
<1>1. /\ IsFiniteSet(P) /\ Cardinality(P) \in Nat
      /\ \A i \in P : PlaceAmong(i, P) \in 1..Cardinality(P)
  <2>1. IsFiniteSet(P) /\ Cardinality(P) \in 0..n /\ \A i \in P : PlaceAmong(i, P) \in 1..Cardinality(P)
    BY PlacesAscend, Zenon
  <2> QED  BY <2>1
<1>2. ASSUME NEW i \in P, NEW j \in P, PlaceAmong(i, P) = PlaceAmong(j, P)
      PROVE  i = j
  <2>1. i \in Nat /\ j \in Nat
    OBVIOUS
  <2>2. ~ (i < j) /\ ~ (j < i)
    <3>1. \A a, b \in P : a < b => PlaceAmong(a, P) < PlaceAmong(b, P)
      BY PlacesAscend, Zenon
    <3>2. PlaceAmong(i, P) \in Nat
      BY <1>1
    <3>3. ~ (PlaceAmong(i, P) < PlaceAmong(j, P)) /\ ~ (PlaceAmong(j, P) < PlaceAmong(i, P))
      BY <1>2, <3>2
    <3> QED  BY <3>1, <3>3
  <2> QED  BY <2>1, <2>2
<1>3. f \in Injection(P, 1..Cardinality(P))
  <2>1. f \in [P -> 1..Cardinality(P)]
    BY <1>1
  <2>2. IsInjective(f)
    BY <1>2 DEF IsInjective
  <2> QED  BY <2>1, <2>2 DEF Injection
<1>4. IsFiniteSet(1..Cardinality(P)) /\ Cardinality(1..Cardinality(P)) = Cardinality(P)
  BY <1>1, FS_Interval
<1>5. f \in Surjection(P, 1..Cardinality(P))
  <2> HIDE DEF f
  <2> QED  BY <1>3, <1>4, FS_Injection
<1>6. ASSUME NEW k \in 1..Cardinality(P)
      PROVE  Nth(P, k) \in P /\ PlaceAmong(Nth(P, k), P) = k
  <2>1. \E i \in P : f[i] = k
    BY <1>5 DEF Surjection
  <2>2. \E i \in P : PlaceAmong(i, P) = k
    BY <2>1
  <2> QED  BY <2>2 DEF Nth
<1>7. ASSUME NEW i \in P
      PROVE  Nth(P, PlaceAmong(i, P)) = i
  <2>1. PlaceAmong(i, P) \in 1..Cardinality(P)
    BY <1>1
  <2>2. Nth(P, PlaceAmong(i, P)) \in P /\ PlaceAmong(Nth(P, PlaceAmong(i, P)), P) = PlaceAmong(i, P)
    BY <1>6, <2>1
  <2> QED  BY <1>2, <2>2
<1> QED  BY <1>6, <1>7

NthOnes(P, Q) == {Nth(P, q) : q \in Q}

\* What is taken of what was taken is numbered alike.
LEMMA PlacesNest ==
    ASSUME NEW n, NEW P, Within(P, n), NEW Q, Within(Q, Cardinality(P))
    PROVE  /\ NthOnes(P, Q) \subseteq P /\ Cardinality(NthOnes(P, Q)) = Cardinality(Q)
           /\ \A k \in 1..Cardinality(Q) : Nth(NthOnes(P, Q), k) = Nth(P, Nth(Q, k))
<1>0. n \in Nat /\ P \subseteq 1..n /\ Cardinality(P) \in Nat /\ Q \subseteq 1..Cardinality(P)
  BY DEF Within
<1> USE <1>0
<1> DEFINE T == {Nth(P, q) : q \in Q}
<1>1. /\ Cardinality(P) \in Nat
      /\ \A i, j \in P : i < j => PlaceAmong(i, P) < PlaceAmong(j, P)
  <2>1. Cardinality(P) \in 0..n /\ \A i, j \in P : i < j => PlaceAmong(i, P) < PlaceAmong(j, P)
    BY PlacesAscend, Zenon
  <2> QED  BY <2>1
<1>2. \A q \in Q : Nth(P, q) \in P /\ PlaceAmong(Nth(P, q), P) = q
  BY NthAndPlace, Zenon
<1>3. T \subseteq P /\ T \subseteq 1..n
  BY <1>2
<1>4. IsFiniteSet(Q) /\ Cardinality(Q) \in Nat
  <2>1. IsFiniteSet(Q) /\ Cardinality(Q) \in 0..Cardinality(P)
    BY <1>1, PlacesAscend, Zenon
  <2> QED  BY <1>1, <2>1
<1>5. ASSUME NEW R, R \subseteq Q
      PROVE  Cardinality({Nth(P, q) : q \in R}) = Cardinality(R)
  <2> DEFINE U == {Nth(P, q) : q \in R}
             g == [q \in R |-> Nth(P, q)]
  <2>1. IsFiniteSet(R)
    BY <1>4, <1>5, FS_Subset
  <2>2. g \in [R -> U] /\ (\A t \in U : \E q \in R : g[q] = t)
    OBVIOUS
  <2>3. IsInjective(g)
    BY <1>2, <1>5 DEF IsInjective
  <2>4. g \in Injection(R, U) /\ g \in Surjection(R, U)
    BY <2>2, <2>3 DEF Injection, Surjection
  <2>5. ExistsBijection(R, U)
    BY <2>4 DEF ExistsBijection, Bijection
  <2> HIDE DEF U
  <2>6. Cardinality(U) = Cardinality(R)
    BY <2>1, <2>5, FS_Bijection
  <2> QED  BY <2>6 DEF U
<1>6. Cardinality(T) = Cardinality(Q)
  BY <1>5
<1>7. ASSUME NEW q \in Q
      PROVE  PlaceAmong(Nth(P, q), T) = PlaceAmong(q, Q)
  <2> DEFINE R == {m \in Q : m <= q}
  <2>1. ASSUME NEW m \in Q
        PROVE  Nth(P, m) <= Nth(P, q) <=> m <= q
    <3>1. m \in Nat /\ q \in Nat /\ Nth(P, m) \in Nat /\ Nth(P, q) \in Nat
      <4>1. \A i \in P : i \in Nat
        OBVIOUS
      <4>2. Nth(P, m) \in P /\ Nth(P, q) \in P
        BY <1>2
      <4>3. m \in 1..Cardinality(P) /\ q \in 1..Cardinality(P)
        OBVIOUS
      <4>4. Nth(P, m) \in Nat /\ Nth(P, q) \in Nat
        BY <4>1, <4>2, Zenon
      <4>5. Cardinality(P) \in Nat
        BY <1>1
      <4> QED  BY <4>3, <4>4, <4>5
    <3>2. Nth(P, m) < Nth(P, q) => m < q
      BY <1>1, <1>2
    <3>3. Nth(P, q) < Nth(P, m) => q < m
      BY <1>1, <1>2
    <3>4. Nth(P, q) = Nth(P, m) => q = m
      BY <1>2
    <3> QED  BY <3>1, <3>2, <3>3, <3>4
  <2>2. {t \in T : t <= Nth(P, q)} = {Nth(P, m) : m \in R}
    BY <2>1
  <2>3. Cardinality({Nth(P, m) : m \in R}) = Cardinality(R)
    BY <1>5
  <2> QED  BY <2>2, <2>3 DEF PlaceAmong
<1>8. ASSUME NEW k \in 1..Cardinality(Q)
      PROVE  Nth(T, k) = Nth(P, Nth(Q, k))
  <2>1. Nth(Q, k) \in Q /\ PlaceAmong(Nth(Q, k), Q) = k
    BY <1>1, NthAndPlace
  <2>2. PlaceAmong(Nth(P, Nth(Q, k)), T) = k
    BY <1>7, <2>1
  <2>3. Nth(P, Nth(Q, k)) \in T
    BY <2>1
  <2> HIDE DEF T
  <2>4. Nth(T, PlaceAmong(Nth(P, Nth(Q, k)), T)) = Nth(P, Nth(Q, k))
    <3>1. Within(T, n)
      BY <1>3 DEF Within
    <3> QED  BY <2>3, <3>1, NthAndPlace
  <2> QED  BY <2>2, <2>4
<1> QED  BY <1>3, <1>6, <1>8 DEF NthOnes

\* A list taken whole is the list.
LEMMA PickedWhole ==
    ASSUME NEW n \in Nat, NEW s, s = [i \in 1..n |-> s[i]]
    PROVE  Picked(s, 1..n) = s
<1>1. Cardinality(1..n) = n
  BY FS_Interval
<1>2. ASSUME NEW i \in 1..n
      PROVE  Nth(1..n, i) = i
  <2>1. {j \in 1..n : j <= i} = 1..i
    BY <1>2
  <2>2. PlaceAmong(i, 1..n) = i
    <3>1. IsFiniteSet(1..i) /\ Cardinality(1..i) = i
      BY FS_Interval
    <3> QED  BY <2>1, <3>1 DEF PlaceAmong
  <2>3. Nth(1..n, PlaceAmong(i, 1..n)) = i
    <3>1. Within(1..n, n) /\ i \in 1..n
      BY DEF Within
    <3> QED  BY <3>1, NthAndPlace
  <2> QED  BY <2>2, <2>3
<1> QED  BY <1>1, <1>2 DEF Picked

\* Taking twice is taking once, at the positions that went through both.
LEMMA PickedTwice ==
    ASSUME NEW n, NEW s, NEW P, Within(P, n), NEW Q, Within(Q, Cardinality(P))
    PROVE  Picked(Picked(s, P), Q) = Picked(s, NthOnes(P, Q))
<1>0. n \in Nat /\ P \subseteq 1..n /\ Cardinality(P) \in Nat /\ Q \subseteq 1..Cardinality(P)
  BY DEF Within
<1> USE <1>0
<1> DEFINE T == NthOnes(P, Q)
<1>1. /\ Cardinality(T) = Cardinality(Q)
      /\ \A k \in 1..Cardinality(Q) : Nth(T, k) = Nth(P, Nth(Q, k))
  BY PlacesNest
<1>2. Cardinality(P) \in Nat
  <2>1. Cardinality(P) \in 0..n
    BY PlacesAscend, Zenon
  <2> QED  BY <2>1
<1>3. \A k \in 1..Cardinality(Q) : Nth(Q, k) \in Q
  BY NthAndPlace
<1>4. \A k \in 1..Cardinality(Q) : Picked(s, P)[Nth(Q, k)] = s[Nth(P, Nth(Q, k))]
  BY <1>3 DEF Picked
<1> HIDE DEF T
<1> DEFINE p == Picked(s, P)
<1>5. \A k \in 1..Cardinality(Q) : p[Nth(Q, k)] = s[Nth(T, k)]
  BY <1>1, <1>4
<1> HIDE DEF p
<1>6. Picked(p, Q) = Picked(s, T)
  BY <1>1, <1>5 DEF Picked
<1> QED  BY <1>6 DEF p, T

\* The entries of a list among some members: their positions are the list's.
LEMMA PickedEntries ==
    ASSUME NEW n, NEW s, DOMAIN s = 1..n, NEW P, Within(P, n)
    PROVE  /\ Cardinality(P) \in Nat /\ Cardinality(P) <= n
           /\ DOMAIN Picked(s, P) = 1..Cardinality(P)
           /\ \A k \in 1..Cardinality(P) : Nth(P, k) \in P /\ Picked(s, P)[k] = s[Nth(P, k)]
           /\ \A i \in P : \E k \in 1..Cardinality(P) : Nth(P, k) = i
           /\ \A j, k \in 1..Cardinality(P) : Nth(P, j) = Nth(P, k) => j = k
<1>0. n \in Nat /\ P \subseteq 1..n
  BY DEF Within
<1> USE <1>0
<1>1. Cardinality(P) \in 0..n /\ \A i \in P : PlaceAmong(i, P) \in 1..Cardinality(P)
  BY PlacesAscend, Zenon
<1>2. /\ \A k \in 1..Cardinality(P) : Nth(P, k) \in P /\ PlaceAmong(Nth(P, k), P) = k
      /\ \A i \in P : Nth(P, PlaceAmong(i, P)) = i
  BY NthAndPlace, Zenon
<1>3. Cardinality(P) \in Nat /\ Cardinality(P) <= n
  BY <1>1
<1>4. \A i \in P : \E k \in 1..Cardinality(P) : Nth(P, k) = i
  BY <1>1, <1>2
<1>5. \A j, k \in 1..Cardinality(P) : Nth(P, j) = Nth(P, k) => j = k
  BY <1>2
<1>6. /\ DOMAIN Picked(s, P) = 1..Cardinality(P)
      /\ \A k \in 1..Cardinality(P) : Picked(s, P)[k] = s[Nth(P, k)]
  BY DEF Picked
<1> QED  BY <1>2, <1>3, <1>4, <1>5, <1>6

\* Members taken of members taken are those of both.
LEMMA MembersOfMembers ==
    ASSUME NEW n \in Nat, NEW s, DOMAIN s = 1..n, NEW A, NEW B
    PROVE  Picked(Picked(s, Positions(s, A)), Positions(Picked(s, Positions(s, A)), B))
             = Picked(s, Positions(s, A \cap B))
<1> DEFINE P == Positions(s, A)
           Q == Positions(Picked(s, P), B)
<1>1. P \subseteq 1..n /\ \A i \in 1..n : i \in P <=> s[i] \in A
  BY DEF Positions
<1>2. \A i \in 1..n : i \in Positions(s, A \cap B) <=> s[i] \in A /\ s[i] \in B
  BY DEF Positions
<1>3. Positions(s, A \cap B) \subseteq 1..n
  BY DEF Positions
<1> HIDE DEF P
<1>4. /\ DOMAIN Picked(s, P) = 1..Cardinality(P) /\ Cardinality(P) \in Nat
      /\ \A k \in 1..Cardinality(P) : Nth(P, k) \in P /\ Picked(s, P)[k] = s[Nth(P, k)]
      /\ \A i \in P : \E k \in 1..Cardinality(P) : Nth(P, k) = i
  <2>1. Within(P, n)
    BY <1>1 DEF Within
  <2> QED  BY <2>1, PickedEntries
<1>5. Q \subseteq 1..Cardinality(P) /\ \A k \in 1..Cardinality(P) : k \in Q <=> s[Nth(P, k)] \in B
  BY <1>4 DEF Positions
<1> HIDE DEF Q
<1>6. NthOnes(P, Q) = Positions(s, A \cap B)
  <2>1. ASSUME NEW q \in Q
        PROVE  Nth(P, q) \in Positions(s, A \cap B)
    <3>1. q \in 1..Cardinality(P) /\ s[Nth(P, q)] \in B
      BY <1>5
    <3>2. Nth(P, q) \in P /\ Nth(P, q) \in 1..n
      BY <1>1, <1>4, <3>1
    <3>3. s[Nth(P, q)] \in A
      BY <1>1, <3>2
    <3> QED  BY <1>2, <3>1, <3>2, <3>3
  <2>2. ASSUME NEW i \in Positions(s, A \cap B)
        PROVE  \E q \in Q : i = Nth(P, q)
    <3>1. i \in 1..n
      BY <1>3
    <3>2. s[i] \in A /\ s[i] \in B
      BY <1>2, <3>1
    <3>3. i \in P
      BY <1>1, <3>1, <3>2
    <3>4. PICK k \in 1..Cardinality(P) : Nth(P, k) = i
      BY <1>4, <3>3
    <3>5. k \in Q
      BY <1>5, <3>2, <3>4
    <3> QED  BY <3>4, <3>5
  <2> QED  BY <2>1, <2>2 DEF NthOnes
<1>7. Picked(Picked(s, P), Q) = Picked(s, NthOnes(P, Q))
  <2>1. Within(P, n)
    BY <1>1 DEF Within
  <2>2. Within(Q, Cardinality(P))
    BY <1>4, <1>5 DEF Within
  <2> QED  BY <2>1, <2>2, PickedTwice
<1>8. Picked(Picked(s, P), Q) = Picked(s, Positions(s, A \cap B))
  BY <1>6, <1>7
<1> QED  BY <1>8 DEF P, Q

-----------------------------------------------------------------------------
(* The rules of the old chain, as rows and as rendered *)

LEMMA ChainIs ==
    ASSUME NEW c \in OldChains
    PROVE  \E n \in 0..LongestChain :
             /\ n \in Nat /\ c \in [1..n -> LegacyRules] /\ DOMAIN c = 1..n
             /\ \A i, j \in 1..n : i # j => c[i] # c[j]
<1>1. PICK n \in 0..LongestChain : c \in [1..n -> LegacyRules]
  BY DEF OldChains, Lists
<1>2. n \in Nat /\ DOMAIN c = 1..n
  BY <1>1, AdoptAssumption
<1>3. \A i, j \in DOMAIN c : i # j => c[i] # c[j]
  BY DEF OldChains
<1> QED  BY <1>1, <1>2, <1>3

LEMMA ChainTakes ==
    ASSUME NEW n \in 0..LongestChain, NEW c \in [1..n -> LegacyRules],
           \A i, j \in 1..n : i # j => c[i] # c[j]
    PROVE  c \in OldChains
BY DEF OldChains, Lists

\* Whatever is taken of a chain is a chain.
LEMMA PickedChain ==
    ASSUME NEW c \in OldChains, NEW P, P \subseteq DOMAIN c
    PROVE  Picked(c, P) \in OldChains
<1>1. PICK n \in 0..LongestChain :
         /\ n \in Nat /\ c \in [1..n -> LegacyRules] /\ DOMAIN c = 1..n
         /\ \A i, j \in 1..n : i # j => c[i] # c[j]
  BY ChainIs
<1>2. Within(P, n)
  BY <1>1 DEF Within
<1>3. /\ Cardinality(P) \in Nat /\ Cardinality(P) <= n
      /\ \A k \in 1..Cardinality(P) : Nth(P, k) \in P /\ Picked(c, P)[k] = c[Nth(P, k)]
      /\ \A j, k \in 1..Cardinality(P) : Nth(P, j) = Nth(P, k) => j = k
  BY <1>1, <1>2, PickedEntries
<1>4. Cardinality(P) \in 0..LongestChain
  BY <1>1, <1>3, AdoptAssumption
<1>5. \A k \in 1..Cardinality(P) : Nth(P, k) \in 1..n
  BY <1>1, <1>3
<1>6. \A k \in 1..Cardinality(P) : c[Nth(P, k)] \in LegacyRules
  BY <1>1, <1>5
<1>7. Picked(c, P) \in [1..Cardinality(P) -> LegacyRules]
  BY <1>6 DEF Picked
<1>8. \A j, k \in 1..Cardinality(P) : j # k => Picked(c, P)[j] # Picked(c, P)[k]
  BY <1>1, <1>3, <1>5
<1> QED  BY <1>4, <1>7, <1>8, ChainTakes

LEMMA PickedRows ==
    ASSUME NEW S, NEW rows \in Seq(S), NEW P, P \subseteq DOMAIN rows
    PROVE  Picked(rows, P) \in Seq(S) /\ RulesOf(Picked(rows, P)) = Picked(RulesOf(rows), P)
<1>1. Len(rows) \in Nat /\ DOMAIN rows = 1..Len(rows)
  OBVIOUS
<1>2. Within(P, Len(rows))
  BY <1>1 DEF Within
<1>3. /\ Cardinality(P) \in Nat
      /\ DOMAIN Picked(rows, P) = 1..Cardinality(P)
      /\ \A k \in 1..Cardinality(P) : Nth(P, k) \in P /\ Picked(rows, P)[k] = rows[Nth(P, k)]
  BY <1>1, <1>2, PickedEntries
<1>4. \A k \in 1..Cardinality(P) : rows[Nth(P, k)] \in S
  BY <1>3
<1>5. Picked(rows, P) \in Seq(S)
  BY <1>3, <1>4 DEF Picked
<1>6. \A i \in P : RulesOf(rows)[i] = rows[i].rule
  BY DEF RulesOf
<1>7. \A k \in 1..Cardinality(P) : RulesOf(Picked(rows, P))[k] = Picked(RulesOf(rows), P)[k]
  BY <1>3, <1>6 DEF RulesOf, Picked
<1>8. DOMAIN RulesOf(Picked(rows, P)) = 1..Cardinality(P) /\ DOMAIN Picked(RulesOf(rows), P) = 1..Cardinality(P)
  BY <1>3 DEF RulesOf, Picked
<1>9. RulesOf(Picked(rows, P)) = Picked(RulesOf(rows), P)
  BY <1>7, <1>8 DEF RulesOf, Picked
<1> QED  BY <1>5, <1>9

\* The whole of a chain is its rules; a row says the rule it was made of.
LEMMA ChainWhole ==
    ASSUME NEW c \in OldChains
    PROVE  /\ RulesLeft(c, {}) = c
           /\ RulesOf(RowsOf(c, "none")) = c
           /\ RowsOf(c, "none") \in Seq(AdoptRows)
           /\ \A i \in DOMAIN RowsOf(c, "none") : RowsOf(c, "none")[i].group = "none"
<1>1. PICK n \in 0..LongestChain :
         n \in Nat /\ c \in [1..n -> LegacyRules] /\ DOMAIN c = 1..n
  BY ChainIs
<1>2. Positions(c, LegacyRules \ {}) = 1..n
  BY <1>1 DEF Positions
<1>3. Picked(c, 1..n) = c
  BY <1>1, PickedWhole
<1>4. /\ DOMAIN RowsOf(c, "none") = 1..n
      /\ \A i \in 1..n : /\ RowsOf(c, "none")[i] = Row(c[i], "none")
                         /\ RowsOf(c, "none")[i].rule = c[i] /\ RowsOf(c, "none")[i].group = "none"
  BY <1>1 DEF RowsOf, Row
<1>5. RulesOf(RowsOf(c, "none")) = c
  BY <1>1, <1>4 DEF RulesOf
<1>6. \A i \in 1..n : Row(c[i], "none") \in AdoptRows
  BY <1>1 DEF Row, AdoptRows
<1>7. RowsOf(c, "none") \in Seq(AdoptRows)
  BY <1>1, <1>4, <1>6 DEF RowsOf
<1>8. RulesLeft(c, {}) = c
  BY <1>2, <1>3 DEF RulesLeft
<1> QED  BY <1>4, <1>5, <1>7, <1>8

RowsNotOf(rows, lost) == {i \in DOMAIN rows : rows[i].rule \notin lost}

\* The rows without those of some rules are the chain without those rules.
LEMMA RowsWithout ==
    ASSUME NEW c \in OldChains, NEW rows \in Seq(AdoptRows), NEW gone, NEW lost,
           RulesOf(rows) = RulesLeft(c, gone)
    PROVE  /\ Picked(rows, RowsNotOf(rows, lost)) \in Seq(AdoptRows)
           /\ RulesOf(Picked(rows, RowsNotOf(rows, lost))) = RulesLeft(c, gone \cup lost)
<1> DEFINE P == RowsNotOf(rows, lost)
<1>1. PICK n \in 0..LongestChain : n \in Nat /\ DOMAIN c = 1..n
  BY ChainIs
<1>2. Picked(rows, P) \in Seq(AdoptRows) /\ RulesOf(Picked(rows, P)) = Picked(RulesOf(rows), P)
  <2>1. P \subseteq DOMAIN rows
    BY DEF RowsNotOf
  <2> HIDE DEF P
  <2> QED  BY <2>1, PickedRows
<1>3. \A i \in DOMAIN rows : rows[i].rule \in LegacyRules
  BY DEF AdoptRows
<1>4. P = Positions(RulesOf(rows), LegacyRules \ lost)
  BY <1>3 DEF Positions, RulesOf, RowsNotOf
<1> HIDE DEF P
<1>5. Picked(Picked(c, Positions(c, LegacyRules \ gone)),
             Positions(Picked(c, Positions(c, LegacyRules \ gone)), LegacyRules \ lost))
        = Picked(c, Positions(c, (LegacyRules \ gone) \cap (LegacyRules \ lost)))
  BY <1>1, MembersOfMembers
<1>6. (LegacyRules \ gone) \cap (LegacyRules \ lost) = LegacyRules \ (gone \cup lost)
  OBVIOUS
<1>7. Picked(RulesOf(rows), P) = Picked(c, Positions(c, LegacyRules \ (gone \cup lost)))
  BY <1>4, <1>5, <1>6 DEF RulesLeft
<1> QED  BY <1>2, <1>7 DEF P, RulesLeft

ShownOf(rows, groups) == {i \in DOMAIN rows : rows[i].on /\ rows[i].group \in groups}

\* With every rule in a group that is there, the rendered ones are those a row
\* can say, but for the deleted.
LEMMA RowsRender ==
    ASSUME NEW c \in OldChains, NEW rows \in Seq(AdoptRows), NEW gone, NEW groups,
           RulesOf(rows) = RulesLeft(c, gone),
           \A i \in DOMAIN rows : rows[i].group \in groups
    PROVE  Picked(RulesOf(rows), ShownOf(rows, groups)) = Picked(c, Positions(c, PlainRules \ gone))
<1> DEFINE P == ShownOf(rows, groups)
<1>1. PICK n \in 0..LongestChain : n \in Nat /\ DOMAIN c = 1..n
  BY ChainIs
<1>2. \A i \in DOMAIN rows : rows[i].on = (rows[i].rule \in PlainRules)
  BY DEF AdoptRows
<1>3. P = Positions(RulesOf(rows), PlainRules)
  BY <1>2 DEF Positions, RulesOf, ShownOf
<1> HIDE DEF P
<1>4. Picked(Picked(c, Positions(c, LegacyRules \ gone)),
             Positions(Picked(c, Positions(c, LegacyRules \ gone)), PlainRules))
        = Picked(c, Positions(c, (LegacyRules \ gone) \cap PlainRules))
  BY <1>1, MembersOfMembers
<1>5. (LegacyRules \ gone) \cap PlainRules = PlainRules \ gone
  BY DEF LegacyRules
<1> QED  BY <1>3, <1>4, <1>5 DEF P, RulesLeft

\* One row tells each rule that was not deleted, and none a deleted one.
LEMMA RowsTellOnce ==
    ASSUME NEW c \in OldChains, NEW rows \in Seq(AdoptRows), NEW gone, NEW i \in DOMAIN c,
           RulesOf(rows) = RulesLeft(c, gone)
    PROVE  Cardinality({k \in DOMAIN rows : rows[k].rule = c[i]}) = IF c[i] \in gone THEN 0 ELSE 1
<1> DEFINE P == Positions(c, LegacyRules \ gone)
           K == {k \in DOMAIN rows : rows[k].rule = c[i]}
<1>1. PICK n \in 0..LongestChain :
         /\ n \in Nat /\ c \in [1..n -> LegacyRules] /\ DOMAIN c = 1..n
         /\ \A a, b \in 1..n : a # b => c[a] # c[b]
  BY ChainIs
<1>2. Within(P, n) /\ P \subseteq 1..n
  BY <1>1 DEF Within, Positions
<1>3. \A a \in 1..n : a \in P <=> c[a] \notin gone
  BY <1>1 DEF Positions
<1> HIDE DEF P
<1>4. /\ Cardinality(P) \in Nat /\ DOMAIN Picked(c, P) = 1..Cardinality(P)
      /\ \A k \in 1..Cardinality(P) : Nth(P, k) \in P /\ Picked(c, P)[k] = c[Nth(P, k)]
      /\ \A a \in P : \E k \in 1..Cardinality(P) : Nth(P, k) = a
      /\ \A j, k \in 1..Cardinality(P) : Nth(P, j) = Nth(P, k) => j = k
  BY <1>1, <1>2, PickedEntries
<1>5. RulesOf(rows) = Picked(c, P)
  BY DEF P, RulesLeft
<1>6. /\ DOMAIN rows = DOMAIN RulesOf(rows)
      /\ \A k \in DOMAIN rows : rows[k].rule = RulesOf(rows)[k]
  BY DEF RulesOf
<1>7. /\ DOMAIN rows = 1..Cardinality(P)
      /\ \A k \in DOMAIN rows : rows[k].rule = c[Nth(P, k)]
  BY <1>4, <1>5, <1>6 DEF RulesLeft
<1>8. ASSUME NEW k \in DOMAIN rows PROVE rows[k].rule = c[i] <=> Nth(P, k) = i
  <2>1. rows[k].rule = c[Nth(P, k)] /\ Nth(P, k) \in P
    BY <1>4, <1>7
  <2>2. i \in 1..n /\ Nth(P, k) \in 1..n
    BY <1>1, <1>2, <2>1
  <2>3. i # Nth(P, k) => c[i] # c[Nth(P, k)]
    BY <1>1, <2>2
  <2> QED  BY <2>1, <2>3
<1>9. CASE c[i] \in gone
  <2>1. i \notin P
    BY <1>1, <1>3, <1>9
  <2>2. \A k \in DOMAIN rows : Nth(P, k) \in P
    BY <1>4, <1>7
  <2>3. K = {}
    BY <1>8, <2>1, <2>2
  <2> QED  BY <2>3, <1>9, FS_EmptySet
<1>10. CASE c[i] \notin gone
  <2>1. i \in P
    BY <1>1, <1>3, <1>10
  <2>2. PICK k \in 1..Cardinality(P) : Nth(P, k) = i
    BY <1>4, <2>1
  <2>3. K = {k}
    BY <1>4, <1>7, <1>8, <2>2
  <2> QED  BY <2>3, <1>10, FS_Singleton
<1> QED  BY <1>9, <1>10

-----------------------------------------------------------------------------
(* The steps of the adoption *)

LEMMA EmptyChain == <<>> \in OldChains /\ 0 \in 0..LongestChain
<1>1. 0 \in 0..LongestChain
  BY AdoptAssumption
<1>2. <<>> \in [1..0 -> LegacyRules]
  OBVIOUS
<1> QED  BY <1>1, <1>2 DEF OldChains, Lists

LEMMA AdoptStarts == AdoptInit => AdoptInv
<1> SUFFICES ASSUME AdoptInit PROVE AdoptInv
  OBVIOUS
<1>1. original \in OldChains /\ <<>> \in OldChains
  BY EmptyChain DEF AdoptInit
<1>2. boot = [at |-> "system", read |-> <<>>, whole |-> TRUE]
  BY DEF AdoptInit, NoBoot
<1>3. BootInv
  BY <1>1, <1>2 DEF BootInv, AdoptStages, LateStages
<1>4. \A c \in OldChains : OldKernel(c) \in OldTables /\ OldKernel(c).blocks = SystemBlocks
  BY <1>1 DEF OldKernel, OldTables
<1>5. Picked(original, Positions(original, PlainRules)) \in OldChains
  <2>1. Positions(original, PlainRules) \subseteq DOMAIN original
    BY DEF Positions
  <2> QED  BY <1>1, <2>1, PickedChain
<1>6. ruleKernel \in OldTables /\ ruleFile = ruleKernel /\ ruleKernel.blocks = SystemBlocks
  BY <1>1, <1>4, <1>5 DEF AdoptInit
<1>7. BlocksStay /\ ServesRules
  BY <1>2, <1>6 DEF BlocksStay, ServesRules
<1>8. CASE ruleKernel = OldKernel(original) /\ ruleRows = <<>> /\ latches = {}
  <2>1. RowInv
    BY <1>1, <1>8 DEF AdoptInit, RowInv
  <2>2. ChainWaits(ruleKernel) /\ ChainWaits(ruleFile)
    BY <1>6, <1>8 DEF ChainWaits, OldKernel
  <2> QED  BY <1>3, <1>6, <1>7, <2>1, <2>2 DEF AdoptInv, TableInv
<1>9. CASE ruleRows = RowsOf(original, "none") /\ latches = {"imported"}
  <2>1. /\ ruleRows \in Seq(AdoptRows) /\ RulesOf(ruleRows) = original
        /\ \A i \in DOMAIN ruleRows : ruleRows[i].group = "none"
        /\ RulesLeft(original, {}) = original
    BY <1>1, <1>9, ChainWhole
  <2>2. dismissed = {} /\ groupRows = {} /\ blocksOff = {} /\ "imported" \in latches /\ "grouped" \notin latches
    BY <1>9 DEF AdoptInit
  <2>3. TellsChain(ruleRows, dismissed)
    BY <2>1, <2>2 DEF TellsChain
  <2>4. RowInv
    BY <1>1, <1>9, <2>1, <2>2, <2>3 DEF RowInv
  <2> QED  BY <1>3, <1>6, <1>7, <2>2, <2>4 DEF AdoptInv, TableInv
<1> QED  BY <1>8, <1>9 DEF AdoptInit

LEMMA CreatesSystemGroupsStep == AdoptInv /\ CreatesSystemGroups => AdoptInv'
<1> SUFFICES ASSUME AdoptInv, CreatesSystemGroups PROVE AdoptInv'
  OBVIOUS
<1>1. /\ latches \subseteq latches' /\ latches' \subseteq latches \cup {"system"}
      /\ groupRows \subseteq groupRows' /\ groupRows' \subseteq groupRows \cup SystemBlocks
  BY DEF CreatesSystemGroups, CreatesBlocks
<1>2. "imported" \in latches' <=> "imported" \in latches
  BY <1>1
<1>3. "grouped" \in latches' <=> "grouped" \in latches
  BY <1>1
<1>4. boot'.at = "import" /\ boot' \in [at : AdoptStages, read : OldChains, whole : BOOLEAN]
  BY DEF CreatesSystemGroups, BootGoes, BootFails, AdoptInv, BootInv, AdoptStages
<1>5. /\ UNCHANGED <<original, ruleKernel, ruleFile, ruleRows, blocksOff, dismissed, wereOff, adoptExcuse>>
  BY DEF CreatesSystemGroups
<1>6. RowInv'
  BY <1>1, <1>2, <1>3, <1>5 DEF AdoptInv, RowInv, NoOrphans, TellsChain
<1>7. BootInv'
  BY <1>4 DEF BootInv, LateStages
<1>8. TableInv'
  BY <1>2, <1>4, <1>5 DEF AdoptInv, TableInv, ChainWaits, ServesRules, BlocksStay
<1> QED  BY <1>6, <1>7, <1>8 DEF AdoptInv

LEMMA ReadsChainStep == AdoptInv /\ ReadsChain => AdoptInv'
<1> SUFFICES ASSUME AdoptInv, ReadsChain PROVE AdoptInv'
  OBVIOUS
<1>1. UNCHANGED <<original, ruleKernel, ruleFile, ruleRows, groupRows, blocksOff, latches, dismissed, wereOff,
                  adoptExcuse>>
  BY DEF ReadsChain
<1>2. RowInv'
  BY <1>1 DEF AdoptInv, RowInv, NoOrphans, TellsChain
<1>3. /\ boot'.at \in {"migrate", "importWrite"}
      /\ boot' \in [at : AdoptStages, read : OldChains, whole : BOOLEAN]
  BY DEF ReadsChain, BootGoes, BootFails, AdoptInv, BootInv, AdoptStages, TableInv, OldTables
<1>4. boot'.at = "importWrite" => "imported" \notin latches /\ boot'.read = original
  <2>1. boot'.at = "importWrite" => "imported" \notin latches /\ ruleKernel.has /\ boot'.read = ruleKernel.chain
    BY DEF ReadsChain, BootGoes, BootFails, AdoptInv, BootInv, AlreadyImported
  <2> QED  BY <2>1 DEF AdoptInv, TableInv, ChainWaits
<1>5. BootInv'
  BY <1>1, <1>3, <1>4 DEF BootInv, LateStages
<1>6. TableInv'
  BY <1>1, <1>3 DEF AdoptInv, TableInv, ChainWaits, ServesRules, BlocksStay
<1> QED  BY <1>2, <1>5, <1>6 DEF AdoptInv

LEMMA ImportsRowsStep == AdoptInv /\ ImportsRows => AdoptInv'
<1> SUFFICES ASSUME AdoptInv, ImportsRows PROVE AdoptInv'
  OBVIOUS
<1>1. UNCHANGED <<original, ruleKernel, ruleFile, groupRows, blocksOff, dismissed, wereOff, adoptExcuse>>
  BY DEF ImportsRows
<1>2. "imported" \notin latches /\ boot.read = original /\ ruleRows = <<>> /\ dismissed = {}
  BY DEF ImportsRows, AdoptInv, BootInv, RowInv, BootAt
<1>3. boot'.at \in {"migrate", "importApply"} /\ boot' \in [at : AdoptStages, read : OldChains, whole : BOOLEAN]
  BY EmptyChain DEF ImportsRows, AdoptInv, BootInv, AdoptStages
<1>4. BootInv'
  BY <1>3 DEF BootInv, LateStages
<1>5. TableInv'
  <2>1. "imported" \notin latches' => "imported" \notin latches
    BY DEF ImportsRows
  <2> QED  BY <1>1, <1>3, <2>1 DEF AdoptInv, TableInv, ChainWaits, ServesRules, BlocksStay
<1>6. CASE UNCHANGED <<ruleRows, latches>>
  <2>1. RowInv'
    BY <1>1, <1>6 DEF AdoptInv, RowInv, NoOrphans, TellsChain
  <2> QED  BY <1>4, <1>5, <2>1 DEF AdoptInv
<1>7. CASE ruleRows' = ruleRows \o RowsOf(boot.read, "none") /\ latches' = latches \cup {"imported"}
  <2>1. original \in OldChains
    BY DEF AdoptInv, RowInv
  <2>2. /\ RowsOf(original, "none") \in Seq(AdoptRows) /\ RulesOf(RowsOf(original, "none")) = original
        /\ \A i \in DOMAIN RowsOf(original, "none") : RowsOf(original, "none")[i].group = "none"
        /\ RulesLeft(original, {}) = original
    BY <2>1, ChainWhole
  <2>3. ruleRows' = RowsOf(original, "none")
    BY <1>2, <1>7, <2>2
  <2>4. TellsChain(ruleRows, dismissed)'
    BY <1>1, <1>2, <2>2, <2>3 DEF TellsChain
  <2>5. /\ ruleRows' \in Seq(AdoptRows)
        /\ \A i \in DOMAIN ruleRows' : ruleRows'[i].group # "mine"
    BY <2>2, <2>3
  <2>6. "grouped" \in latches' <=> "grouped" \in latches
    BY <1>7
  <2>7. ~ ("grouped" \in latches' /\ adoptExcuse' = {})
    BY <1>1, <1>2, <2>6 DEF AdoptInv, RowInv
  <2>8. RowInv'
    BY <1>1, <1>7, <2>1, <2>4, <2>5, <2>7 DEF AdoptInv, RowInv
  <2> QED  BY <1>4, <1>5, <2>8 DEF AdoptInv
<1> QED  BY <1>6, <1>7 DEF ImportsRows

\* What the rows tell is a chain, whatever of it was deleted.
LEMMA RowsAreChain ==
    ASSUME NEW c \in OldChains, NEW rows, NEW gone,
           rows = <<>> \/ RulesOf(rows) = RulesLeft(c, gone)
    PROVE  RulesOf(rows) \in OldChains
<1>1. CASE rows = <<>>
  <2>1. RulesOf(rows) = <<>>
    BY <1>1 DEF RulesOf
  <2> QED  BY <2>1, EmptyChain
<1>2. CASE RulesOf(rows) = RulesLeft(c, gone)
  <2>1. Positions(c, LegacyRules \ gone) \subseteq DOMAIN c
    BY DEF Positions
  <2> QED  BY <1>2, <2>1, PickedChain DEF RulesLeft
<1> QED  BY <1>1, <1>2

\* A reconciliation leaves the old chain, jumps to it no more and renders the
\* rows; the file gets the same or stays.
LEMMA ReconciledTable ==
    ASSUME RowInv', TableInv, Reconciles
    PROVE  /\ ruleKernel' \in OldTables /\ ruleFile' \in OldTables
           /\ ruleKernel'.chain = ruleKernel.chain /\ ruleKernel'.has = ruleKernel.has
           /\ ~ruleKernel'.jumps /\ ruleKernel'.blocks = SystemBlocks \ blocksOff'
           /\ ruleKernel'.rules = Picked(RulesOf(ruleRows'), ShownOf(ruleRows', groupRows'))
           /\ ruleFile' = ruleKernel' \/ ruleFile' = ruleFile
<1> DEFINE shown == ShownOf(ruleRows', groupRows')
           rules == Picked(RulesOf(ruleRows'), shown)
<1>1. original' \in OldChains /\ (ruleRows' = <<>> \/ TellsChain(ruleRows, dismissed)')
  BY DEF RowInv
<1>2. RulesOf(ruleRows') \in OldChains
  BY <1>1, RowsAreChain DEF TellsChain
<1>3. shown \subseteq DOMAIN RulesOf(ruleRows')
  BY DEF RulesOf, ShownOf
<1>4. rules \in OldChains
  BY <1>2, <1>3, PickedChain
<1> HIDE DEF shown
<1>5. RenderedGroups = [ruleKernel EXCEPT !.jumps = FALSE, !.blocks = (SystemBlocks \cap groupRows') \ blocksOff',
                                          !.rules = rules]
  BY DEF RenderedGroups, ShownOf, shown
<1>6. (SystemBlocks \cap groupRows') \ blocksOff' = SystemBlocks \ blocksOff'
  BY DEF Reconciles, SystemGroupsPresent
<1> HIDE DEF rules
<1>7. /\ RenderedGroups \in OldTables /\ ~RenderedGroups.jumps
      /\ RenderedGroups.chain = ruleKernel.chain /\ RenderedGroups.has = ruleKernel.has
      /\ RenderedGroups.blocks = SystemBlocks \ blocksOff' /\ RenderedGroups.rules = rules
  BY <1>4, <1>5, <1>6 DEF TableInv, OldTables
<1>8. ruleKernel' = RenderedGroups /\ (ruleFile' = RenderedGroups \/ ruleFile' = ruleFile)
  BY DEF Reconciles
<1>9. ruleFile' \in OldTables
  BY <1>7, <1>8 DEF TableInv
<1> QED  BY <1>7, <1>8, <1>9 DEF rules, shown

\* With all the rules grouped, what a reconciliation renders is what was in
\* force before the upgrade, but for the rules no row can say and the deleted.
LEMMA ReconcilesKeeps ==
    ASSUME RowInv', BootInv', TableInv, Reconciles, UNCHANGED <<original, latches, adoptExcuse>>,
           wereOff \subseteq wereOff'
    PROVE  TableInv'
<1>1. /\ ruleKernel' \in OldTables /\ ruleFile' \in OldTables
      /\ ruleKernel'.chain = ruleKernel.chain /\ ruleKernel'.has = ruleKernel.has
      /\ ~ruleKernel'.jumps /\ ruleKernel'.blocks = SystemBlocks \ blocksOff'
      /\ ruleKernel'.rules = Picked(RulesOf(ruleRows'), ShownOf(ruleRows', groupRows'))
      /\ ruleFile' = ruleKernel' \/ ruleFile' = ruleFile
  BY ReconciledTable
<1>2. "imported" \notin latches' => ChainWaits(ruleKernel)' /\ ChainWaits(ruleFile)'
  <2>1. ASSUME "imported" \notin latches'
        PROVE  ChainWaits(ruleKernel) /\ ChainWaits(ruleFile)
    BY <2>1 DEF TableInv
  <2> QED  BY <1>1, <2>1 DEF ChainWaits
<1>3. BlocksStay'
  <2>1. blocksOff' \subseteq wereOff'
    BY DEF RowInv
  <2>2. \A b \in SystemBlocks : b \in wereOff' \/ b \in ruleKernel'.blocks
    BY <1>1, <2>1
  <2>3. \A b \in SystemBlocks : b \in wereOff' \/ b \in ruleFile.blocks
    BY DEF TableInv, BlocksStay
  <2> QED  BY <1>1, <2>2, <2>3 DEF BlocksStay
<1>4. ServesRules'
  <2>1. SUFFICES ASSUME boot'.at = "serving", boot'.whole, adoptExcuse' = {}
                 PROVE  ruleKernel'.rules = Picked(original', SayableRules')
    BY <1>1 DEF ServesRules
  <2>2. "grouped" \in latches'
    BY <2>1 DEF BootInv, LateStages
  <2>3. /\ original' \in OldChains /\ ruleRows' \in Seq(AdoptRows)
        /\ TellsChain(ruleRows, dismissed)' /\ NoOrphans'
        /\ \A i \in DOMAIN ruleRows' : ruleRows'[i].group = "mine" => "mine" \in groupRows'
    BY <2>1, <2>2 DEF RowInv
  <2>4. \A i \in DOMAIN ruleRows' : ruleRows'[i].group \in groupRows'
    BY <2>3 DEF NoOrphans
  <2>5. RulesOf(ruleRows') = RulesLeft(original', dismissed')
    BY <2>3 DEF TellsChain
  <2>6. Picked(RulesOf(ruleRows'), ShownOf(ruleRows', groupRows'))
          = Picked(original', Positions(original', PlainRules \ dismissed'))
    BY <2>3, <2>4, <2>5, RowsRender
  <2> QED  BY <1>1, <2>6 DEF SayableRules
<1> QED  BY <1>1, <1>2, <1>3, <1>4 DEF TableInv

\* One that is refused leaves all of it, and the boot not whole.
LEMMA RefusedKeeps ==
    ASSUME TableInv, Refused, UNCHANGED <<original, latches, adoptExcuse>>,
           wereOff \subseteq wereOff', ~boot'.whole
    PROVE  TableInv'
<1>1. UNCHANGED <<ruleKernel, ruleFile>>
  BY DEF Refused
<1>2. BlocksStay' /\ ServesRules'
  BY <1>1 DEF TableInv, BlocksStay, ServesRules
<1> QED  BY <1>1, <1>2 DEF TableInv, ChainWaits

LEMMA BootReconcilesStep == AdoptInv /\ BootReconciles => AdoptInv'
<1> SUFFICES ASSUME AdoptInv, BootReconciles PROVE AdoptInv'
  OBVIOUS
<1>1. UNCHANGED <<original, ruleRows, groupRows, blocksOff, latches, dismissed, wereOff, adoptExcuse>>
  BY DEF BootReconciles
<1>2. RowInv'
  BY <1>1 DEF AdoptInv, RowInv, NoOrphans, TellsChain
<1>3. boot \in [at : AdoptStages, read : OldChains, whole : BOOLEAN]
  BY DEF AdoptInv, BootInv
<1>4. CASE Reconciles /\ BootGoes(CASE BootAt("importApply") -> "migrate"
                                    [] BootAt("last") -> "serving"
                                    [] OTHER -> "retire")
  <2>1. /\ boot' \in [at : AdoptStages, read : OldChains, whole : BOOLEAN] /\ boot'.whole = boot.whole
        /\ boot'.at \in {"migrate", "serving", "retire"}
        /\ boot'.at # "migrate" => boot.at \in {"migrateApply", "retryApply", "last"}
    <3>1. CASE BootAt("importApply")
      BY <1>3, <1>4, <3>1 DEF BootGoes, BootAt, AdoptStages
    <3>2. CASE BootAt("last")
      BY <1>3, <1>4, <3>2 DEF BootGoes, BootAt, AdoptStages
    <3>3. CASE boot.at \in {"migrateApply", "retryApply"}
      BY <1>3, <1>4, <3>3 DEF BootGoes, BootAt, AdoptStages
    <3> QED  BY <3>1, <3>2, <3>3 DEF BootReconciles, BootAt
  <2>2. BootInv'
    BY <1>1, <2>1 DEF AdoptInv, BootInv, LateStages
  <2>3. TableInv'
    BY <1>1, <1>2, <1>4, <2>2, ReconcilesKeeps DEF AdoptInv
  <2> QED  BY <1>2, <2>2, <2>3 DEF AdoptInv
<1>5. CASE Refused /\ BootFails(CASE BootAt("importApply") -> "migrate"
                                  [] BootAt("migrateApply") -> "last"
                                  [] BootAt("retryApply") -> "retire"
                                  [] OTHER -> "serving")
  <2>1. /\ boot' \in [at : AdoptStages, read : OldChains, whole : BOOLEAN] /\ ~boot'.whole
        /\ boot'.at \in {"migrate", "last", "retire", "serving"}
    <3>1. CASE BootAt("importApply")
      BY <1>3, <1>5, <3>1 DEF BootFails, BootAt, AdoptStages
    <3>2. CASE BootAt("migrateApply")
      BY <1>3, <1>5, <3>2 DEF BootFails, BootAt, AdoptStages
    <3>3. CASE BootAt("retryApply")
      BY <1>3, <1>5, <3>3 DEF BootFails, BootAt, AdoptStages
    <3>4. CASE BootAt("last")
      BY <1>3, <1>5, <3>4 DEF BootFails, BootAt, AdoptStages
    <3> QED  BY <3>1, <3>2, <3>3, <3>4 DEF BootReconciles, BootAt
  <2>2. BootInv'
    BY <2>1 DEF BootInv
  <2>3. TableInv'
    BY <1>1, <1>5, <2>1, RefusedKeeps DEF AdoptInv
  <2> QED  BY <1>2, <2>2, <2>3 DEF AdoptInv
<1> QED  BY <1>4, <1>5 DEF BootReconciles

LEMMA CountsOrphansStep == AdoptInv /\ CountsOrphans => AdoptInv'
<1> SUFFICES ASSUME AdoptInv, CountsOrphans PROVE AdoptInv'
  OBVIOUS
<1>1. UNCHANGED <<original, ruleKernel, ruleFile, ruleRows, groupRows, blocksOff, dismissed, wereOff>>
  BY DEF CountsOrphans
<1>2. /\ adoptExcuse \subseteq adoptExcuse'
      /\ "grouped" \in latches' /\ "imported" \notin latches => adoptExcuse' # {}
  BY DEF CountsOrphans
<1>3. latches' \in {latches, latches \cup {"grouped"}}
  BY DEF CountsOrphans
<1>4. "imported" \in latches' <=> "imported" \in latches
  BY <1>3
<1>5. /\ boot' \in [at : AdoptStages, read : OldChains, whole : BOOLEAN]
      /\ boot'.at \in {"retryApply", "retire", "migrateWrite", "last"}
      /\ boot'.at = "last" => ~boot'.whole
      /\ boot'.at \in {"retryApply", "retire"} => "grouped" \in latches'
      /\ boot'.at = "migrateWrite" => DOMAIN ruleRows # {}
  BY DEF CountsOrphans, BootGoes, BootFails, AdoptInv, BootInv, AdoptStages
<1>6. "grouped" \in latches' => "grouped" \in latches \/ \A i \in DOMAIN ruleRows : ruleRows[i].group # "none"
  BY DEF CountsOrphans
<1>7. ruleRows \in Seq(AdoptRows)
  BY DEF AdoptInv, RowInv
<1>8. \A i \in DOMAIN ruleRows : ruleRows[i].group # "none" => ruleRows[i].group = "mine"
  BY <1>7 DEF AdoptRows
<1>9. "grouped" \in latches' /\ adoptExcuse' = {} => "imported" \in latches' /\ NoOrphans'
  <2>1. ASSUME "grouped" \in latches', adoptExcuse' = {}
        PROVE  "imported" \in latches /\ adoptExcuse = {}
    BY <1>2, <2>1
  <2>2. ASSUME "grouped" \in latches', adoptExcuse' = {}
        PROVE  \A i \in DOMAIN ruleRows : ruleRows[i].group = "mine"
    <3>1. CASE "grouped" \in latches
      BY <2>1, <2>2, <3>1 DEF AdoptInv, RowInv, NoOrphans
    <3>2. CASE "grouped" \notin latches
      BY <1>6, <1>8, <2>2, <3>2
    <3> QED  BY <3>1, <3>2
  <2> QED  BY <1>1, <1>4, <2>1, <2>2 DEF NoOrphans
<1>10. RowInv'
  BY <1>1, <1>3, <1>4, <1>9 DEF AdoptInv, RowInv, TellsChain
<1>11. BootInv'
  <2>1. boot'.at = "migrateWrite" => "imported" \in latches'
    <3>1. DOMAIN ruleRows # {} => ruleRows # <<>>
      OBVIOUS
    <3> QED  BY <1>4, <1>5, <3>1 DEF AdoptInv, RowInv
  <2> QED  BY <1>5, <2>1 DEF BootInv, LateStages
<1>12. TableInv'
  BY <1>1, <1>2, <1>4, <1>5 DEF AdoptInv, TableInv, ChainWaits, ServesRules, BlocksStay
<1> QED  BY <1>10, <1>11, <1>12 DEF AdoptInv

LEMMA AdoptsOrphansStep == AdoptInv /\ AdoptsOrphans => AdoptInv'
<1> SUFFICES ASSUME AdoptInv, AdoptsOrphans PROVE AdoptInv'
  OBVIOUS
<1>1. UNCHANGED <<original, ruleKernel, ruleFile, blocksOff, dismissed, wereOff, adoptExcuse>>
  BY DEF AdoptsOrphans
<1>2. /\ boot' \in [at : AdoptStages, read : OldChains, whole : BOOLEAN]
      /\ boot'.at \in {"migrateApply", "last"}
      /\ boot'.at = "last" => ~boot'.whole
      /\ boot'.at = "migrateApply" => "grouped" \in latches'
  BY DEF AdoptsOrphans, BootGoes, BootFails, AdoptInv, BootInv, AdoptStages
<1>3. "imported" \in latches
  BY DEF AdoptsOrphans, AdoptInv, BootInv, BootAt
<1>4. "imported" \in latches'
  BY <1>3 DEF AdoptsOrphans
<1>5. BootInv'
  BY <1>2 DEF BootInv, LateStages
<1>6. TableInv'
  BY <1>1, <1>2, <1>4 DEF AdoptInv, TableInv, ServesRules, BlocksStay
<1>7. CASE UNCHANGED <<ruleRows, groupRows, latches>>
  <2>1. RowInv'
    BY <1>1, <1>7 DEF AdoptInv, RowInv, NoOrphans, TellsChain
  <2> QED  BY <1>5, <1>6, <2>1 DEF AdoptInv
<1>8. CASE /\ CreatesGroup /\ latches' = latches \cup {"grouped"}
           /\ ruleRows' = [i \in DOMAIN ruleRows |-> IF ruleRows[i].group = "none" THEN [ruleRows[i] EXCEPT !.group = "mine"]
                                                     ELSE ruleRows[i]]
  <2>1. ruleRows \in Seq(AdoptRows) /\ DOMAIN ruleRows = 1..Len(ruleRows) /\ Len(ruleRows) \in Nat
    BY DEF AdoptInv, RowInv
  <2>2. ASSUME NEW i \in DOMAIN ruleRows
        PROVE  /\ ruleRows'[i] \in AdoptRows /\ ruleRows'[i].rule = ruleRows[i].rule
               /\ ruleRows'[i].group = "mine"
    <3>1. ruleRows[i] \in AdoptRows
      BY <2>1, <2>2
    <3>2. CASE ruleRows[i].group = "none"
      <4>1. ruleRows'[i] = [ruleRows[i] EXCEPT !.group = "mine"]
        BY <1>8, <2>2, <3>2
      <4> QED  BY <3>1, <4>1 DEF AdoptRows
    <3>3. CASE ruleRows[i].group # "none"
      <4>1. ruleRows'[i] = ruleRows[i]
        BY <1>8, <2>2, <3>3
      <4> QED  BY <3>1, <3>3, <4>1 DEF AdoptRows
    <3> QED  BY <3>2, <3>3
  <2>3. DOMAIN ruleRows' = DOMAIN ruleRows
    BY <1>8
  <2>4. ruleRows' \in Seq(AdoptRows)
    <3>1. ruleRows' = [i \in 1..Len(ruleRows) |-> ruleRows'[i]]
      BY <1>8, <2>1
    <3>2. \A i \in 1..Len(ruleRows) : ruleRows'[i] \in AdoptRows
      BY <2>1, <2>2
    <3> QED  BY <2>1, <3>1, <3>2
  <2>5. RulesOf(ruleRows') = RulesOf(ruleRows)
    BY <2>2, <2>3 DEF RulesOf
  <2>6. TellsChain(ruleRows, dismissed)'
    BY <1>1, <1>3, <2>5 DEF AdoptInv, RowInv, TellsChain
  <2>7. NoOrphans'
    BY <2>2, <2>3 DEF NoOrphans
  <2>8. "mine" \in groupRows' /\ groupRows' \subseteq SystemBlocks \cup {"mine"}
    BY <1>8 DEF CreatesGroup, AdoptInv, RowInv
  <2>9. latches' \subseteq {"system", "imported", "grouped"}
    BY <1>8 DEF AdoptInv, RowInv
  <2>10. RowInv'
    BY <1>1, <1>4, <2>4, <2>6, <2>7, <2>8, <2>9 DEF AdoptInv, RowInv
  <2> QED  BY <1>5, <1>6, <2>10 DEF AdoptInv
<1> QED  BY <1>7, <1>8 DEF AdoptsOrphans

LEMMA RetiresChainStep == AdoptInv /\ RetiresChain => AdoptInv'
<1> SUFFICES ASSUME AdoptInv, RetiresChain PROVE AdoptInv'
  OBVIOUS
<1>1. UNCHANGED <<original, ruleFile, ruleRows, groupRows, blocksOff, latches, dismissed, wereOff>>
  BY DEF RetiresChain
<1>2. /\ adoptExcuse \subseteq adoptExcuse'
      /\ UNCHANGED ruleKernel \/ ruleKernel' = [ruleKernel EXCEPT !.has = FALSE, !.chain = <<>>]
      /\ ruleKernel' = [ruleKernel EXCEPT !.has = FALSE, !.chain = <<>>] /\ ~ UNCHANGED ruleKernel =>
           "imported" \in latches \/ "lost" \in adoptExcuse'
  BY DEF RetiresChain
<1>3. /\ boot' \in [at : AdoptStages, read : OldChains, whole : BOOLEAN] /\ boot'.at = "last"
      /\ boot'.whole => "grouped" \in latches
  BY DEF RetiresChain, BootGoes, BootAt, AdoptInv, BootInv, AdoptStages, LateStages
<1>4. RowInv'
  BY <1>1, <1>2 DEF AdoptInv, RowInv, NoOrphans, TellsChain
<1>5. BootInv'
  BY <1>1, <1>3 DEF BootInv
<1>6. ruleKernel' \in OldTables /\ ruleKernel'.blocks = ruleKernel.blocks
  BY <1>2, EmptyChain DEF AdoptInv, TableInv, OldTables
<1>7. "imported" \notin latches => ChainWaits(ruleKernel)' /\ ChainWaits(ruleFile)'
  BY <1>1, <1>2 DEF AdoptInv, TableInv, OldTables, ChainWaits
<1>8. TableInv'
  BY <1>1, <1>3, <1>6, <1>7 DEF AdoptInv, TableInv, ServesRules, BlocksStay
<1> QED  BY <1>4, <1>5, <1>8 DEF AdoptInv

LEMMA AdoptRestartStep == AdoptInv /\ AdoptRestart => AdoptInv'
<1> SUFFICES ASSUME AdoptInv, AdoptRestart PROVE AdoptInv'
  OBVIOUS
<1>1. UNCHANGED <<original, ruleFile, ruleRows, groupRows, blocksOff, latches, dismissed, wereOff, adoptExcuse>>
  BY DEF AdoptRestart
<1>2. boot' = [at |-> "system", read |-> <<>>, whole |-> TRUE]
  BY DEF AdoptRestart, NoBoot
<1>3. RowInv'
  BY <1>1 DEF AdoptInv, RowInv, NoOrphans, TellsChain
<1>4. BootInv'
  BY <1>2, EmptyChain DEF BootInv, AdoptStages, LateStages
<1>5. TableInv'
  BY <1>1, <1>2 DEF AdoptRestart, AdoptInv, TableInv, ChainWaits, ServesRules, BlocksStay
<1> QED  BY <1>3, <1>4, <1>5 DEF AdoptInv

LEMMA RestoresBackupStep == AdoptInv /\ RestoresBackup => AdoptInv'
<1> SUFFICES ASSUME AdoptInv, RestoresBackup PROVE AdoptInv'
  OBVIOUS
<1>1. UNCHANGED <<original, ruleKernel, ruleFile, ruleRows, groupRows, blocksOff, boot, dismissed, wereOff>>
  BY DEF RestoresBackup
<1>2. /\ latches' = latches \cup {"system", "grouped"}
      /\ adoptExcuse \subseteq adoptExcuse'
      /\ adoptExcuse' = {} => "grouped" \in latches /\ adoptExcuse = {}
  BY DEF RestoresBackup, BringsLatches, TravellingLatches
<1>3. "imported" \in latches' <=> "imported" \in latches
  BY <1>2
<1>4. latches' \subseteq {"system", "imported", "grouped"}
  BY <1>2 DEF AdoptInv, RowInv
<1>5. RowInv'
  BY <1>1, <1>2, <1>3, <1>4 DEF AdoptInv, RowInv, NoOrphans, TellsChain
<1>6. BootInv'
  BY <1>1, <1>2, <1>3 DEF AdoptInv, BootInv
<1>7. TableInv'
  BY <1>1, <1>2, <1>3 DEF AdoptInv, TableInv, ChainWaits, ServesRules, BlocksStay, SayableRules
<1> QED  BY <1>5, <1>6, <1>7 DEF AdoptInv

\* A deletion takes rows away and tells the others as before.
LEMMA DeletesKeeps ==
    ASSUME RowInv, NEW lost, Deletes(lost), UNCHANGED original
    PROVE  /\ ruleRows' \in Seq(AdoptRows)
           /\ ruleRows = <<>> => ruleRows' = <<>>
           /\ TellsChain(ruleRows, dismissed) => TellsChain(ruleRows, dismissed)'
           /\ \A i \in DOMAIN ruleRows' : \E j \in DOMAIN ruleRows :
                ruleRows'[i] = ruleRows[j] /\ ruleRows[j].rule \notin lost
<1> DEFINE P == RowsNotOf(ruleRows, lost)
<1>1. ruleRows' = Picked(ruleRows, P) /\ dismissed' = dismissed \cup lost
  BY DEF Deletes, RowsNotOf
<1>2. ruleRows \in Seq(AdoptRows) /\ DOMAIN ruleRows = 1..Len(ruleRows) /\ Len(ruleRows) \in Nat
  BY DEF RowInv
<1>3. \A i \in P : i \in DOMAIN ruleRows /\ ruleRows[i].rule \notin lost
  BY DEF RowsNotOf
<1>4. ruleRows = <<>> => P = {}
  BY <1>3
<1>5. TellsChain(ruleRows, dismissed) => TellsChain(ruleRows, dismissed)'
  <2>1. SUFFICES ASSUME TellsChain(ruleRows, dismissed) PROVE TellsChain(ruleRows, dismissed)'
    OBVIOUS
  <2>2. original \in OldChains /\ RulesOf(ruleRows) = RulesLeft(original, dismissed)
    BY <2>1 DEF RowInv, TellsChain
  <2>3. RulesOf(Picked(ruleRows, P)) = RulesLeft(original, dismissed \cup lost)
    BY <1>2, <2>2, RowsWithout
  <2> QED  BY <1>1, <2>3 DEF TellsChain
<1> HIDE DEF P
<1>6. Picked(ruleRows, P) \in Seq(AdoptRows)
  BY <1>2, <1>3, PickedRows
<1>7. Within(P, Len(ruleRows))
  BY <1>2, <1>3 DEF Within
<1>8. /\ DOMAIN ruleRows' = 1..Cardinality(P)
      /\ \A k \in 1..Cardinality(P) : Nth(P, k) \in P /\ ruleRows'[k] = ruleRows[Nth(P, k)]
  BY <1>1, <1>2, <1>7, PickedEntries
<1>9. ruleRows = <<>> => ruleRows' = <<>>
  <2>1. Cardinality({}) = 0
    BY FS_EmptySet
  <2>2. ruleRows = <<>> => DOMAIN ruleRows' = 1..0
    BY <1>4, <1>8, <2>1
  <2> QED  BY <1>1, <1>6, <2>2
<1>10. \A i \in DOMAIN ruleRows' : \E j \in DOMAIN ruleRows :
         ruleRows'[i] = ruleRows[j] /\ ruleRows[j].rule \notin lost
  BY <1>3, <1>8
<1> QED  BY <1>1, <1>5, <1>6, <1>9, <1>10

\* Whatever the admin deletes, the rows there are keep what they tell.
LEMMA EditedRows ==
    ASSUME RowInv, AdminEdits
    PROVE  RowInv'
<1>1. UNCHANGED <<original, latches, adoptExcuse>>
  BY DEF AdminEdits
<1>2. ASSUME NEW lost, Deletes(lost), lost \subseteq {ruleRows[i].rule : i \in DOMAIN ruleRows},
             groupRows' \subseteq groupRows, UNCHANGED <<blocksOff, wereOff>>,
             \A i \in DOMAIN ruleRows : ruleRows[i].group = "mine" =>
               "mine" \in groupRows' \/ ruleRows[i].rule \in lost
      PROVE  RowInv'
  <2>1. /\ ruleRows' \in Seq(AdoptRows)
        /\ ruleRows = <<>> => ruleRows' = <<>>
        /\ TellsChain(ruleRows, dismissed) => TellsChain(ruleRows, dismissed)'
        /\ \A i \in DOMAIN ruleRows' : \E j \in DOMAIN ruleRows :
             ruleRows'[i] = ruleRows[j] /\ ruleRows[j].rule \notin lost
    BY <1>1, <1>2, DeletesKeeps
  <2>2. "imported" \notin latches => ruleRows' = <<>> /\ dismissed' = {}
    <3>1. SUFFICES ASSUME "imported" \notin latches PROVE ruleRows' = <<>> /\ dismissed' = {}
      OBVIOUS
    <3>2. ruleRows = <<>> /\ dismissed = {}
      BY <3>1 DEF RowInv
    <3>3. lost = {}
      BY <1>2, <3>2
    <3> QED  BY <1>2, <2>1, <3>2, <3>3 DEF Deletes
  <2>3. \A i \in DOMAIN ruleRows' : ruleRows'[i].group = "mine" => "mine" \in groupRows'
    BY <1>2, <2>1
  <2>4. NoOrphans => NoOrphans'
    BY <2>1 DEF NoOrphans
  <2>5. groupRows' \subseteq SystemBlocks \cup {"mine"}
    BY <1>2 DEF RowInv
  <2> QED  BY <1>1, <1>2, <2>1, <2>2, <2>3, <2>4, <2>5 DEF RowInv
<1>3. CASE /\ \E i \in DOMAIN ruleRows : Deletes({ruleRows[i].rule})
           /\ UNCHANGED <<groupRows, blocksOff, wereOff>>
  <2>1. PICK i \in DOMAIN ruleRows : Deletes({ruleRows[i].rule})
    BY <1>3
  <2>2. \A k \in DOMAIN ruleRows : ruleRows[k].group = "mine" => "mine" \in groupRows'
    BY <1>3 DEF RowInv
  <2> QED  BY <1>2, <1>3, <2>1, <2>2
<1>4. CASE /\ groupRows' = groupRows \ {"mine"}
           /\ Deletes({ruleRows[i].rule : i \in {j \in DOMAIN ruleRows : ruleRows[j].group = "mine"}})
           /\ UNCHANGED <<blocksOff, wereOff>>
  <2> DEFINE lost == {ruleRows[i].rule : i \in {j \in DOMAIN ruleRows : ruleRows[j].group = "mine"}}
  <2>1. /\ lost \subseteq {ruleRows[i].rule : i \in DOMAIN ruleRows}
        /\ \A i \in DOMAIN ruleRows : ruleRows[i].group = "mine" => ruleRows[i].rule \in lost
    OBVIOUS
  <2>2. Deletes(lost)
    BY <1>4
  <2>3. groupRows' \subseteq groupRows
    BY <1>4
  <2> HIDE DEF lost
  <2> QED  BY <1>2, <1>4, <2>1, <2>2, <2>3
<1>5. CASE \E b \in SystemBlocks \cap groupRows :
             /\ blocksOff' = IF b \in blocksOff THEN blocksOff \ {b} ELSE blocksOff \cup {b}
             /\ wereOff' = wereOff \cup {b}
             /\ UNCHANGED <<ruleRows, groupRows, dismissed>>
  <2>1. UNCHANGED <<ruleRows, groupRows, dismissed>>
    BY <1>5
  <2>2. blocksOff' \subseteq SystemBlocks /\ blocksOff' \subseteq wereOff'
    BY <1>5 DEF RowInv
  <2> QED  BY <1>1, <2>1, <2>2 DEF RowInv, NoOrphans, TellsChain
<1> QED  BY <1>3, <1>4, <1>5 DEF AdminEdits

LEMMA AdminEditsStep == AdoptInv /\ AdminEdits => AdoptInv'
<1> SUFFICES ASSUME AdoptInv, AdminEdits PROVE AdoptInv'
  OBVIOUS
<1>1. UNCHANGED <<original, latches, adoptExcuse>>
  BY DEF AdminEdits
<1>2. RowInv'
  BY EditedRows DEF AdoptInv
<1>3. wereOff \subseteq wereOff'
  BY DEF AdminEdits
<1>4. CASE Reconciles /\ UNCHANGED boot
  <2>1. BootInv'
    BY <1>1, <1>4 DEF AdoptInv, BootInv
  <2> QED  BY <1>1, <1>2, <1>3, <1>4, <2>1, ReconcilesKeeps DEF AdoptInv
<1>5. CASE Refused /\ boot' = [boot EXCEPT !.whole = FALSE]
  <2>1. BootInv' /\ ~boot'.whole
    BY <1>1, <1>5 DEF AdoptInv, BootInv
  <2> QED  BY <1>1, <1>2, <1>3, <1>5, <2>1, RefusedKeeps DEF AdoptInv
<1> QED  BY <1>4, <1>5 DEF AdminEdits

LEMMA AdoptStep ==
    ASSUME AdoptInv, [AdoptNext]_adoptVars
    PROVE  AdoptInv'
<1>1. CASE UNCHANGED adoptVars
  BY <1>1 DEF adoptVars, AdoptInv, RowInv, BootInv, TableInv, NoOrphans, TellsChain, ChainWaits, ServesRules,
              SayableRules, BlocksStay
<1>2. CASE AdoptNext
  BY <1>2, CreatesSystemGroupsStep, ReadsChainStep, ImportsRowsStep, BootReconcilesStep, CountsOrphansStep,
     AdoptsOrphansStep, RetiresChainStep, AdoptRestartStep, AdminEditsStep, RestoresBackupStep DEF AdoptNext
<1> QED  BY <1>1, <1>2

\* What the invariant says of the rules and of the blocks.
LEMMA AdoptHolds == AdoptInv => AdoptTypeOK /\ RulesAreKept /\ RulesStayInForce /\ BlocksStay
<1> SUFFICES ASSUME AdoptInv PROVE AdoptTypeOK /\ RulesAreKept /\ RulesStayInForce /\ BlocksStay
  OBVIOUS
<1>1. AdoptTypeOK
  <2>1. \A i \in DOMAIN ruleRows : ruleRows[i] \in AdoptRows
    BY DEF AdoptInv, RowInv
  <2>2. \A i \in DOMAIN ruleRows : ruleRows[i].rule \in LegacyRules /\ ruleRows[i].group \in {"none", "mine"}
    BY <2>1 DEF AdoptRows
  <2>3. \A k \in {ruleKernel, ruleFile} :
          /\ k.chain \in OldChains /\ k.has \in BOOLEAN /\ k.jumps \in BOOLEAN
          /\ k.blocks \subseteq SystemBlocks /\ k.rules \in OldChains
    BY DEF AdoptInv, TableInv, OldTables
  <2>4. boot.at \in AdoptStages
    BY DEF AdoptInv, BootInv
  <2> QED  BY <2>2, <2>3, <2>4 DEF AdoptTypeOK, AdoptInv, RowInv, AdoptStages
<1>2. RulesAreKept
  <2> SUFFICES ASSUME NEW i \in DOMAIN original
               PROVE  IF original[i] \in dismissed THEN Times(original[i]) = 0
                      ELSE \/ Times(original[i]) = 1
                           \/ /\ Times(original[i]) = 0
                              /\ \E j \in DOMAIN ruleKernel.chain : ruleKernel.chain[j] = original[i]
                           \/ "lost" \in adoptExcuse
    BY DEF RulesAreKept
  <2>1. original \in OldChains /\ ruleRows \in Seq(AdoptRows)
    BY DEF AdoptInv, RowInv
  <2>2. CASE "imported" \in latches
    <3>1. RulesOf(ruleRows) = RulesLeft(original, dismissed)
      BY <2>2 DEF AdoptInv, RowInv, TellsChain
    <3>2. Times(original[i]) = IF original[i] \in dismissed THEN 0 ELSE 1
      BY <2>1, <3>1, RowsTellOnce DEF Times
    <3> QED  BY <3>2
  <2>3. CASE "imported" \notin latches
    <3>1. ruleRows = <<>> /\ dismissed = {} /\ ChainWaits(ruleKernel)
      BY <2>3 DEF AdoptInv, RowInv, TableInv
    <3>2. {j \in DOMAIN ruleRows : ruleRows[j].rule = original[i]} = {}
      BY <3>1
    <3>3. Times(original[i]) = 0
      BY <3>2, FS_EmptySet DEF Times
    <3> QED  BY <3>1, <3>3 DEF ChainWaits
  <2> QED  BY <2>2, <2>3
<1>3. RulesStayInForce
  BY DEF AdoptInv, TableInv, ServesRules, SayableRules, RulesStayInForce, BootAt
<1> QED  BY <1>1, <1>2, <1>3 DEF AdoptInv, TableInv

=============================================================================
