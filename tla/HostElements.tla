---------------------------- MODULE HostElements -----------------------------
(* The elements the panel puts into the table one by one: blocked hosts (by  *)
(* physical address and by IP), destinations and hosts fixed on a link, port *)
(* forwards (hosts, nftables, api/handlers). They live in the kernel; rows   *)
(* keep the blocked flag and the forwards; the boot file and a snapshot in   *)
(* the database bring the rest back. The calls overlap, command by command.  *)
EXTENDS Naturals, FiniteSets

CONSTANTS
    LanHosts,         \* hosts, by physical address
    LanAddrs,         \* IPv4 addresses of the LAN
    Listed,           \* destinations blocked and hosts fixed on a link
    Forwards,         \* port forwards
    ElementCalls,     \* calls that may be under way
    MaxElementEdits,  \* bound on calls and changes of address
    MaxElementFaults  \* bound on failures and reboots

ASSUME ElementAssumption ==
    /\ 0 \notin LanAddrs /\ LanAddrs # {} /\ MaxElementEdits \in Nat /\ MaxElementFaults \in Nat
    /\ LanHosts \cap Listed = {} /\ Forwards \cap (LanHosts \cup Listed) = {}

VARIABLES
    elements,     \* the sets, the map and the DNAT chain in the kernel
    tableFile,    \* /etc/nftables.conf, loaded before the daemon starts
    tableCopy,    \* nft_live_snapshot, for a table created from nothing
    hostRows,     \* host_metadata: the flag, and the address seen last (0: none)
    forwardRows,  \* the setting port_forwards
    dumps,        \* the rulesets saved to go back to: at most one
    windowOpen,   \* a change awaits confirmation: Persist writes nothing
    elementCalls, \* the calls under way
    blockLost,    \* history: why a blocked host may not be in the set
    freeLost,     \* history: why an unblocked host may be in a set
    fileLost,     \* history: why the file may differ from the kernel
    dnatLost,     \* history: why the DNAT chain may differ from the setting
    elementEdits, elementFaults

elementVars == <<elements, tableFile, tableCopy, hostRows, forwardRows, dumps, windowOpen, elementCalls,
                 blockLost, freeLost, fileLost, dnatLost, elementEdits, elementFaults>>

NoElements == [macs |-> {}, ips |-> {}, listed |-> {}, dnat |-> {}, contained |-> {}]
NoElementCall == [at |-> "idle", op |-> "none", on |-> {}, list |-> {}, read |-> NoElements]
CallsIdle == \A c \in ElementCalls : elementCalls[c].at = "idle"
At(c, a) == elementCalls[c].at = a
GoesTo(c, a) == elementCalls' = [elementCalls EXCEPT ![c].at = a]
CallEnds(c) == elementCalls' = [elementCalls EXCEPT ![c] = NoElementCall]
ElementEdit == elementEdits < MaxElementEdits /\ elementEdits' = elementEdits + 1
ElementFault == elementFaults < MaxElementFaults /\ elementFaults' = elementFaults + 1
NoElementFault == UNCHANGED elementFaults
Kept == <<tableFile, tableCopy, dumps, windowOpen>>
ElementRows == <<hostRows, forwardRows>>
KernelStays == UNCHANGED <<elements, blockLost, freeLost, dnatLost>>
Flags(h, on) == hostRows' = [hostRows EXCEPT ![h].blocked = on]
Sees(h, a) == hostRows' = [hostRows EXCEPT ![h].ip = a]
BlockedHosts == {h \in LanHosts : hostRows[h].blocked}
Because(why, holds) == IF holds THEN {why} ELSE {}

ElementInit ==
    /\ elements = NoElements /\ tableFile = NoElements /\ tableCopy = NoElements
    /\ \E a \in {0, CHOOSE b \in LanAddrs : TRUE} :
         hostRows = [h \in LanHosts |-> [blocked |-> FALSE, ip |-> a]]
    /\ forwardRows = {} /\ dumps = {} /\ windowOpen = FALSE
    /\ elementCalls = [c \in ElementCalls |-> NoElementCall]
    /\ blockLost = {} /\ freeLost = {} /\ fileLost = {} /\ dnatLost = {}
    /\ elementEdits = 0 /\ elementFaults = 0

\* Put or take away, as the call asks; nft refuses to delete what is not there.
Put(c, set, x) == IF elementCalls[c].op = "add" THEN set \cup x ELSE set \ x
NotThere(c, set, x) == elementCalls[c].op = "del" /\ x \cap set = {}

\* sanitizeDynamicSetElements: what the kernel contained by itself stays out.
Sanitized(table) == [table EXCEPT !.contained = {}]

-----------------------------------------------------------------------------
\* A request reaches its handler; one for a forward reads the setting first.
AsksElement(c) ==
    /\ At(c, "idle") /\ ElementEdit
    /\ \E op \in {"add", "del"}, x \in LanHosts \cup Listed \cup Forwards :
         LET busy == UNION {elementCalls[d].on : d \in ElementCalls}
             asked == [NoElementCall EXCEPT !.op = op, !.on = {x}]
             list == IF op = "add" THEN forwardRows \cup {x} ELSE forwardRows \ {x}
         IN
         /\ elementCalls' = [elementCalls EXCEPT ![c] =
              CASE x \in LanHosts -> [asked EXCEPT !.at = "row"]
                [] x \in Listed -> [asked EXCEPT !.at = "element"]
                [] OTHER -> [asked EXCEPT !.at = "dnat", !.list = list]]
         /\ blockLost' = blockLost \cup Because("crossed", x \in LanHosts /\ x \in busy)
         /\ freeLost' = freeLost \cup Because("crossed", x \in LanHosts /\ x \in busy)
         /\ dnatLost' = dnatLost \cup Because("crossed", x \in Forwards /\ busy \cap Forwards # {})
    /\ fileLost' = fileLost \cup Because("crossed", ~CallsIdle)
    /\ NoElementFault /\ UNCHANGED <<elements, Kept, ElementRows>>

\* SetBlocked: the flag first; an error ends the call.
WritesFlag(c) ==
    /\ At(c, "row")
    /\ \/ /\ \E h \in elementCalls[c].on :
               Flags(h, elementCalls[c].op = "add")
          /\ GoesTo(c, "mac") /\ NoElementFault
       \/ ElementFault /\ CallEnds(c) /\ UNCHANGED hostRows
    /\ KernelStays /\ UNCHANGED <<Kept, forwardRows, fileLost, elementEdits>>

\* BlockMAC, UnblockMAC: an error is logged and the call goes on; they do not
\* persist.
SetsMac(c) ==
    /\ At(c, "mac") /\ GoesTo(c, "ip")
    /\ \/ /\ elements' = [elements EXCEPT !.macs = Put(c, @, elementCalls[c].on)]
          /\ fileLost' = fileLost \cup Because("mac", elements' # elements)
          /\ NoElementFault /\ UNCHANGED <<blockLost, freeLost>>
       \/ /\ ElementFault
          /\ blockLost' = blockLost \cup Because("failed", elementCalls[c].op = "add")
          /\ freeLost' = freeLost \cup Because("failed", elementCalls[c].op = "del")
          /\ UNCHANGED <<elements, fileLost>>
    /\ UNCHANGED <<Kept, ElementRows, dnatLost, elementEdits>>

\* ipForMAC: none where the host was never seen at an IPv4 address.
SeenAt(c) == {hostRows[h].ip : h \in elementCalls[c].on} \ {0}

\* BlockHost, UnblockHost, at the address seen last; their errors are ignored.
SetsIp(c) ==
    LET ips == SeenAt(c) IN
    /\ At(c, "ip")
    /\ \/ /\ ips = {} \/ NotThere(c, elements.ips, ips)
          /\ GoesTo(c, "copy") /\ NoElementFault /\ KernelStays
       \/ /\ ips # {} /\ ~NotThere(c, elements.ips, ips)
          /\ elements' = [elements EXCEPT !.ips = Put(c, @, ips)]
          /\ GoesTo(c, "persist") /\ NoElementFault /\ UNCHANGED <<blockLost, freeLost, dnatLost>>
       \/ /\ ips # {} /\ ElementFault /\ freeLost' = freeLost \cup {"failed"}
          /\ GoesTo(c, "copy") /\ UNCHANGED <<elements, blockLost, dnatLost>>
    /\ UNCHANGED <<Kept, ElementRows, fileLost, elementEdits>>

\* AddBlocklist, AddWanHost and their opposites.
SetsElement(c) ==
    LET x == elementCalls[c].on IN
    /\ At(c, "element")
    /\ \/ /\ ~NotThere(c, elements.listed, x) /\ GoesTo(c, "persist") /\ NoElementFault
          /\ elements' = [elements EXCEPT !.listed = Put(c, @, x)]
       \/ /\ IF NotThere(c, elements.listed, x) THEN NoElementFault ELSE ElementFault
          /\ CallEnds(c) /\ UNCHANGED elements
    /\ UNCHANGED <<Kept, ElementRows, blockLost, freeLost, fileLost, dnatLost, elementEdits>>

\* ApplyPortForwards: the chain is flushed and filled in one script.
SetsForwards(c) ==
    /\ At(c, "dnat")
    /\ \/ /\ elements' = [elements EXCEPT !.dnat = elementCalls[c].list]
          /\ GoesTo(c, "persist") /\ NoElementFault
       \/ ElementFault /\ CallEnds(c) /\ UNCHANGED elements
    /\ UNCHANGED <<Kept, ElementRows, blockLost, freeLost, fileLost, dnatLost, elementEdits>>

-----------------------------------------------------------------------------
\* What follows a Persist: the block of a host ignores its error, a list and a
\* forward answer it, the forward with the chain already changed.
AfterPersist(c, ok) ==
    LET of == elementCalls[c].on IN
    IF of \subseteq LanHosts \/ (ok /\ of \subseteq Listed) THEN GoesTo(c, "copy")
    ELSE IF ok THEN GoesTo(c, "save") ELSE CallEnds(c)

\* persistBlocked: the boot file gets no change that awaits confirmation.
PersistBlocked == windowOpen

PersistFails(c) ==
    /\ ElementFault /\ AfterPersist(c, FALSE)
    /\ fileLost' = fileLost \cup {"failed"}
    /\ dnatLost' = dnatLost \cup Because("failed", elementCalls[c].on \subseteq Forwards)

\* Persist reads the table, and then writes the file: nothing is held between.
PersistReads(c) ==
    /\ At(c, "persist")
    /\ \/ /\ ~PersistBlocked /\ NoElementFault /\ UNCHANGED <<fileLost, dnatLost>>
          /\ elementCalls' = [elementCalls EXCEPT ![c] =
               [@ EXCEPT !.at = "write", !.read = Sanitized(elements)]]
       \/ /\ PersistBlocked /\ AfterPersist(c, TRUE)
          /\ fileLost' = fileLost \cup {"window"} /\ NoElementFault /\ UNCHANGED dnatLost
       \/ ~PersistBlocked /\ PersistFails(c)
    /\ UNCHANGED <<elements, Kept, ElementRows, blockLost, freeLost, elementEdits>>

PersistWrites(c) ==
    /\ At(c, "write")
    /\ \/ /\ tableFile' = elementCalls[c].read /\ AfterPersist(c, TRUE)
          /\ fileLost' = fileLost \cap {"crossed"} /\ NoElementFault /\ UNCHANGED dnatLost
       \/ PersistFails(c) /\ UNCHANGED tableFile
    /\ UNCHANGED <<elements, tableCopy, dumps, windowOpen, ElementRows, blockLost, freeLost, elementEdits>>

\* The setting is saved after the chain; a reconciliation follows, which leaves
\* the elements alone.
SavesForwards(c) ==
    /\ At(c, "save")
    /\ \/ /\ forwardRows' = elementCalls[c].list /\ GoesTo(c, "copy")
          /\ NoElementFault /\ UNCHANGED dnatLost
       \/ ElementFault /\ CallEnds(c) /\ dnatLost' = dnatLost \cup {"failed"} /\ UNCHANGED forwardRows
    /\ UNCHANGED <<elements, Kept, hostRows, blockLost, freeLost, fileLost, elementEdits>>

\* saveNftSnapshot: what it copies is not sanitized.
Copies(c) ==
    /\ At(c, "copy") /\ CallEnds(c)
    /\ \/ tableCopy' = elements /\ NoElementFault
       \/ ElementFault /\ UNCHANGED tableCopy
    /\ KernelStays /\ UNCHANGED <<tableFile, dumps, windowOpen, ElementRows, fileLost, elementEdits>>

-----------------------------------------------------------------------------
\* Listing the hosts records the address each one is seen at.
Sighted ==
    /\ ElementEdit
    /\ \E h \in LanHosts, a \in LanAddrs \ {0} :
         /\ a # hostRows[h].ip
         /\ Sees(h, a)
         /\ freeLost' = freeLost \cup Because("moved", hostRows[h].blocked \/ \E c \in ElementCalls : h \in elementCalls[c].on)
    /\ NoElementFault
    /\ UNCHANGED <<elements, Kept, forwardRows, elementCalls, blockLost, fileLost, dnatLost>>

\* The kernel contains a source; the time of one passes, or Liberar takes it out.
Contained ==
    /\ ElementEdit
    /\ elements' = [elements EXCEPT !.contained = IF @ = {} THEN {"source"} ELSE {}]
    /\ NoElementFault
    /\ UNCHANGED <<Kept, ElementRows, elementCalls, blockLost, freeLost, fileLost, dnatLost>>

\* Backup: the ruleset as it is, to go back to.
TakesDump ==
    /\ ElementEdit /\ dumps' = {elements}
    /\ NoElementFault /\ KernelStays
    /\ UNCHANGED <<tableFile, tableCopy, windowOpen, ElementRows, elementCalls, fileLost>>

\* Rollback is refused while a window is open, looked at on the way in and
\* again before the restore.
AsksRollback(c) ==
    /\ At(c, "idle") /\ ElementEdit /\ ~windowOpen
    /\ \E d \in dumps : elementCalls' = [elementCalls EXCEPT ![c] = [NoElementCall EXCEPT !.at = "check", !.read = d]]
    /\ fileLost' = fileLost \cup Because("crossed", ~CallsIdle)
    /\ NoElementFault /\ KernelStays /\ UNCHANGED <<Kept, ElementRows>>

ChecksWindow(c) ==
    /\ At(c, "check")
    /\ IF windowOpen THEN CallEnds(c) ELSE GoesTo(c, "restore")
    /\ NoElementFault /\ KernelStays /\ UNCHANGED <<Kept, ElementRows, fileLost, elementEdits>>

\* A dump without our table, or with a restrictive policy, is refused.
RefusesDump(c) ==
    /\ At(c, "restore") /\ CallEnds(c)
    /\ NoElementFault /\ KernelStays /\ UNCHANGED <<Kept, ElementRows, fileLost, elementEdits>>

\* Restore puts the whole table back in one script, or nothing of it.
RestoresDump(c) ==
    /\ At(c, "restore")
    /\ elements' = elementCalls[c].read /\ GoesTo(c, "reconcile")
    /\ blockLost' = blockLost \cup {"rolled"} /\ freeLost' = freeLost \cup {"rolled"}
    /\ dnatLost' = dnatLost \cup {"rolled"}
    /\ NoElementFault /\ UNCHANGED <<Kept, ElementRows, fileLost, elementEdits>>

\* The reconciliation that follows persists; where it fails only the copy is made.
ReconcilesDump(c) ==
    /\ At(c, "reconcile")
    /\ \/ GoesTo(c, "persist") /\ NoElementFault /\ UNCHANGED fileLost
       \/ GoesTo(c, "copy") /\ ElementFault /\ fileLost' = fileLost \cup {"failed"}
    /\ KernelStays /\ UNCHANGED <<Kept, ElementRows, elementEdits>>

\* A confirmation window opens; when it ends, what is in force is persisted.
WindowOpens ==
    /\ ~windowOpen /\ ElementEdit /\ windowOpen' = TRUE
    /\ NoElementFault /\ KernelStays
    /\ UNCHANGED <<tableFile, tableCopy, dumps, ElementRows, elementCalls, fileLost>>

WindowEnds ==
    /\ windowOpen /\ windowOpen' = FALSE
    /\ tableFile' = Sanitized(elements)
    /\ fileLost' = fileLost \cap {"crossed"}
    /\ NoElementFault /\ KernelStays
    /\ UNCHANGED <<tableCopy, dumps, ElementRows, elementCalls, elementEdits>>

\* Mutant: what the boot file has is taken for all there is to block.
WithFileBlocks(table) == table

\* SincronizaBloqueiosPorMAC: every blocked host, by its physical address.
WithBlocks(table) == [table EXCEPT !.macs = @ \cup BlockedHosts]

\* The machine or only the daemon starts again: the boot file is loaded, or the
\* copy where the table had to be created, or the table is still there.
ElementRestart ==
    /\ ElementFault
    /\ \E table \in {elements, tableFile, tableCopy} :
         LET stale == table # elements /\ (table # tableFile \/ fileLost # {} \/ ~CallsIdle) IN
         /\ elements' = WithBlocks(table)
         /\ freeLost' = freeLost \cup Because("stale", stale \/ ~CallsIdle)
         /\ dnatLost' = dnatLost \cup Because("stale", stale \/ ~CallsIdle)
    /\ elementCalls' = [c \in ElementCalls |-> NoElementCall]
    /\ tableFile' = Sanitized(elements') /\ windowOpen' = FALSE
    /\ blockLost' = {} /\ fileLost' = {}
    /\ UNCHANGED <<tableCopy, dumps, ElementRows, elementEdits>>

ElementNext ==
    \/ \E c \in ElementCalls :
         \/ AsksElement(c) \/ WritesFlag(c) \/ SetsMac(c) \/ SetsIp(c) \/ SetsElement(c) \/ SetsForwards(c)
         \/ PersistReads(c) \/ PersistWrites(c) \/ SavesForwards(c) \/ Copies(c)
         \/ AsksRollback(c) \/ ChecksWindow(c) \/ RefusesDump(c) \/ RestoresDump(c)
         \/ ReconcilesDump(c)
    \/ Sighted \/ Contained \/ TakesDump \/ WindowOpens \/ WindowEnds \/ ElementRestart

ElementSpec == ElementInit /\ [][ElementNext]_elementVars

-----------------------------------------------------------------------------
\* Type invariant of the elements and of what keeps them.
ElementTypeOK ==
    /\ \A t \in {elements, tableFile, tableCopy} \cup dumps :
         /\ t.macs \subseteq LanHosts /\ t.ips \subseteq LanAddrs
         /\ t.listed \subseteq Listed /\ t.dnat \subseteq Forwards /\ t.contained \subseteq {"source"}
    /\ hostRows \in [LanHosts -> [blocked : BOOLEAN, ip : LanAddrs \cup {0}]]
    /\ forwardRows \subseteq Forwards /\ windowOpen \in BOOLEAN

\* Between calls a host whose row says blocked is in the set of physical
\* addresses, whatever was cut by a restart, unless nft refused it, two calls
\* for it crossed, or a rollback took it out.
BlockedIsEnforced ==
    (CallsIdle /\ blockLost = {}) => BlockedHosts \subseteq elements.macs

\* Between calls only blocked hosts are in the sets, by physical address or by
\* the address they were seen at, unless the address changed under the block,
\* two calls crossed, nft refused, or an older table came back.
UnblockedIsFree ==
    (CallsIdle /\ freeLost = {}) =>
      /\ elements.macs \subseteq BlockedHosts
      /\ elements.ips \subseteq {hostRows[h].ip : h \in BlockedHosts}

\* Between calls the boot file has the elements of the kernel, unless a window
\* held it back, a write failed, two calls crossed or only a physical address
\* was changed.
FileKeepsElements ==
    (CallsIdle /\ ~windowOpen /\ fileLost = {}) => tableFile = [elements EXCEPT !.contained = tableFile.contained]

\* What the kernel contained by itself never comes back with the boot file.
ContainedStaysOut == tableFile.contained = {}

\* Between calls the DNAT chain has the forwards of the setting, unless two
\* calls crossed, one failed halfway, or an older table came back.
ForwardsFollowRows ==
    (CallsIdle /\ dnatLost = {}) => elements.dnat = forwardRows
=============================================================================
