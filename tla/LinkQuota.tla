------------------------------- MODULE LinkQuota -------------------------------
(***************************************************************************)
(* How much one WAN link has carried in its billing cycle (linkquota).     *)
(* Unlike HostQuota the cycle is that of the flush, what a flush could not *)
(* write is lost, and the cycle seen last is known to the process only.    *)
(* A unit of traffic is named by the instant that measured it.             *)
(***************************************************************************)
EXTENDS Integers, FiniteSets

CONSTANTS
    Month,          \* instants in a billing cycle
    LinkInstants,   \* instants in a run: bound on time
    ClosingDays,    \* closing days an operator may choose, as offsets
    LinkLimit,      \* the quota, in units
    MaxLinkSaves, MaxLinkFaults, MaxLinkRestarts  \* bounds on what happens

ASSUME LinkQuotaAssumption ==
    /\ Month \in Nat \ {0} /\ LinkInstants \in Nat /\ LinkLimit \in Nat \ {0}
    /\ ClosingDays \subseteq 0..(Month - 1) /\ ClosingDays # {}
    /\ MaxLinkSaves \in Nat /\ MaxLinkFaults \in Nat /\ MaxLinkRestarts \in Nat

VARIABLES
    linkClock,   \* the instant that is being measured
    linkSeen,    \* instants whose traffic the sampler delivered
    linkPending, \* Service.pending of the link's interface
    linkUsage,   \* table link_usage: first instant of the cycle -> units
    linkQuota,   \* the link's row of link_quota
    linkOpen,    \* open alerts, with the cycle they were raised about
    linkCycle,   \* Service.lastCycle
    linkFlush,   \* the running Flush
    linkLost,    \* units a failure or a crash lost
    linkBlind,   \* the process forgot the cycle the open alerts are about
    linkSpent

linkVars == <<linkClock, linkSeen, linkPending, linkUsage, linkQuota, linkOpen, linkCycle,
              linkFlush, linkLost, linkBlind, linkSpent>>

\* CycleStart, shifted by a month so that it is never negative.
LinkCycle(t, day) == ((t + Month - day) \div Month) * Month + day
LinkCycles == {LinkCycle(t, d) : t \in 0..LinkInstants, d \in ClosingDays}
NoLinkCycle == 0 - 1
NoneLinkOpen == [warning |-> NoLinkCycle, exceeded |-> NoLinkCycle]
LinkQuotas == [limit : {0, LinkLimit}, day : ClosingDays]
IdleLinkFlush == [at |-> "idle"]

LinkInit ==
    /\ linkClock = 0 /\ linkSeen = {} /\ linkPending = {}
    /\ linkUsage = [c \in LinkCycles |-> {}]
    /\ linkQuota \in {q \in LinkQuotas : q.limit > 0}
    /\ linkOpen = NoneLinkOpen
    /\ linkCycle = NoLinkCycle
    /\ linkFlush = IdleLinkFlush
    /\ linkLost = {} /\ linkBlind = FALSE
    /\ linkSpent = [saves |-> 0, faults |-> 0, restarts |-> 0]

LinkFault ==
    /\ linkSpent.faults < MaxLinkFaults
    /\ linkSpent' = [linkSpent EXCEPT !.faults = @ + 1]

LinkMeasures ==
    /\ linkClock \notin linkSeen
    /\ linkSeen' = linkSeen \cup {linkClock}
    /\ linkPending' = linkPending \cup {linkClock}
    /\ UNCHANGED <<linkClock, linkUsage, linkQuota, linkOpen, linkCycle, linkFlush, linkLost,
                   linkBlind, linkSpent>>

LinkTimePasses ==
    /\ linkClock < LinkInstants
    /\ linkClock' = linkClock + 1
    /\ UNCHANGED <<linkSeen, linkPending, linkUsage, linkQuota, linkOpen, linkCycle, linkFlush,
                   linkLost, linkBlind, linkSpent>>

FlushCycle == LinkCycle(linkClock, linkQuota.day)

\* Flush drains the queue; when it cannot read the links or the quotas what
\* it drained is lost.
LinkFlushBegins ==
    /\ linkFlush.at = "idle"
    /\ linkPending' = {}
    /\ \/ /\ linkFlush' = [at |-> "write", drained |-> linkPending, quota |-> linkQuota,
                           cycle |-> FlushCycle]
          /\ UNCHANGED <<linkLost, linkSpent>>
       \/ /\ LinkFault
          /\ linkLost' = linkLost \cup linkPending
          /\ UNCHANGED linkFlush
    /\ UNCHANGED <<linkClock, linkSeen, linkUsage, linkQuota, linkOpen, linkCycle, linkBlind>>

\* Mutant: the flush keeps what it wrote in the queue.
LinkFlushWritesKept ==
    /\ linkFlush.at = "write"
    /\ linkUsage' = [linkUsage EXCEPT ![linkFlush.cycle] = @ \cup linkFlush.drained]
    /\ linkPending' = linkPending \cup linkFlush.drained
    /\ linkFlush' = [linkFlush EXCEPT !.at = "turn"]
    /\ UNCHANGED <<linkClock, linkSeen, linkQuota, linkOpen, linkCycle, linkLost, linkBlind, linkSpent>>

\* AddLinkUsage; on an error the link is left for the next flush.
LinkFlushWrites ==
    /\ linkFlush.at = "write"
    /\ \/ /\ linkUsage' = [linkUsage EXCEPT ![linkFlush.cycle] = @ \cup linkFlush.drained]
          /\ linkFlush' = [linkFlush EXCEPT !.at = "turn"]
          /\ UNCHANGED <<linkLost, linkSpent>>
       \/ /\ LinkFault /\ linkFlush.drained # {}
          /\ linkLost' = linkLost \cup linkFlush.drained
          /\ linkFlush' = IdleLinkFlush
          /\ UNCHANGED linkUsage
    /\ UNCHANGED <<linkClock, linkSeen, linkPending, linkQuota, linkOpen, linkCycle, linkBlind>>

Turned == linkCycle \notin {NoLinkCycle, linkFlush.cycle}

LinkFlushTurns ==
    /\ linkFlush.at = "turn"
    /\ linkOpen' = IF Turned THEN NoneLinkOpen ELSE linkOpen
    /\ linkBlind' = (linkBlind /\ ~Turned)
    /\ linkCycle' = linkFlush.cycle
    /\ linkFlush' = [linkFlush EXCEPT !.at = "evaluate"]
    /\ UNCHANGED <<linkClock, linkSeen, linkPending, linkUsage, linkQuota, linkLost, linkSpent>>

\* Create leaves an alert of the same type that is open as it is.
LinkRaised(kind) == [linkOpen EXCEPT ![kind] = IF @ = NoLinkCycle THEN linkFlush.cycle ELSE @]

LinkEvaluated(used, limit) ==
    IF limit = 0 \/ 2 * used < limit THEN linkOpen
    ELSE IF used >= limit THEN [LinkRaised("exceeded") EXCEPT !.warning = NoLinkCycle]
    ELSE LinkRaised("warning")

LinkFlushEvaluates ==
    /\ linkFlush.at = "evaluate"
    /\ \/ /\ linkOpen' = LinkEvaluated(Cardinality(linkUsage[linkFlush.cycle]), linkFlush.quota.limit)
          /\ UNCHANGED linkSpent
       \/ LinkFault /\ UNCHANGED linkOpen
    /\ linkFlush' = IdleLinkFlush
    /\ UNCHANGED <<linkClock, linkSeen, linkPending, linkUsage, linkQuota, linkCycle, linkLost, linkBlind>>

\* Save writes the row; Delete first closes the alerts, keeps the day, and may
\* fail between the two.
LinkSaves ==
    /\ linkSpent.saves < MaxLinkSaves
    /\ \/ \E q \in LinkQuotas \ {linkQuota} :
            /\ q.limit > 0
            /\ linkQuota' = q
            /\ UNCHANGED linkOpen
       \/ /\ linkOpen' = NoneLinkOpen
          /\ linkQuota' \in {linkQuota, [linkQuota EXCEPT !.limit = 0]}
    /\ linkSpent' = [linkSpent EXCEPT !.saves = @ + 1]
    /\ UNCHANGED <<linkClock, linkSeen, linkPending, linkUsage, linkCycle, linkFlush, linkLost, linkBlind>>

LinkRestart ==
    /\ linkSpent.restarts < MaxLinkRestarts
    /\ linkSpent' = [linkSpent EXCEPT !.restarts = @ + 1]
    /\ linkLost' = linkLost \cup linkPending
                   \cup (IF linkFlush.at = "write" THEN linkFlush.drained ELSE {})
    /\ linkPending' = {}
    /\ linkCycle' = NoLinkCycle
    /\ linkFlush' = IdleLinkFlush
    /\ linkBlind' = TRUE
    /\ UNCHANGED <<linkClock, linkSeen, linkUsage, linkQuota, linkOpen>>

LinkNext ==
    \/ LinkMeasures \/ LinkTimePasses \/ LinkSaves \/ LinkRestart
    \/ LinkFlushBegins \/ LinkFlushWrites \/ LinkFlushTurns \/ LinkFlushEvaluates

LinkQuotaSpec == LinkInit /\ [][LinkNext]_linkVars

-----------------------------------------------------------------------------
\* Type invariant of the quota of a link.
LinkQuotaTypeOK ==
    /\ linkClock \in 0..LinkInstants /\ linkSeen \subseteq 0..linkClock
    /\ linkPending \subseteq linkSeen /\ linkLost \subseteq linkSeen
    /\ \A c \in LinkCycles : linkUsage[c] \subseteq linkSeen
    /\ linkQuota \in LinkQuotas
    /\ \A kind \in {"warning", "exceeded"} : linkOpen[kind] \in LinkCycles \cup {NoLinkCycle}
    /\ linkCycle \in LinkCycles \cup {NoLinkCycle}
    /\ linkFlush.at \in {"idle", "write", "turn", "evaluate"}
    /\ linkBlind \in BOOLEAN
    /\ linkSpent \in [saves : 0..MaxLinkSaves, faults : 0..MaxLinkFaults, restarts : 0..MaxLinkRestarts]

\* AddLinkUsage: a unit is counted once at most, and one that is counted
\* nowhere waits for the next flush or was lost by a failure or a crash.
LinkUnitOnce ==
    LET waiting == linkPending \cup (IF linkFlush.at = "write" THEN linkFlush.drained ELSE {})
        counted == UNION {linkUsage[c] : c \in LinkCycles}
    IN /\ counted \cup waiting \cup linkLost = linkSeen
       /\ counted \cap waiting = {} /\ linkLost \cap (counted \cup waiting) = {}
       /\ \A c \in LinkCycles, d \in LinkCycles : c # d => linkUsage[c] \cap linkUsage[d] = {}

\* Flush: the alerts of a cycle are closed when it turns, or its closing day
\* moves, so that between flushes an open one is about the cycle evaluated
\* last, and never two at once; a restart makes the process forget the cycle.
LinkAlertsTurn ==
    linkFlush.at = "idle" /\ linkCycle # NoLinkCycle /\ ~linkBlind =>
      /\ \A kind \in {"warning", "exceeded"} : linkOpen[kind] \in {NoLinkCycle, linkCycle}
      /\ linkOpen.warning = NoLinkCycle \/ linkOpen.exceeded = NoLinkCycle
=============================================================================
