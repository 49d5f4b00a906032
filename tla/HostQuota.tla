------------------------------- MODULE HostQuota -------------------------------
(***************************************************************************)
(* How much one device of the LAN has used in its cycle (hostquota): the   *)
(* sampler leaves bytes in memory with the instant of their measurement,   *)
(* Flush moves them to the row of the cycle that instant belongs to, sees  *)
(* the cycle turn, and warns when the quota is near or gone; the panel     *)
(* changes the quota meanwhile.  Each instant measures one unit of         *)
(* traffic, named by the instant, so that the usage of a cycle is a set.   *)
(* Devices share no row and one is enough; closing days other than the     *)
(* first, names and the wording of the alerts are left out.                *)
(***************************************************************************)
EXTENDS Naturals, FiniteSets

CONSTANTS
    Day,          \* instants in a day; a month has two days
    LastInstant,  \* the run ends here: bound on time
    Limits,       \* limits an operator may declare; 0 removes the quota
    MaxSaves,     \* bound on Save and Delete
    MaxQuotaFaults,  \* bound on database errors
    MaxQuotaRestarts \* bound on crashes of the process

ASSUME QuotaAssumption ==
    /\ Day \in Nat \ {0} /\ LastInstant \in Nat
    /\ Limits \subseteq Nat
    /\ MaxSaves \in Nat /\ MaxQuotaFaults \in Nat /\ MaxQuotaRestarts \in Nat

VARIABLES
    clock,       \* the instant that is being measured
    measured,    \* instants whose traffic the sampler delivered
    pending,     \* Service.pending: measured, not yet taken by a flush
    usage,       \* table host_usage: cycle -> units counted in it
    quota,       \* the device's row of host_quota (limit 0: none declared)
    openQuota,   \* its open alerts, and the cycle each was raised about
    lastCycle,   \* Service.lastCycle, memory
    flush,       \* the running Flush
    save,        \* the running Save or Delete
    gone,        \* units lost with the memory of a process
    moved,       \* units a change of period moved to another cycle
    blind,       \* a turn may go unseen: a flush wrote first, a save crossed it, or
                 \* a process began with the rows of a period that was changed
    quotaSpent   \* saves, faults and restarts so far

quotaVars == <<clock, measured, pending, usage, quota, openQuota, lastCycle, flush, save,
               gone, moved, blind, quotaSpent>>

Instants == 0..LastInstant
Periods == {"daily", "monthly"}
Length(period) == IF period = "daily" THEN Day ELSE 2 * Day

\* CycleStart: the key of a cycle is its period and its first instant; a
\* month starts at the instant one of its days does.
CycleOf(t, period) == [period |-> period, start |-> (t \div Length(period)) * Length(period)]
Cycles == {CycleOf(t, p) : t \in Instants, p \in Periods}
NoCycle == [period |-> "none", start |-> 0]
In(t, c) == c.start <= t /\ t < c.start + Length(c.period)

Quotas == [limit : Limits \cup {0}, period : Periods]
AlertOn == [warning : Cycles \cup {NoCycle}, exceeded : Cycles \cup {NoCycle}]
NoneOpen == [warning |-> NoCycle, exceeded |-> NoCycle]

IdleFlush == [at |-> "idle"]
IdleSave == [at |-> "idle"]

QuotaInit ==
    /\ clock = 0
    /\ measured = {} /\ pending = {}
    /\ usage = [c \in Cycles |-> {}]
    /\ quota \in {q \in Quotas : q.limit > 0}
    /\ openQuota = NoneOpen
    /\ lastCycle = NoCycle
    /\ flush = IdleFlush /\ save = IdleSave
    /\ gone = {} /\ moved = {} /\ blind = FALSE
    /\ quotaSpent = [saves |-> 0, faults |-> 0, restarts |-> 0]

QuotaFault ==
    /\ quotaSpent.faults < MaxQuotaFaults
    /\ quotaSpent' = [quotaSpent EXCEPT !.faults = @ + 1]

-----------------------------------------------------------------------------
(* The sampler.                                                            *)

\* AddHostBytes: the instant travels with the bytes.
Measure ==
    /\ clock \notin measured
    /\ measured' = measured \cup {clock}
    /\ pending' = pending \cup {clock}
    /\ UNCHANGED <<clock, usage, quota, openQuota, lastCycle, flush, save, gone, moved, blind,
                   quotaSpent>>

TimePasses ==
    /\ clock < LastInstant
    /\ clock' = clock + 1
    /\ UNCHANGED <<measured, pending, usage, quota, openQuota, lastCycle, flush, save, gone, moved,
                   blind, quotaSpent>>

-----------------------------------------------------------------------------
(* Flush.                                                                  *)

\* The queue is taken whole; without the quotas it is given back as it was.
FlushDrains ==
    /\ flush.at = "idle"
    /\ \/ /\ flush' = [at |-> "write", drained |-> pending, unsaved |-> {}, wrote |-> FALSE,
                       quota |-> quota, cycle |-> CycleOf(clock, quota.period)]
          /\ pending' = {}
          /\ blind' = (blind \/ save.at # "idle")
          /\ UNCHANGED quotaSpent
       \/ QuotaFault /\ UNCHANGED <<pending, flush, blind>>
    /\ UNCHANGED <<clock, measured, usage, quota, openQuota, lastCycle, save, gone, moved>>

CountedIn(t) == CycleOf(t, flush.quota.period)

\* AddHostUsage, once for each instant that was drained.
FlushWrites ==
    /\ flush.at = "write"
    /\ \E t \in flush.drained :
         \/ /\ usage' = [usage EXCEPT ![CountedIn(t)] = @ \cup {t}]
            /\ flush' = [flush EXCEPT !.drained = @ \ {t}, !.wrote = TRUE]
            /\ UNCHANGED quotaSpent
         \/ /\ QuotaFault
            /\ flush' = [flush EXCEPT !.drained = @ \ {t}, !.unsaved = @ \cup {t}]
            /\ UNCHANGED usage
    /\ UNCHANGED <<clock, measured, pending, quota, openQuota, lastCycle, save, gone, moved, blind>>

\* devolver: what could not be written goes back, added to what came since.
Returned == pending \cup flush.unsaved

\* cicloNoDisco: the newest cycle that has a row; of two that start together
\* either may come first.
OnDisk ==
    LET rows == {c \in Cycles : usage[c] # {}}
    IN {c \in rows : \A d \in rows : d.start <= c.start} \cup (IF rows = {} THEN {NoCycle} ELSE {})

Before == IF lastCycle # NoCycle THEN {lastCycle} ELSE OnDisk

\* When the cycle is not the one before, both alerts are resolved.
FlushSeesTurn ==
    /\ flush.at = "write" /\ flush.drained = {}
    /\ pending' = Returned
    /\ \E before \in Before :
         LET turned == before \notin {NoCycle, flush.cycle} IN
         /\ openQuota' = IF turned THEN NoneOpen ELSE openQuota
         /\ blind' = (~turned /\ (blind \/ (lastCycle = NoCycle /\ flush.wrote)))
    /\ lastCycle' = flush.cycle
    /\ flush' = [flush EXCEPT !.at = "evaluate", !.unsaved = {}]
    /\ UNCHANGED <<clock, measured, usage, quota, save, gone, moved, quotaSpent>>

\* evaluate: Create leaves an alert of the same type that is open as it is.
Raised(kind) == [openQuota EXCEPT ![kind] = IF @ = NoCycle THEN flush.cycle ELSE @]

Evaluated(used) ==
    LET limit == flush.quota.limit IN
    IF limit = 0 \/ 2 * used < limit THEN openQuota
    ELSE IF used >= limit THEN [Raised("exceeded") EXCEPT !.warning = NoCycle]
    ELSE Raised("warning")

FlushEvaluates ==
    /\ flush.at = "evaluate"
    /\ \/ /\ openQuota' = Evaluated(Cardinality(usage[flush.cycle]))
          /\ UNCHANGED quotaSpent
       \/ QuotaFault /\ UNCHANGED openQuota
    /\ flush' = IdleFlush
    /\ UNCHANGED <<clock, measured, pending, usage, quota, lastCycle, save, gone, moved, blind>>

FlushStep == FlushWrites \/ FlushSeesTurn \/ FlushEvaluates

-----------------------------------------------------------------------------
(* The panel.                                                              *)

MovedUsage(from, to) == [usage EXCEPT ![to] = @ \cup usage[from], ![from] = {}]

SaveBegins ==
    /\ save.at = "idle"
    /\ quotaSpent.saves < MaxSaves

\* MoveHostUsage, one transaction: when the period changes, what the current
\* cycle used follows the key; then the alerts are resolved.
SaveMoves ==
    /\ SaveBegins
    /\ \E q \in Quotas :
         /\ q.limit > 0 /\ q.period # quota.period
         /\ LET from == CycleOf(clock, quota.period)
                to == CycleOf(clock, q.period)
            IN usage' = MovedUsage(from, to) /\ moved' = moved \cup usage[from]
         /\ save' = [at |-> "store", new |-> q]
    /\ openQuota' = NoneOpen
    /\ blind' = (blind \/ flush.at # "idle")
    /\ quotaSpent' = [quotaSpent EXCEPT !.saves = @ + 1]
    /\ UNCHANGED <<clock, measured, pending, quota, lastCycle, flush, gone>>

\* Save of the same period.  Delete keeps the row, and so the key of the
\* cycle, with limit zero; it closes the alerts first.
SaveOrDelete ==
    /\ SaveBegins
    /\ \E q \in Quotas \ {quota} :
         /\ q.period = quota.period
         /\ save' = [at |-> "store", new |-> q]
         /\ openQuota' = IF q.limit = 0 THEN NoneOpen ELSE openQuota
    /\ quotaSpent' = [quotaSpent EXCEPT !.saves = @ + 1]
    /\ UNCHANGED <<clock, measured, pending, usage, quota, lastCycle, flush, gone, moved, blind>>

SaveStores ==
    /\ save.at = "store"
    /\ \/ quota' = save.new /\ UNCHANGED quotaSpent
       \/ QuotaFault /\ UNCHANGED quota
    /\ save' = IdleSave
    /\ UNCHANGED <<clock, measured, pending, usage, openQuota, lastCycle, flush, gone, moved, blind>>

\* Rows of both periods: two of them may start together, and cicloNoDisco may
\* take for the cycle before one that was not evaluated last.
BothPeriods == \E c, d \in Cycles : usage[c] # {} /\ usage[d] # {} /\ c.period # d.period

\* A crash loses what was in memory.
QuotaRestart ==
    /\ quotaSpent.restarts < MaxQuotaRestarts
    /\ quotaSpent' = [quotaSpent EXCEPT !.restarts = @ + 1]
    /\ gone' = gone \cup pending
               \cup (IF flush.at = "write" THEN flush.drained \cup flush.unsaved ELSE {})
    /\ pending' = {}
    /\ lastCycle' = NoCycle
    /\ flush' = IdleFlush /\ save' = IdleSave
    /\ blind' = (blind \/ moved # {} \/ BothPeriods \/ (flush.at = "write" /\ flush.wrote))
    /\ UNCHANGED <<clock, measured, usage, quota, openQuota, moved>>

QuotaNext ==
    \/ Measure \/ TimePasses \/ QuotaRestart
    \/ FlushDrains \/ FlushStep
    \/ SaveMoves \/ SaveOrDelete \/ SaveStores

QuotaSpec == QuotaInit /\ [][QuotaNext]_quotaVars

-----------------------------------------------------------------------------
\* Type invariant of the quota of a device.
QuotaTypeOK ==
    /\ clock \in Instants
    /\ measured \subseteq Instants /\ pending \subseteq measured
    /\ \A c \in Cycles : usage[c] \subseteq measured
    /\ quota \in Quotas
    /\ openQuota \in AlertOn
    /\ lastCycle \in Cycles \cup {NoCycle}
    /\ flush.at \in {"idle", "write", "evaluate"}
    /\ save.at \in {"idle", "store"}
    /\ gone \subseteq measured /\ moved \subseteq measured
    /\ blind \in BOOLEAN
    /\ quotaSpent \in [saves : 0..MaxSaves, faults : 0..MaxQuotaFaults, restarts : 0..MaxQuotaRestarts]

InFlush == IF flush.at = "write" THEN flush.drained \cup flush.unsaved ELSE {}

\* devolver, MoveHostUsage: whatever fails, a unit that was measured is in one
\* place and one only: the queue, the flush, one row, or a process that died.
EachUnitOnce ==
    /\ pending \cup InFlush \cup gone \cup UNION {usage[c] : c \in Cycles} = measured
    /\ pending \cap InFlush = {} /\ (pending \cup InFlush) \cap gone = {}
    /\ \A c \in Cycles :
         /\ usage[c] \cap (pending \cup InFlush \cup gone) = {}
         /\ \A d \in Cycles \ {c} : usage[c] \cap usage[d] = {}

\* "The instant of the measurement travels with the byte": no row counts a
\* unit measured outside its cycle, unless a change of period moved it there.
CountedInItsCycle == \A c \in Cycles : \A t \in usage[c] \ moved : In(t, c)

OpenAlertsAreOf(cycle) == \A kind \in {"warning", "exceeded"} : openQuota[kind] \in {NoCycle, cycle}

\* Flush: between flushes an alert that is open is about the cycle the last of
\* them evaluated, even after a restart, if that restart's first flush had
\* nothing to write, the rows were all of one period and were never moved, and
\* no change of period crossed a flush.
AlertsTurn == flush.at = "idle" /\ lastCycle # NoCycle /\ ~blind => OpenAlertsAreOf(lastCycle)

\* cicloNoDisco: the same, whatever the first flush of a process has to write.
AlertsTurnAfterRestart == flush.at = "idle" /\ lastCycle # NoCycle => OpenAlertsAreOf(lastCycle)
=============================================================================
