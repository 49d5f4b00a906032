----------------------------- MODULE MachineProofs -----------------------------
(***************************************************************************)
(* What the services of the machine guarantee for every period, limit,     *)
(* name, address and file, and for every bound: the traffic of a host and  *)
(* of a link is counted once, the alerts of a quota follow its cycle, a    *)
(* name shown as updated is what the provider answers, a change of address *)
(* on trial is undone unless it was confirmed, the chains of the firewall  *)
(* hold what the rows ask for, DHCP and DNS serve what their row says,     *)
(* each recovery announced follows an outage of its own, a row or a lease  *)
(* explains every queue, the index of domains holds what the kernel has    *)
(* (ServiceProofs), and each reading is in the row of its window once.     *)
(*                                                                         *)
(* Each service has an inductive invariant of its own, and a step of the   *)
(* machine is a step of the service it follows (FollowsService).           *)
(***************************************************************************)
EXTENDS MCMachine, ServiceProofs, TLAPS, FiniteSetTheorems

-----------------------------------------------------------------------------
(* Cycles *)

\* A window of n instants, the one t falls in.
LEMMA WindowOf ==
    ASSUME NEW t \in Nat, NEW n \in Nat \ {0}
    PROVE  /\ (t \div n) \in Nat /\ (t \div n) * n \in Nat
           /\ (t \div n) * n <= t /\ t < (t \div n) * n + n
OBVIOUS

\* Of two windows of n instants, one that does not begin after the other ends
\* does not begin after it.
LEMMA OneWindow ==
    ASSUME NEW k \in Nat, NEW m \in Nat, NEW n \in Nat \ {0}, m * n <= k * n, k * n < m * n + n
    PROVE  k = m
OBVIOUS

-----------------------------------------------------------------------------
(* The quota of a device: what it used *)

End(c) == c.start + Length(c.period)
Counted == UNION {usage[c] : c \in Cycles}
FlushSet == [at : {"write", "evaluate"}, drained : SUBSET Instants, unsaved : SUBSET Instants,
             wrote : BOOLEAN, quota : Quotas, cycle : Cycles]

QuotaShape ==
    /\ clock \in Instants
    /\ measured \subseteq Instants /\ \A t \in measured : t <= clock
    /\ pending \subseteq measured
    /\ usage \in [Cycles -> SUBSET measured]
    /\ quota \in Quotas
    /\ openQuota \in AlertOn
    /\ lastCycle \in Cycles \cup {NoCycle}
    /\ flush \in {IdleFlush} \cup FlushSet
    /\ flush.at = "write" => flush.drained \cup flush.unsaved \subseteq measured
                             /\ flush.drained \cap flush.unsaved = {}
    /\ save \in {IdleSave} \cup [at : {"store"}, new : Quotas]
    /\ gone \subseteq measured /\ moved \subseteq measured
    /\ blind \in BOOLEAN

\* A unit that no change of period moved is in the cycle of its own instant.
CountedWhereMeasured ==
    \A c \in Cycles : \A t \in usage[c] \ moved : c = CycleOf(t, c.period)

LEMMA LengthIsPositive == \A p : Length(p) \in Nat \ {0}
BY QuotaAssumption DEF Length

LEMMA CycleFacts ==
    /\ \A t \in Instants, p \in Periods : CycleOf(t, p) \in Cycles /\ CycleOf(t, p).period = p
    /\ \A c \in Cycles : \E t \in Instants, p \in Periods : c = CycleOf(t, p)
    /\ NoCycle \notin Cycles
    /\ \A t \in Instants, p \in Periods : In(t, CycleOf(t, p)) /\ t < End(CycleOf(t, p))
<1>1. \A t \in Instants, p \in Periods : CycleOf(t, p) \in Cycles /\ CycleOf(t, p).period = p
  BY DEF Cycles, CycleOf
<1>2. \A c \in Cycles : \E t \in Instants, p \in Periods : c = CycleOf(t, p)
  BY DEF Cycles
<1>3. \A c \in Cycles : c.period \in Periods
  BY <1>1, <1>2
<1>4. NoCycle \notin Cycles
  BY <1>3 DEF NoCycle, Periods
<1>5. ASSUME NEW t \in Instants, NEW p \in Periods
      PROVE  In(t, CycleOf(t, p)) /\ t < End(CycleOf(t, p))
  <2>1. t \in Nat /\ Length(p) \in Nat \ {0}
    BY LengthIsPositive, QuotaAssumption DEF Instants
  <2>2. /\ (t \div Length(p)) * Length(p) <= t
        /\ t < (t \div Length(p)) * Length(p) + Length(p)
    BY <2>1, WindowOf
  <2> QED  BY <2>2 DEF In, End, CycleOf
<1> QED  BY <1>1, <1>2, <1>4, <1>5

LEMMA QuotaStarts == QuotaInit => QuotaShape
<1> SUFFICES ASSUME QuotaInit PROVE QuotaShape
  OBVIOUS
<1>1. clock \in Instants
  BY QuotaAssumption DEF QuotaInit, Instants
<1>2. openQuota \in AlertOn
  BY DEF QuotaInit, NoneOpen, AlertOn
<1>3. flush.at # "write"
  BY DEF QuotaInit, IdleFlush
<1> QED  BY <1>1, <1>2, <1>3 DEF QuotaInit, QuotaShape

\* Where the flush is, and what it holds there.
LEMMA FlushFacts ==
    ASSUME QuotaShape
    PROVE  /\ flush.at \in {"idle", "write", "evaluate"}
           /\ flush.at # "idle" => /\ flush \in FlushSet /\ flush.cycle \in Cycles
                                   /\ flush.quota \in Quotas /\ flush.wrote \in BOOLEAN
                                   /\ flush.drained \subseteq Instants /\ flush.unsaved \subseteq Instants
           /\ \A t \in flush.drained : flush.at = "write" => CountedIn(t) \in Cycles
<1>1. flush = IdleFlush \/ flush \in FlushSet
  BY DEF QuotaShape
<1>2. CASE flush = IdleFlush
  BY <1>2 DEF IdleFlush
<1>3. CASE flush \in FlushSet
  <2>1. /\ flush.cycle \in Cycles /\ flush.quota \in Quotas /\ flush.wrote \in BOOLEAN
        /\ flush.drained \subseteq Instants /\ flush.unsaved \subseteq Instants
        /\ flush.at \in {"write", "evaluate"}
    BY <1>3 DEF FlushSet
  <2>2. flush.quota.period \in Periods
    BY <2>1 DEF Quotas
  <2>3. \A t \in flush.drained : CountedIn(t) \in Cycles
    BY <2>1, <2>2, CycleFacts DEF CountedIn
  <2> QED  BY <1>3, <2>1, <2>3
<1> QED  BY <1>1, <1>2, <1>3

LEMMA QuotaShapeStep ==
    ASSUME QuotaShape, [QuotaNext]_quotaVars
    PROVE  QuotaShape'
<1> USE DEF QuotaShape
<1>1. CASE Measure
  <2>1. usage' \in [Cycles -> SUBSET measured']
    BY <1>1 DEF Measure
  <2>2. measured' \subseteq Instants /\ \A t \in measured' : t <= clock'
    BY <1>1, QuotaAssumption DEF Measure, Instants
  <2> QED  BY <1>1, <2>1, <2>2 DEF Measure
<1>2. CASE TimePasses
  <2>1. clock' \in Instants /\ \A t \in measured' : t <= clock'
    BY <1>2, QuotaAssumption DEF TimePasses, Instants
  <2> QED  BY <1>2, <2>1 DEF TimePasses
<1>3. CASE QuotaRestart
  <2>1. flush'.at # "write" /\ gone' \subseteq measured /\ blind' \in BOOLEAN
    BY <1>3 DEF QuotaRestart, IdleFlush
  <2> QED  BY <1>3, <2>1 DEF QuotaRestart
<1>4. CASE FlushDrains
  <2>1. CASE UNCHANGED <<pending, flush, blind>>
    BY <1>4, <2>1 DEF FlushDrains
  <2>2. CASE flush' = [at |-> "write", drained |-> pending, unsaved |-> {}, wrote |-> FALSE,
                       quota |-> quota, cycle |-> CycleOf(clock, quota.period)]
             /\ pending' = {} /\ blind' = (blind \/ save.at # "idle")
    <3>1. CycleOf(clock, quota.period) \in Cycles
      BY CycleFacts DEF Quotas
    <3>2. flush' \in FlushSet
      BY <2>2, <3>1 DEF FlushSet
    <3>3. flush'.drained = pending /\ flush'.unsaved = {} /\ flush'.at = "write"
      BY <2>2
    <3>4. blind' \in BOOLEAN
      BY <2>2
    <3>5. UNCHANGED <<clock, measured, usage, quota, openQuota, lastCycle, save, gone, moved>>
      BY <1>4 DEF FlushDrains
    <3> QED  BY <2>2, <3>2, <3>3, <3>4, <3>5
  <2> QED  BY <1>4, <2>1, <2>2 DEF FlushDrains
<1>5. CASE FlushWrites
  <2>1. PICK t \in flush.drained :
         \/ /\ usage' = [usage EXCEPT ![CountedIn(t)] = @ \cup {t}]
            /\ flush' = [flush EXCEPT !.drained = @ \ {t}, !.wrote = TRUE]
         \/ /\ flush' = [flush EXCEPT !.drained = @ \ {t}, !.unsaved = @ \cup {t}]
            /\ UNCHANGED usage
    BY <1>5 DEF FlushWrites
  <2>2. flush \in FlushSet /\ flush.at = "write" /\ t \in measured /\ t \in Instants /\ CountedIn(t) \in Cycles
    BY <1>5, FlushFacts DEF FlushWrites
  <2>3. /\ flush' \in FlushSet /\ flush'.drained = flush.drained \ {t}
        /\ flush'.unsaved = flush.unsaved \/ flush'.unsaved = flush.unsaved \cup {t}
    <3>1. CASE flush' = [flush EXCEPT !.drained = @ \ {t}, !.wrote = TRUE]
      BY <2>2, <3>1 DEF FlushSet
    <3>2. CASE flush' = [flush EXCEPT !.drained = @ \ {t}, !.unsaved = @ \cup {t}]
      BY <2>2, <3>2 DEF FlushSet
    <3> QED  BY <2>1, <3>1, <3>2
  <2>4. usage' \in [Cycles -> SUBSET measured]
    BY <2>1, <2>2
  <2> QED  BY <1>5, <2>2, <2>3, <2>4 DEF FlushWrites
<1>6. CASE FlushSeesTurn
  <2>1. flush \in FlushSet /\ flush.cycle \in Cycles /\ flush.unsaved \subseteq measured
    BY <1>6, FlushFacts DEF FlushSeesTurn
  <2>2. flush' \in FlushSet /\ flush'.at = "evaluate"
    BY <1>6, <2>1 DEF FlushSeesTurn, FlushSet
  <2>3. openQuota' \in AlertOn
    BY <1>6 DEF FlushSeesTurn, NoneOpen, AlertOn
  <2>4. blind' \in BOOLEAN
    BY <1>6 DEF FlushSeesTurn
  <2> QED  BY <1>6, <2>1, <2>2, <2>3, <2>4 DEF FlushSeesTurn, Returned
<1>7. CASE FlushEvaluates
  <2>1. flush.cycle \in Cycles
    BY <1>7, FlushFacts DEF FlushEvaluates
  <2>2. openQuota' \in AlertOn
    BY <1>7, <2>1 DEF FlushEvaluates, Evaluated, Raised, AlertOn
  <2>3. flush'.at # "write"
    BY <1>7 DEF FlushEvaluates, IdleFlush
  <2> QED  BY <1>7, <2>2, <2>3 DEF FlushEvaluates
<1>8. CASE SaveMoves
  <2>1. PICK q \in Quotas :
          /\ q.period # quota.period
          /\ usage' = MovedUsage(CycleOf(clock, quota.period), CycleOf(clock, q.period))
          /\ moved' = moved \cup usage[CycleOf(clock, quota.period)]
          /\ save' = [at |-> "store", new |-> q]
    BY <1>8 DEF SaveMoves
  <2>2. CycleOf(clock, quota.period) \in Cycles /\ CycleOf(clock, q.period) \in Cycles
    BY CycleFacts DEF Quotas
  <2>3. usage' \in [Cycles -> SUBSET measured] /\ moved' \subseteq measured
    BY <2>1, <2>2 DEF MovedUsage
  <2>4. openQuota' \in AlertOn /\ blind' \in BOOLEAN
    BY <1>8 DEF SaveMoves, NoneOpen, AlertOn
  <2> QED  BY <1>8, <2>1, <2>3, <2>4 DEF SaveMoves
<1>9. CASE SaveOrDelete
  <2>1. openQuota' \in AlertOn
    BY <1>9 DEF SaveOrDelete, NoneOpen, AlertOn
  <2> QED  BY <1>9, <2>1 DEF SaveOrDelete
<1>10. CASE SaveStores
  <2>1. save.new \in Quotas
    BY <1>10 DEF SaveStores, IdleSave
  <2> QED  BY <1>10, <2>1 DEF SaveStores
<1>11. CASE UNCHANGED quotaVars
  BY <1>11 DEF quotaVars
<1> QED
  BY <1>1, <1>2, <1>3, <1>4, <1>5, <1>6, <1>7, <1>8, <1>9, <1>10, <1>11 DEF QuotaNext, FlushStep
LEMMA InSomeCycle == \A f, S, t : t \in UNION {f[c] : c \in S} <=> \E c \in S : t \in f[c]
OBVIOUS

\* Traffic goes from the queue to a flush, and from there to one row or back.
LEMMA UnitsStep ==
    ASSUME QuotaShape, EachUnitOnce, [QuotaNext]_quotaVars
    PROVE  EachUnitOnce'
<1> USE DEF EachUnitOnce
<1>1. CASE Measure
  <2>1. clock \notin pending \cup InFlush \cup gone \cup UNION {usage[c] : c \in Cycles}
    BY <1>1 DEF Measure
  <2>2. InFlush' = InFlush
    BY <1>1 DEF Measure, InFlush
  <2> QED  BY <1>1, <2>1, <2>2 DEF Measure
<1>2. ASSUME UNCHANGED <<measured, pending, usage, flush, gone>>
      PROVE  EachUnitOnce'
  BY <1>2 DEF InFlush
<1>3. CASE QuotaRestart
  <2>1. InFlush' = {}
    BY <1>3 DEF QuotaRestart, InFlush, IdleFlush
  <2>2. gone' = gone \cup pending \cup InFlush /\ pending' = {} /\ UNCHANGED <<measured, usage>>
    BY <1>3 DEF QuotaRestart, InFlush
  <2> QED  BY <2>1, <2>2
<1>4. CASE FlushDrains
  <2>1. CASE UNCHANGED <<pending, flush, blind>>
    BY <1>2, <1>4, <2>1 DEF FlushDrains
  <2>2. CASE flush' = [at |-> "write", drained |-> pending, unsaved |-> {}, wrote |-> FALSE,
                       quota |-> quota, cycle |-> CycleOf(clock, quota.period)]
             /\ pending' = {}
    <3>1. InFlush = {} /\ InFlush' = pending
      BY <1>4, <2>2 DEF FlushDrains, InFlush
    <3> QED  BY <1>4, <2>2, <3>1 DEF FlushDrains
  <2> QED  BY <1>4, <2>1, <2>2 DEF FlushDrains
<1>5. CASE FlushWrites
  <2>1. PICK t \in flush.drained :
         \/ /\ usage' = [usage EXCEPT ![CountedIn(t)] = @ \cup {t}]
            /\ flush' = [flush EXCEPT !.drained = @ \ {t}, !.wrote = TRUE]
         \/ /\ flush' = [flush EXCEPT !.drained = @ \ {t}, !.unsaved = @ \cup {t}]
            /\ UNCHANGED usage
    BY <1>5 DEF FlushWrites
  <2>2. /\ flush \in FlushSet /\ flush.at = "write" /\ CountedIn(t) \in Cycles
        /\ flush.drained \cap flush.unsaved = {} /\ InFlush = flush.drained \cup flush.unsaved
        /\ t \in InFlush
    BY <1>5, FlushFacts DEF FlushWrites, QuotaShape, InFlush
  <2>3. CASE /\ usage' = [usage EXCEPT ![CountedIn(t)] = @ \cup {t}]
             /\ flush' = [flush EXCEPT !.drained = @ \ {t}, !.wrote = TRUE]
    <3>1. InFlush' = InFlush \ {t}
      BY <2>2, <2>3 DEF InFlush, FlushSet
    <3>2. \A c \in Cycles : usage'[c] = IF c = CountedIn(t) THEN usage[c] \cup {t} ELSE usage[c]
      BY <2>3 DEF QuotaShape
    <3>3. UNION {usage'[c] : c \in Cycles} = (UNION {usage[c] : c \in Cycles}) \cup {t}
      <4>1. \A u : (\E c \in Cycles : u \in usage'[c]) <=> (\E c \in Cycles : u \in usage[c]) \/ u = t
        BY <2>2, <3>2
      <4> QED  BY <4>1, InSomeCycle
    <3>4. UNCHANGED <<measured, pending, gone>>
      BY <1>5 DEF FlushWrites
    <3>5. \A c \in Cycles : t \notin usage[c] /\ t \notin pending /\ t \notin gone
      BY <2>2
    <3>6. pending' \cup InFlush' \cup gone' \cup UNION {usage'[c] : c \in Cycles} = measured'
      <4> DEFINE all == UNION {usage[c] : c \in Cycles}
      <4>1. pending \cup InFlush \cup gone \cup all = measured
        OBVIOUS
      <4> HIDE DEF all
      <4>2. pending \cup (InFlush \ {t}) \cup gone \cup (all \cup {t}) = measured
        BY <2>2, <4>1
      <4> QED  BY <3>1, <3>3, <3>4, <4>2 DEF all
    <3>7. pending' \cap InFlush' = {} /\ (pending' \cup InFlush') \cap gone' = {}
      BY <3>1, <3>4
    <3>8. ASSUME NEW c \in Cycles
          PROVE  usage'[c] \cap (pending' \cup InFlush' \cup gone') = {}
      <4>1. usage[c] \cap (pending \cup InFlush \cup gone) = {}
        OBVIOUS
      <4>2. usage'[c] \subseteq usage[c] \cup {t}
        BY <3>2
      <4> QED  BY <3>1, <3>4, <3>5, <4>1, <4>2
    <3>9. ASSUME NEW c \in Cycles, NEW d \in Cycles \ {c}
          PROVE  usage'[c] \cap usage'[d] = {}
      <4>1. usage[c] \cap usage[d] = {}
        OBVIOUS
      <4> QED  BY <3>2, <3>5, <4>1
    <3> QED  BY <3>6, <3>7, <3>8, <3>9
  <2>4. CASE /\ flush' = [flush EXCEPT !.drained = @ \ {t}, !.unsaved = @ \cup {t}]
             /\ UNCHANGED usage
    <3>1. InFlush' = InFlush
      BY <2>2, <2>4 DEF InFlush, FlushSet
    <3> QED  BY <1>5, <2>4, <3>1 DEF FlushWrites
  <2> QED  BY <2>1, <2>3, <2>4
<1>6. CASE FlushSeesTurn
  <2>1. InFlush = flush.unsaved /\ pending' = pending \cup InFlush
    BY <1>6 DEF FlushSeesTurn, Returned, InFlush
  <2>2. InFlush' = {}
    BY <1>6, FlushFacts DEF FlushSeesTurn, InFlush, FlushSet
  <2> QED  BY <1>6, <2>1, <2>2 DEF FlushSeesTurn
<1>7. CASE FlushEvaluates
  <2>1. InFlush' = {} /\ InFlush = {}
    BY <1>7 DEF FlushEvaluates, InFlush, IdleFlush
  <2> QED  BY <1>7, <2>1 DEF FlushEvaluates
<1>8. CASE SaveMoves
  <2>1. PICK q \in Quotas :
          /\ q.period # quota.period
          /\ usage' = MovedUsage(CycleOf(clock, quota.period), CycleOf(clock, q.period))
    BY <1>8 DEF SaveMoves
  <2> DEFINE from == CycleOf(clock, quota.period)
             to == CycleOf(clock, q.period)
  <2>2. from \in Cycles /\ to \in Cycles /\ from # to
    <3>1. quota.period \in Periods /\ q.period \in Periods /\ clock \in Instants
      BY DEF Quotas, QuotaShape
    <3>2. from \in Cycles /\ to \in Cycles /\ from.period = quota.period /\ to.period = q.period
      BY <3>1, CycleFacts
    <3> QED  BY <2>1, <3>2
  <2>3. usage' = [usage EXCEPT ![to] = @ \cup usage[from], ![from] = {}]
    BY <2>1 DEF MovedUsage
  <2> HIDE DEF from, to
  <2>4. \A c \in Cycles : usage'[c] = IF c = from THEN {} ELSE IF c = to THEN usage[to] \cup usage[from] ELSE usage[c]
    BY <2>2, <2>3 DEF QuotaShape
  <2>5. UNION {usage'[c] : c \in Cycles} = UNION {usage[c] : c \in Cycles}
    BY <2>2, <2>4
  <2>6. UNCHANGED <<measured, pending, gone>> /\ InFlush' = InFlush
    BY <1>8 DEF SaveMoves, InFlush
  <2>7. ASSUME NEW c \in Cycles, NEW d \in Cycles \ {c}
        PROVE  usage'[c] \cap usage'[d] = {}
    BY <2>2, <2>4
  <2>8. \A c \in Cycles : usage'[c] \cap (pending \cup InFlush \cup gone) = {}
    BY <2>2, <2>4
  <2> QED  BY <2>5, <2>6, <2>7, <2>8
<1> QED
  BY <1>1, <1>2, <1>3, <1>4, <1>5, <1>6, <1>7, <1>8
     DEF QuotaNext, FlushStep, TimePasses, SaveOrDelete, SaveStores, quotaVars

LEMMA CountedWhereMeasuredStep ==
    ASSUME QuotaShape, CountedWhereMeasured, [QuotaNext]_quotaVars
    PROVE  CountedWhereMeasured'
<1> USE DEF CountedWhereMeasured
<1>1. CASE UNCHANGED <<usage, moved>>
  BY <1>1 DEF CycleOf
<1>2. CASE FlushWrites /\ usage' # usage
  <2>1. PICK t \in flush.drained : usage' = [usage EXCEPT ![CountedIn(t)] = @ \cup {t}]
    BY <1>2 DEF FlushWrites
  <2>2. CountedIn(t) \in Cycles /\ flush.quota.period \in Periods /\ t \in Instants /\ moved' = moved
    BY <1>2, FlushFacts DEF FlushWrites, Quotas
  <2>3. CountedIn(t) = CycleOf(t, CountedIn(t).period)
    BY <2>2, CycleFacts DEF CountedIn
  <2> HIDE DEF CountedWhereMeasured
  <2>4. \A c \in Cycles : usage'[c] = IF c = CountedIn(t) THEN usage[c] \cup {t} ELSE usage[c]
    BY <2>1 DEF QuotaShape
  <2> QED  BY <2>2, <2>3, <2>4 DEF CountedWhereMeasured
<1>3. CASE SaveMoves
  <2>1. PICK q \in Quotas :
          /\ usage' = MovedUsage(CycleOf(clock, quota.period), CycleOf(clock, q.period))
          /\ moved' = moved \cup usage[CycleOf(clock, quota.period)]
    BY <1>3 DEF SaveMoves
  <2> DEFINE from == CycleOf(clock, quota.period)
             to == CycleOf(clock, q.period)
  <2>2. from \in Cycles /\ to \in Cycles
    BY CycleFacts DEF Quotas, QuotaShape
  <2>3. usage' = [usage EXCEPT ![to] = @ \cup usage[from], ![from] = {}] /\ moved' = moved \cup usage[from]
    BY <2>1 DEF MovedUsage
  <2> HIDE DEF from, to
  <2>4. \A c \in Cycles : usage'[c] \subseteq usage[c] \cup usage[from]
    BY <2>2, <2>3 DEF QuotaShape
  <2> QED  BY <2>3, <2>4
<1> QED
  BY <1>1, <1>2, <1>3
     DEF QuotaNext, FlushStep, Measure, TimePasses, QuotaRestart, FlushDrains, FlushWrites, FlushSeesTurn,
         FlushEvaluates, SaveOrDelete, SaveStores, quotaVars

LEMMA CountedWhereMeasuredIn ==
    ASSUME QuotaShape, CountedWhereMeasured
    PROVE  CountedInItsCycle
<1> SUFFICES ASSUME NEW c \in Cycles, NEW t \in usage[c] \ moved
             PROVE  In(t, c)
  BY DEF CountedInItsCycle
<1>1. c = CycleOf(t, c.period) /\ t \in Instants
  BY DEF CountedWhereMeasured, QuotaShape
<1>2. c.period \in Periods
  BY CycleFacts
<1> QED  BY <1>1, <1>2, CycleFacts
-----------------------------------------------------------------------------
(* The quota of a device: its alerts *)

Kinds == {"warning", "exceeded"}

\* The running flush has not written a row yet, or has seen the turn.
Unwritten == flush.at # "write" \/ ~ flush.wrote

\* The open alerts are about the cycle evaluated last or, where the process
\* does not know it, about whichever cycle it would find in the database; no
\* unit was counted that is later than the cycle evaluated last.
AlertInv ==
    /\ lastCycle # NoCycle /\ ~ blind => OpenAlertsAreOf(lastCycle)
    /\ flush.at = "evaluate" => lastCycle = flush.cycle
    /\ flush.at = "write" => \A t \in Counted \cup flush.drained : t < End(flush.cycle)
    /\ lastCycle # NoCycle /\ Unwritten => \A t \in Counted : t < End(lastCycle)
    /\ lastCycle = NoCycle /\ ~ blind /\ Unwritten => \A before \in OnDisk : OpenAlertsAreOf(before)
    /\ \A kind \in Kinds : openQuota[kind] # NoCycle => usage[openQuota[kind]] # {}

QuotaInv == QuotaShape /\ EachUnitOnce /\ CountedWhereMeasured /\ AlertInv

LEMMA NoneOpenIsOfAny == openQuota = NoneOpen => \A c : OpenAlertsAreOf(c)
BY DEF NoneOpen, OpenAlertsAreOf

\* A step that leaves the flush and the rows alone and closes alerts at most.
LEMMA AlertsStay ==
    ASSUME AlertInv, UNCHANGED <<usage, lastCycle, flush, blind>>, openQuota' \in {openQuota, NoneOpen}
    PROVE  AlertInv'
<1>1. CASE openQuota' = openQuota
  <2>1. \A c : OpenAlertsAreOf(c)' <=> OpenAlertsAreOf(c)
    BY <1>1 DEF OpenAlertsAreOf
  <2>2. OnDisk' = OnDisk /\ Counted' = Counted /\ (Unwritten' <=> Unwritten)
    BY DEF OnDisk, Counted, Unwritten
  <2> QED  BY <1>1, <2>1, <2>2 DEF AlertInv, OpenAlertsAreOf
<1>2. CASE openQuota' = NoneOpen
  <2>1. \A c : OpenAlertsAreOf(c)'
    BY <1>2 DEF NoneOpen, OpenAlertsAreOf
  <2>2. Counted' = Counted /\ (Unwritten' <=> Unwritten)
    BY DEF Counted, Unwritten
  <2>3. \A kind \in Kinds : openQuota'[kind] = NoCycle
    BY <1>2 DEF Kinds, NoneOpen
  <2> QED  BY <2>1, <2>2, <2>3 DEF AlertInv, OpenAlertsAreOf
<1> QED  BY <1>1, <1>2

\* The cycle whose units are the latest is the only one with the latest row.
LEMMA NewestRow ==
    ASSUME QuotaShape, CountedWhereMeasured, moved = {}, ~ BothPeriods,
           NEW last \in Cycles, usage[last] # {}, \A t \in Counted : t < End(last)
    PROVE  \A before \in OnDisk : before = last
<1> SUFFICES ASSUME NEW c \in OnDisk PROVE c = last
  OBVIOUS
<1>1. c \in Cycles /\ usage[c] # {} /\ last.start <= c.start
  BY DEF OnDisk
<1>2. c.period = last.period
  BY <1>1 DEF BothPeriods
<1> DEFINE n == Length(last.period)
<1>3. PICK t \in usage[c], u \in usage[last] : TRUE
  BY <1>1
<1>4. /\ t \in Instants /\ u \in Instants
      /\ c = CycleOf(t, last.period) /\ last = CycleOf(u, last.period)
      /\ t < End(last) /\ last.period \in Periods
  <2>1. t < End(last)
    BY <1>1 DEF Counted
  <2>2. t \in Instants /\ u \in Instants
    BY <1>1 DEF QuotaShape
  <2>3. c = CycleOf(t, c.period) /\ last = CycleOf(u, last.period)
    BY <1>1 DEF CountedWhereMeasured
  <2>4. last.period \in Periods
    BY CycleFacts
  <2> QED  BY <1>2, <2>1, <2>2, <2>3, <2>4
<1>5. n \in Nat \ {0} /\ t \in Nat /\ u \in Nat
  BY <1>4, LengthIsPositive, QuotaAssumption DEF Instants
<1> HIDE DEF n
<1>6. c.start = (t \div n) * n /\ last.start = (u \div n) * n /\ End(last) = (u \div n) * n + n
  BY <1>4 DEF n, CycleOf, End
<1>7. (t \div n) \in Nat /\ (u \div n) \in Nat /\ (t \div n) * n <= t /\ (t \div n) * n \in Nat /\ (u \div n) * n \in Nat
  BY <1>5, WindowOf
<1>8. (t \div n) * n < (u \div n) * n + n
  BY <1>4, <1>5, <1>6, <1>7
<1>9. (t \div n) = (u \div n)
  BY <1>1, <1>5, <1>6, <1>7, <1>8, OneWindow
<1> QED  BY <1>4, <1>9 DEF CycleOf, n

LEMMA AlertsStart == QuotaInit => AlertInv
<1> SUFFICES ASSUME QuotaInit PROVE AlertInv
  OBVIOUS
<1>1. lastCycle = NoCycle /\ flush.at = "idle" /\ openQuota = NoneOpen
  BY DEF QuotaInit, IdleFlush
<1>2. \A kind \in Kinds : openQuota[kind] = NoCycle
  BY <1>1 DEF Kinds, NoneOpen
<1> QED  BY <1>1, <1>2, NoneOpenIsOfAny DEF AlertInv

LEMMA RestartKeepsAlerts ==
    ASSUME QuotaInv, QuotaRestart
    PROVE  AlertInv'
<1> USE DEF QuotaInv
<1>1. lastCycle' = NoCycle /\ flush'.at = "idle" /\ UNCHANGED <<usage, openQuota>>
  BY DEF QuotaRestart, IdleFlush
<1>2. OnDisk' = OnDisk /\ \A c : OpenAlertsAreOf(c)' <=> OpenAlertsAreOf(c)
  BY <1>1 DEF OnDisk, OpenAlertsAreOf
<1>3. ASSUME ~ blind'
      PROVE  \A before \in OnDisk : OpenAlertsAreOf(before)
  <2>1. ~ blind /\ moved = {} /\ ~ BothPeriods /\ Unwritten
    BY <1>3 DEF QuotaRestart, Unwritten
  <2>2. CASE lastCycle = NoCycle
    BY <2>1, <2>2 DEF AlertInv
  <2>3. CASE lastCycle # NoCycle
    <3>1. lastCycle \in Cycles /\ OpenAlertsAreOf(lastCycle) /\ \A t \in Counted : t < End(lastCycle)
      BY <2>1, <2>3 DEF AlertInv, QuotaShape
    <3>2. CASE \A kind \in Kinds : openQuota[kind] = NoCycle
      BY <3>2 DEF OpenAlertsAreOf, Kinds
    <3>3. CASE \E kind \in Kinds : openQuota[kind] # NoCycle
      <4>1. usage[lastCycle] # {}
        BY <3>1, <3>3 DEF AlertInv, OpenAlertsAreOf, Kinds
      <4>2. \A before \in OnDisk : before = lastCycle
        BY <2>1, <3>1, <4>1, NewestRow
      <4> QED  BY <3>1, <4>2
    <3> QED  BY <3>2, <3>3
  <2> QED  BY <2>2, <2>3
<1>4. \A kind \in Kinds : openQuota'[kind] # NoCycle => usage'[openQuota'[kind]] # {}
  BY <1>1 DEF AlertInv
<1> QED  BY <1>1, <1>2, <1>3, <1>4 DEF AlertInv

LEMMA DrainKeepsAlerts ==
    ASSUME QuotaInv, FlushDrains
    PROVE  AlertInv'
<1> USE DEF QuotaInv
<1>1. CASE UNCHANGED <<pending, flush, blind>>
  BY <1>1, AlertsStay DEF FlushDrains
<1>2. CASE flush' = [at |-> "write", drained |-> pending, unsaved |-> {}, wrote |-> FALSE,
                     quota |-> quota, cycle |-> CycleOf(clock, quota.period)]
           /\ blind' = (blind \/ save.at # "idle")
  <2>1. UNCHANGED <<usage, openQuota, lastCycle>>
    BY DEF FlushDrains
  <2>2. OnDisk' = OnDisk /\ Counted' = Counted /\ \A c : OpenAlertsAreOf(c)' <=> OpenAlertsAreOf(c)
    BY <2>1 DEF OnDisk, Counted, OpenAlertsAreOf
  <2>3. Unwritten /\ flush'.at = "write" /\ flush'.drained = pending /\ flush'.cycle = CycleOf(clock, quota.period)
    BY <1>2 DEF FlushDrains, Unwritten
  <2>4. ~ blind' => ~ blind
    BY <1>2
  <2>5. \A t \in Counted \cup pending : t < End(CycleOf(clock, quota.period))
    <3>1. \A t \in Counted \cup pending : t \in measured /\ t <= clock /\ t \in Nat
      <4>1. Counted \cup pending \subseteq measured
        BY DEF Counted, QuotaShape
      <4>2. \A t \in measured : t \in Instants /\ t <= clock
        BY DEF QuotaShape
      <4>3. Instants \subseteq Nat
        BY QuotaAssumption DEF Instants
      <4> QED  BY <4>1, <4>2, <4>3
    <3>2. clock \in Instants /\ quota.period \in Periods
      BY DEF QuotaShape, Quotas
    <3>3. clock < End(CycleOf(clock, quota.period)) /\ clock \in Nat
      BY <3>2, CycleFacts, QuotaAssumption DEF Instants
    <3>4. End(CycleOf(clock, quota.period)) \in Nat
      <4>1. Length(quota.period) \in Nat \ {0}
        BY LengthIsPositive
      <4>2. (clock \div Length(quota.period)) * Length(quota.period) \in Nat
        BY <3>3, <4>1, WindowOf
      <4> QED  BY <4>1, <4>2 DEF End, CycleOf
    <3> QED  BY <3>1, <3>3, <3>4
  <2>6. \A kind \in Kinds : openQuota'[kind] # NoCycle => usage'[openQuota'[kind]] # {}
    BY <2>1 DEF AlertInv
  <2> QED  BY <2>1, <2>2, <2>3, <2>4, <2>5, <2>6 DEF AlertInv
<1> QED  BY <1>1, <1>2 DEF FlushDrains

LEMMA WriteKeepsAlerts ==
    ASSUME QuotaInv, FlushWrites
    PROVE  AlertInv'
<1> USE DEF QuotaInv
<1>1. PICK t \in flush.drained :
       \/ /\ usage' = [usage EXCEPT ![CountedIn(t)] = @ \cup {t}]
          /\ flush' = [flush EXCEPT !.drained = @ \ {t}, !.wrote = TRUE]
       \/ /\ flush' = [flush EXCEPT !.drained = @ \ {t}, !.unsaved = @ \cup {t}]
          /\ UNCHANGED usage
  BY DEF FlushWrites
<1>2. /\ flush \in FlushSet /\ flush.at = "write" /\ CountedIn(t) \in Cycles
      /\ UNCHANGED <<openQuota, lastCycle, blind>>
  BY FlushFacts DEF FlushWrites, QuotaShape
<1>3. \A c : OpenAlertsAreOf(c)' <=> OpenAlertsAreOf(c)
  BY <1>2 DEF OpenAlertsAreOf
<1>4. /\ flush'.at = "write" /\ flush'.drained \subseteq flush.drained /\ flush'.cycle = flush.cycle
      /\ Unwritten' => Unwritten /\ usage' = usage
  <2>1. CASE /\ usage' = [usage EXCEPT ![CountedIn(t)] = @ \cup {t}]
             /\ flush' = [flush EXCEPT !.drained = @ \ {t}, !.wrote = TRUE]
    BY <1>2, <2>1 DEF FlushSet, Unwritten
  <2>2. CASE /\ flush' = [flush EXCEPT !.drained = @ \ {t}, !.unsaved = @ \cup {t}]
             /\ UNCHANGED usage
    BY <1>2, <2>2 DEF FlushSet, Unwritten
  <2> QED  BY <1>1, <2>1, <2>2
<1>5. /\ \A c \in Cycles : usage[c] \subseteq usage'[c]
      /\ \A c \in Cycles : usage'[c] \subseteq usage[c] \cup {t}
  BY <1>1, <1>2 DEF QuotaShape
<1>6. Counted' \subseteq Counted \cup {t}
  BY <1>5 DEF Counted
<1>7. \A u \in Counted' \cup flush'.drained : u < End(flush'.cycle)
  BY <1>2, <1>4, <1>6 DEF AlertInv
<1>8. \A kind \in Kinds : openQuota'[kind] # NoCycle => usage'[openQuota'[kind]] # {}
  <2>1. \A kind \in Kinds : openQuota[kind] \in Cycles \cup {NoCycle}
    BY DEF QuotaShape, AlertOn, Kinds
  <2> QED  BY <1>2, <1>5, <2>1 DEF AlertInv
<1>9. Unwritten' => Unwritten /\ Counted' = Counted /\ OnDisk' = OnDisk
  BY <1>4 DEF Counted, OnDisk
<1> QED  BY <1>2, <1>3, <1>4, <1>7, <1>8, <1>9 DEF AlertInv

LEMMA TurnKeepsAlerts ==
    ASSUME QuotaInv, FlushSeesTurn
    PROVE  AlertInv'
<1> USE DEF QuotaInv
<1>1. PICK before \in Before :
        LET turned == before \notin {NoCycle, flush.cycle} IN
        /\ openQuota' = IF turned THEN NoneOpen ELSE openQuota
        /\ blind' = (~turned /\ (blind \/ (lastCycle = NoCycle /\ flush.wrote)))
  BY DEF FlushSeesTurn
<1>2. flush \in FlushSet /\ flush.cycle \in Cycles /\ flush.cycle # NoCycle
  BY FlushFacts, CycleFacts DEF FlushSeesTurn
<1>3. /\ flush'.at = "evaluate" /\ flush'.cycle = flush.cycle
      /\ lastCycle' = flush.cycle /\ usage' = usage
  BY <1>2 DEF FlushSeesTurn, FlushSet
<1>4. ~ blind' => OpenAlertsAreOf(flush.cycle)'
  <2>1. CASE before \notin {NoCycle, flush.cycle}
    BY <1>1, <1>3, <2>1 DEF NoneOpen, OpenAlertsAreOf
  <2>2. CASE before \in {NoCycle, flush.cycle}
    <3> SUFFICES ASSUME ~ blind' PROVE OpenAlertsAreOf(flush.cycle)'
      OBVIOUS
    <3>1. openQuota' = openQuota /\ ~ blind /\ ~ (lastCycle = NoCycle /\ flush.wrote)
      BY <1>1, <2>2
    <3>2. OpenAlertsAreOf(before)
      BY <3>1 DEF Before, AlertInv, Unwritten
    <3> QED  BY <1>3, <2>2, <3>1, <3>2 DEF OpenAlertsAreOf
  <2> QED  BY <2>1, <2>2
<1>5. \A u \in Counted' : u < End(flush.cycle)
  BY <1>3 DEF AlertInv, Counted, FlushSeesTurn
<1>6. \A kind \in Kinds : openQuota'[kind] # NoCycle => usage'[openQuota'[kind]] # {}
  BY <1>1, <1>3 DEF AlertInv, NoneOpen, Kinds
<1> QED  BY <1>2, <1>3, <1>4, <1>5, <1>6 DEF AlertInv

LEMMA EvaluateKeepsAlerts ==
    ASSUME QuotaInv, FlushEvaluates
    PROVE  AlertInv'
<1> USE DEF QuotaInv
<1>1. /\ flush.cycle \in Cycles /\ flush.cycle # NoCycle /\ flush.quota.limit \in Nat /\ lastCycle = flush.cycle
      /\ Unwritten
  <2>1. flush.at = "evaluate"
    BY DEF FlushEvaluates
  <2>2. flush.cycle \in Cycles /\ flush.quota \in Quotas
    BY <2>1, FlushFacts
  <2>3. flush.quota.limit \in Nat
    <3>1. Limits \cup {0} \subseteq Nat
      BY QuotaAssumption
    <3>2. flush.quota.limit \in Limits \cup {0}
      BY <2>2 DEF Quotas
    <3> QED  BY <3>1, <3>2
  <2> QED  BY <2>1, <2>2, <2>3, CycleFacts DEF AlertInv, Unwritten
<1>2. flush'.at = "idle" /\ UNCHANGED <<usage, lastCycle, blind>>
  BY DEF FlushEvaluates, IdleFlush
<1>3. /\ \A kind \in Kinds : openQuota'[kind] \in {openQuota[kind], flush.cycle, NoCycle}
      /\ \A kind \in Kinds : openQuota'[kind] # openQuota[kind] /\ openQuota'[kind] # NoCycle => usage[flush.cycle] # {}
  <2>1. CASE openQuota' = openQuota
    BY <2>1
  <2>2. CASE openQuota' = Evaluated(Cardinality(usage[flush.cycle])) /\ openQuota' # openQuota
    <3>1. usage[flush.cycle] # {}
      <4>1. SUFFICES ASSUME usage[flush.cycle] = {} PROVE FALSE
        OBVIOUS
      <4>2. Cardinality(usage[flush.cycle]) = 0
        BY <4>1, FS_EmptySet
      <4>3. flush.quota.limit = 0 \/ 2 * 0 < flush.quota.limit
        BY <1>1
      <4>4. Evaluated(0) = openQuota
        BY <4>3 DEF Evaluated
      <4> QED  BY <2>2, <4>2, <4>4
    <3>2. \A kind \in Kinds : openQuota'[kind] \in {openQuota[kind], flush.cycle, NoCycle}
      BY <2>2 DEF Evaluated, Raised, QuotaShape, AlertOn, Kinds
    <3> QED  BY <3>1, <3>2
  <2> QED  BY <2>1, <2>2 DEF FlushEvaluates
<1>4. ~ blind' => OpenAlertsAreOf(lastCycle)'
  BY <1>1, <1>2, <1>3 DEF AlertInv, OpenAlertsAreOf, Kinds
<1>5. \A t \in Counted' : t < End(lastCycle)
  BY <1>1, <1>2 DEF AlertInv, Counted
<1>6. \A kind \in Kinds : openQuota'[kind] # NoCycle => usage'[openQuota'[kind]] # {}
  BY <1>2, <1>3 DEF AlertInv
<1> QED  BY <1>1, <1>2, <1>4, <1>5, <1>6 DEF AlertInv

LEMMA MoveKeepsAlerts ==
    ASSUME QuotaInv, SaveMoves
    PROVE  AlertInv'
<1> USE DEF QuotaInv
<1>1. PICK q \in Quotas : usage' = MovedUsage(CycleOf(clock, quota.period), CycleOf(clock, q.period))
  BY DEF SaveMoves
<1> DEFINE from == CycleOf(clock, quota.period)
           to == CycleOf(clock, q.period)
<1>2. from \in Cycles /\ to \in Cycles
  BY CycleFacts DEF Quotas, QuotaShape
<1>3. usage' = [usage EXCEPT ![to] = @ \cup usage[from], ![from] = {}]
  BY <1>1 DEF MovedUsage
<1> HIDE DEF from, to
<1>4. \A c \in Cycles : usage'[c] \subseteq usage[c] \cup usage[from]
  BY <1>2, <1>3 DEF QuotaShape
<1>5. Counted' \subseteq Counted
  BY <1>2, <1>4 DEF Counted
<1>6. openQuota' = NoneOpen /\ UNCHANGED <<flush, lastCycle>>
  BY DEF SaveMoves
<1>7. /\ \A c : OpenAlertsAreOf(c)'
      /\ \A kind \in Kinds : openQuota'[kind] = NoCycle
  BY <1>6 DEF NoneOpen, OpenAlertsAreOf, Kinds
<1>8. Unwritten' <=> Unwritten
  BY <1>6 DEF Unwritten
<1> QED  BY <1>5, <1>6, <1>7, <1>8 DEF AlertInv

LEMMA QuotaInvStarts == QuotaInit => QuotaInv
<1> SUFFICES ASSUME QuotaInit PROVE QuotaInv
  OBVIOUS
<1>1. \A c \in Cycles : usage[c] = {}
  BY DEF QuotaInit
<1>2. measured = {} /\ pending = {} /\ gone = {} /\ InFlush = {}
  BY DEF QuotaInit, InFlush, IdleFlush
<1>3. EachUnitOnce
  BY <1>1, <1>2 DEF EachUnitOnce
<1>4. CountedWhereMeasured
  BY <1>1 DEF CountedWhereMeasured
<1> QED  BY <1>3, <1>4, QuotaStarts, AlertsStart DEF QuotaInv

LEMMA QuotaInvStep ==
    ASSUME QuotaInv, [QuotaNext]_quotaVars
    PROVE  QuotaInv'
<1>1. QuotaShape' /\ EachUnitOnce' /\ CountedWhereMeasured'
  BY QuotaShapeStep, UnitsStep, CountedWhereMeasuredStep DEF QuotaInv
<1>2. ASSUME Measure \/ TimePasses \/ SaveOrDelete \/ SaveStores \/ UNCHANGED quotaVars
      PROVE  AlertInv'
  <2>1. UNCHANGED <<usage, lastCycle, flush, blind>> /\ openQuota' \in {openQuota, NoneOpen}
    BY <1>2 DEF Measure, TimePasses, SaveOrDelete, SaveStores, quotaVars
  <2> QED  BY <2>1, AlertsStay DEF QuotaInv
<1>3. AlertInv'
  BY <1>2, RestartKeepsAlerts, DrainKeepsAlerts, WriteKeepsAlerts, TurnKeepsAlerts, EvaluateKeepsAlerts,
     MoveKeepsAlerts DEF QuotaNext, FlushStep
<1> QED  BY <1>1, <1>3 DEF QuotaInv

LEMMA QuotaInvHolds == QuotaInv => EachUnitOnce /\ CountedInItsCycle /\ AlertsTurn
BY CountedWhereMeasuredIn DEF QuotaInv, AlertInv, AlertsTurn
-----------------------------------------------------------------------------
(* The quota of a link *)

LinkFlushSet == [at : {"write", "turn", "evaluate"}, drained : SUBSET (0 .. LinkInstants),
                 quota : LinkQuotas, cycle : LinkCycles]
LinkKnown == LinkCycles \cup {NoLinkCycle}

LinkShape ==
    /\ linkClock \in 0 .. LinkInstants /\ linkSeen \subseteq 0 .. LinkInstants
    /\ \A t \in linkSeen : t <= linkClock
    /\ linkPending \subseteq linkSeen /\ linkLost \subseteq linkSeen
    /\ linkUsage \in [LinkCycles -> SUBSET linkSeen]
    /\ linkQuota \in LinkQuotas
    /\ linkOpen \in [warning : LinkKnown, exceeded : LinkKnown]
    /\ linkCycle \in LinkKnown
    /\ linkFlush \in {IdleLinkFlush} \cup LinkFlushSet
    /\ linkFlush.at = "write" => linkFlush.drained \subseteq linkSeen
    /\ linkBlind \in BOOLEAN

LEMMA LinkCycleFacts ==
    /\ \A t \in 0 .. LinkInstants, day \in ClosingDays : LinkCycle(t, day) \in LinkCycles
    /\ NoLinkCycle \notin LinkCycles
<1>1. \A t \in 0 .. LinkInstants, day \in ClosingDays : LinkCycle(t, day) \in LinkCycles
  BY DEF LinkCycles
<1>2. ASSUME NEW t \in 0 .. LinkInstants, NEW day \in ClosingDays
      PROVE  LinkCycle(t, day) \in Nat
  <2>1. t + Month - day \in Nat /\ Month \in Nat \ {0} /\ day \in Nat
    BY LinkQuotaAssumption
  <2> DEFINE n == t + Month - day
  <2>2. n \in Nat
    BY <2>1
  <2> HIDE DEF n
  <2>3. (n \div Month) * Month \in Nat
    BY <2>1, <2>2, WindowOf
  <2> QED  BY <2>1, <2>3 DEF LinkCycle, n
<1>3. LinkCycles \subseteq Nat
  BY <1>2 DEF LinkCycles
<1> QED  BY <1>1, <1>3 DEF NoLinkCycle

LEMMA LinkFlushFacts ==
    ASSUME LinkShape
    PROVE  /\ linkFlush.at \in {"idle", "write", "turn", "evaluate"}
           /\ linkFlush.at # "idle" => /\ linkFlush \in LinkFlushSet /\ linkFlush.cycle \in LinkCycles
                                       /\ linkFlush.quota \in LinkQuotas
                                       /\ linkFlush.cycle # NoLinkCycle
<1>1. CASE linkFlush = IdleLinkFlush
  BY <1>1 DEF IdleLinkFlush
<1>2. CASE linkFlush \in LinkFlushSet
  BY <1>2, LinkCycleFacts DEF LinkFlushSet
<1> QED  BY <1>1, <1>2 DEF LinkShape

LEMMA LinkStarts == LinkInit => LinkShape
<1> SUFFICES ASSUME LinkInit PROVE LinkShape
  OBVIOUS
<1>1. linkClock \in 0 .. LinkInstants
  BY LinkQuotaAssumption DEF LinkInit
<1>2. linkOpen \in [warning : LinkKnown, exceeded : LinkKnown]
  BY DEF LinkInit, NoneLinkOpen, LinkKnown
<1>3. linkFlush.at # "write"
  BY DEF LinkInit, IdleLinkFlush
<1> QED  BY <1>1, <1>2, <1>3 DEF LinkInit, LinkShape, LinkKnown

LEMMA LinkShapeStep ==
    ASSUME LinkShape, [LinkNext]_linkVars
    PROVE  LinkShape'
<1> USE DEF LinkShape
<1>1. CASE LinkMeasures
  <2>1. linkUsage' \in [LinkCycles -> SUBSET linkSeen']
    BY <1>1 DEF LinkMeasures
  <2>2. linkSeen' \subseteq 0 .. LinkInstants /\ \A t \in linkSeen' : t <= linkClock'
    <3>1. linkSeen' = linkSeen \cup {linkClock} /\ linkClock' = linkClock
      BY <1>1 DEF LinkMeasures
    <3>2. linkClock <= linkClock
      BY LinkQuotaAssumption
    <3> QED  BY <3>1, <3>2
  <2> QED  BY <1>1, <2>1, <2>2 DEF LinkMeasures
<1>2. CASE LinkTimePasses
  <2>1. linkClock' \in 0 .. LinkInstants /\ \A t \in linkSeen' : t <= linkClock'
    <3>1. linkClock < LinkInstants /\ linkClock' = linkClock + 1 /\ linkSeen' = linkSeen
      BY <1>2 DEF LinkTimePasses
    <3>2. linkClock \in Nat /\ LinkInstants \in Nat /\ \A t \in linkSeen : t \in Nat /\ t <= linkClock
      <4>1. LinkInstants \in Nat
        BY LinkQuotaAssumption
      <4>2. linkClock \in Nat /\ linkSeen \subseteq 0 .. LinkInstants
        BY <4>1
      <4>3. \A t \in linkSeen : t \in Nat
        BY <4>1, <4>2
      <4> QED  BY <4>1, <4>2, <4>3
    <3>3. linkClock + 1 \in 0 .. LinkInstants
      BY <3>1, <3>2
    <3>4. \A t \in linkSeen : t <= linkClock + 1
      BY <3>2
    <3> QED  BY <3>1, <3>3, <3>4
  <2> QED  BY <1>2, <2>1 DEF LinkTimePasses
<1>3. CASE LinkSaves
  <2>1. linkOpen' \in [warning : LinkKnown, exceeded : LinkKnown]
    BY <1>3 DEF LinkSaves, NoneLinkOpen, LinkKnown
  <2>2. linkQuota' \in LinkQuotas
    BY <1>3 DEF LinkSaves, LinkQuotas
  <2> QED  BY <1>3, <2>1, <2>2 DEF LinkSaves
<1>4. CASE LinkRestart
  <2>1. linkFlush'.at # "write" /\ linkLost' \subseteq linkSeen
    BY <1>4 DEF LinkRestart, IdleLinkFlush
  <2> QED  BY <1>4, <2>1 DEF LinkRestart, LinkKnown
<1>5. CASE LinkFlushBegins
  <2>1. CASE linkFlush' = [at |-> "write", drained |-> linkPending, quota |-> linkQuota, cycle |-> FlushCycle]
             /\ linkLost' = linkLost
    <3>1. FlushCycle \in LinkCycles
      BY LinkCycleFacts DEF FlushCycle, LinkQuotas
    <3>2. linkPending \subseteq 0 .. LinkInstants
      OBVIOUS
    <3>3. linkFlush' \in LinkFlushSet
      BY <2>1, <3>1, <3>2 DEF LinkFlushSet
    <3> QED  BY <1>5, <2>1, <3>3 DEF LinkFlushBegins
  <2>2. CASE linkFlush' = linkFlush /\ linkLost' = linkLost \cup linkPending
    BY <1>5, <2>2 DEF LinkFlushBegins
  <2> QED  BY <1>5, <2>1, <2>2 DEF LinkFlushBegins
<1>6. CASE LinkFlushWrites
  <2>1. linkFlush \in LinkFlushSet /\ linkFlush.cycle \in LinkCycles /\ linkFlush.drained \subseteq linkSeen
    BY <1>6, LinkFlushFacts DEF LinkFlushWrites
  <2>2. CASE /\ linkUsage' = [linkUsage EXCEPT ![linkFlush.cycle] = @ \cup linkFlush.drained]
             /\ linkFlush' = [linkFlush EXCEPT !.at = "turn"] /\ linkLost' = linkLost
    <3>1. linkFlush' \in LinkFlushSet /\ linkFlush'.at = "turn"
      BY <2>1, <2>2 DEF LinkFlushSet
    <3>2. linkUsage' \in [LinkCycles -> SUBSET linkSeen]
      BY <2>1, <2>2
    <3> QED  BY <1>6, <2>2, <3>1, <3>2 DEF LinkFlushWrites
  <2>3. CASE linkFlush' = IdleLinkFlush /\ linkLost' = linkLost \cup linkFlush.drained /\ linkUsage' = linkUsage
    <3>1. linkFlush'.at # "write"
      BY <2>3 DEF IdleLinkFlush
    <3> QED  BY <1>6, <2>1, <2>3, <3>1 DEF LinkFlushWrites
  <2> QED  BY <1>6, <2>2, <2>3 DEF LinkFlushWrites
<1>7. CASE LinkFlushTurns
  <2>1. linkFlush \in LinkFlushSet /\ linkFlush.cycle \in LinkCycles
    BY <1>7, LinkFlushFacts DEF LinkFlushTurns
  <2>2. linkFlush' \in LinkFlushSet /\ linkFlush'.at = "evaluate"
    BY <1>7, <2>1 DEF LinkFlushTurns, LinkFlushSet
  <2>3. linkOpen' \in [warning : LinkKnown, exceeded : LinkKnown]
    BY <1>7 DEF LinkFlushTurns, NoneLinkOpen, LinkKnown
  <2>4. linkBlind' \in BOOLEAN
    BY <1>7 DEF LinkFlushTurns
  <2> QED  BY <1>7, <2>1, <2>2, <2>3, <2>4 DEF LinkFlushTurns, LinkKnown
<1>8. CASE LinkFlushEvaluates
  <2>1. linkFlush.cycle \in LinkKnown
    BY <1>8, LinkFlushFacts DEF LinkFlushEvaluates, LinkKnown
  <2>2. linkOpen' \in [warning : LinkKnown, exceeded : LinkKnown]
    <3>1. linkOpen.warning \in LinkKnown /\ linkOpen.exceeded \in LinkKnown /\ NoLinkCycle \in LinkKnown
      BY DEF LinkKnown
    <3> QED  BY <1>8, <2>1, <3>1 DEF LinkFlushEvaluates, LinkEvaluated, LinkRaised
  <2>3. linkFlush'.at # "write"
    BY <1>8 DEF LinkFlushEvaluates, IdleLinkFlush
  <2> QED  BY <1>8, <2>2, <2>3 DEF LinkFlushEvaluates
<1>9. CASE UNCHANGED linkVars
  BY <1>9 DEF linkVars
<1> QED
  BY <1>1, <1>2, <1>3, <1>4, <1>5, <1>6, <1>7, <1>8, <1>9 DEF LinkNext

\* Where the traffic is that no cycle has counted yet.
LinkWaiting == linkPending \cup (IF linkFlush.at = "write" THEN linkFlush.drained ELSE {})
LinkCounted == UNION {linkUsage[c] : c \in LinkCycles}

LinkOnce ==
    /\ LinkCounted \cup LinkWaiting \cup linkLost = linkSeen
    /\ LinkCounted \cap LinkWaiting = {} /\ linkLost \cap (LinkCounted \cup LinkWaiting) = {}
    /\ \A c \in LinkCycles, d \in LinkCycles : c # d => linkUsage[c] \cap linkUsage[d] = {}
    /\ linkFlush.at = "write" => linkPending \cap linkFlush.drained = {}

LEMMA LinkOnceHolds == LinkOnce => LinkUnitOnce
BY DEF LinkOnce, LinkUnitOnce, LinkCounted, LinkWaiting

LEMMA LinkOnceStep ==
    ASSUME LinkShape, LinkOnce, [LinkNext]_linkVars
    PROVE  LinkOnce'
<1> USE DEF LinkOnce
<1>1. CASE LinkMeasures
  <2>1. linkClock \notin LinkCounted \cup LinkWaiting \cup linkLost
    BY <1>1 DEF LinkMeasures
  <2>2. LinkCounted' = LinkCounted /\ LinkWaiting' = LinkWaiting \cup {linkClock}
    BY <1>1 DEF LinkMeasures, LinkCounted, LinkWaiting
  <2>3. linkFlush.at = "write" => linkFlush.drained \subseteq linkSeen
    BY DEF LinkShape
  <2> QED  BY <1>1, <2>1, <2>2, <2>3 DEF LinkMeasures
<1>2. ASSUME UNCHANGED <<linkSeen, linkPending, linkUsage, linkFlush, linkLost>>
      PROVE  LinkOnce'
  BY <1>2 DEF LinkCounted, LinkWaiting
<1>3. CASE LinkRestart
  <2>1. LinkWaiting' = {} /\ LinkCounted' = LinkCounted /\ linkLost' = linkLost \cup LinkWaiting
    BY <1>3 DEF LinkRestart, LinkWaiting, LinkCounted, IdleLinkFlush
  <2>2. linkFlush'.at # "write" /\ UNCHANGED <<linkSeen, linkUsage>>
    BY <1>3 DEF LinkRestart, IdleLinkFlush
  <2> QED  BY <2>1, <2>2
<1>4. CASE LinkFlushBegins
  <2>1. linkPending' = {} /\ LinkWaiting = linkPending /\ LinkCounted' = LinkCounted
        /\ UNCHANGED <<linkSeen, linkUsage>>
    BY <1>4 DEF LinkFlushBegins, LinkWaiting, LinkCounted
  <2>2. CASE linkFlush' = [at |-> "write", drained |-> linkPending, quota |-> linkQuota, cycle |-> FlushCycle]
             /\ linkLost' = linkLost
    <3>1. LinkWaiting' = LinkWaiting
      BY <2>1, <2>2 DEF LinkWaiting
    <3> QED  BY <2>1, <2>2, <3>1
  <2>3. CASE linkFlush' = linkFlush /\ linkLost' = linkLost \cup linkPending
    <3>1. LinkWaiting' = {}
      BY <1>4, <2>1, <2>3 DEF LinkWaiting, LinkFlushBegins
    <3> QED  BY <2>1, <2>3, <3>1
  <2> QED  BY <1>4, <2>2, <2>3 DEF LinkFlushBegins
<1>5. CASE LinkFlushWrites
  <2>1. /\ linkFlush \in LinkFlushSet /\ linkFlush.cycle \in LinkCycles
        /\ LinkWaiting = linkPending \cup linkFlush.drained /\ linkPending \cap linkFlush.drained = {}
        /\ UNCHANGED <<linkSeen, linkPending>>
    BY <1>5, LinkFlushFacts DEF LinkFlushWrites, LinkWaiting
  <2>2. CASE /\ linkUsage' = [linkUsage EXCEPT ![linkFlush.cycle] = @ \cup linkFlush.drained]
             /\ linkFlush' = [linkFlush EXCEPT !.at = "turn"] /\ linkLost' = linkLost
    <3>1. linkFlush'.at = "turn"
      BY <2>1, <2>2 DEF LinkFlushSet
    <3>2. LinkWaiting' = linkPending
      BY <2>1, <3>1 DEF LinkWaiting
    <3>3. \A c \in LinkCycles : linkUsage'[c] = IF c = linkFlush.cycle THEN linkUsage[c] \cup linkFlush.drained
                                                 ELSE linkUsage[c]
      BY <2>2 DEF LinkShape
    <3>4. LinkCounted' = LinkCounted \cup linkFlush.drained
      <4>1. \A u : (\E c \in LinkCycles : u \in linkUsage'[c])
                     <=> (\E c \in LinkCycles : u \in linkUsage[c]) \/ u \in linkFlush.drained
        BY <2>1, <3>3
      <4> QED  BY <4>1, InSomeCycle DEF LinkCounted
    <3>5. \A c \in LinkCycles : linkUsage[c] \cap linkFlush.drained = {}
      BY <2>1 DEF LinkCounted
    <3>6. LinkCounted' \cup LinkWaiting' \cup linkLost' = linkSeen'
      BY <2>1, <2>2, <3>2, <3>4
    <3>7. LinkCounted' \cap LinkWaiting' = {} /\ linkLost' \cap (LinkCounted' \cup LinkWaiting') = {}
      BY <2>1, <2>2, <3>2, <3>4
    <3>8. ASSUME NEW c \in LinkCycles, NEW d \in LinkCycles, c # d
          PROVE  linkUsage'[c] \cap linkUsage'[d] = {}
      BY <3>3, <3>5, <3>8
    <3> QED  BY <3>1, <3>6, <3>7, <3>8
  <2>3. CASE linkFlush' = IdleLinkFlush /\ linkLost' = linkLost \cup linkFlush.drained /\ linkUsage' = linkUsage
    <3>1. linkFlush'.at # "write"
      BY <2>3 DEF IdleLinkFlush
    <3>2. LinkWaiting' = linkPending /\ LinkCounted' = LinkCounted
      BY <2>1, <2>3, <3>1 DEF LinkWaiting, LinkCounted
    <3> QED  BY <2>1, <2>3, <3>1, <3>2
  <2> QED  BY <1>5, <2>2, <2>3 DEF LinkFlushWrites
<1>6. CASE LinkFlushTurns \/ LinkFlushEvaluates
  <2>1. linkFlush.at # "write" /\ linkFlush'.at # "write"
    BY <1>6, LinkFlushFacts DEF LinkFlushTurns, LinkFlushEvaluates, IdleLinkFlush, LinkFlushSet
  <2>2. UNCHANGED <<linkSeen, linkPending, linkUsage, linkLost>>
    BY <1>6 DEF LinkFlushTurns, LinkFlushEvaluates
  <2> QED  BY <2>1, <2>2 DEF LinkWaiting, LinkCounted
<1> QED
  BY <1>1, <1>2, <1>3, <1>4, <1>5, <1>6 DEF LinkNext, LinkTimePasses, LinkSaves, linkVars

\* The alerts of a link are about the cycle evaluated last, and of the two of
\* one cycle the later one replaced the earlier; the process that has just
\* begun knows of none that is open.
LinkAlertInv ==
    /\ linkCycle # NoLinkCycle /\ ~ linkBlind => \A kind \in Kinds : linkOpen[kind] \in {NoLinkCycle, linkCycle}
    /\ linkCycle = NoLinkCycle /\ ~ linkBlind => \A kind \in Kinds : linkOpen[kind] = NoLinkCycle
    /\ linkFlush.at = "evaluate" => linkCycle = linkFlush.cycle
    /\ linkOpen.exceeded # NoLinkCycle => Cardinality(linkUsage[linkOpen.exceeded]) >= LinkLimit
    /\ ~ linkBlind => linkOpen.warning = NoLinkCycle \/ linkOpen.exceeded = NoLinkCycle

LinkInv == LinkShape /\ LinkOnce /\ LinkAlertInv

LEMMA LinkUsageIsFinite ==
    ASSUME LinkShape, NEW c \in LinkCycles
    PROVE  IsFiniteSet(linkUsage[c]) /\ Cardinality(linkUsage[c]) \in Nat
<1>1. IsFiniteSet(0 .. LinkInstants)
  BY FS_Interval, LinkQuotaAssumption
<1>2. linkUsage[c] \subseteq 0 .. LinkInstants
  BY DEF LinkShape
<1>3. IsFiniteSet(linkUsage[c])
  BY <1>1, <1>2, FS_Subset
<1> QED  BY <1>3, FS_CardinalityType

LEMMA LinkInvStarts == LinkInit => LinkInv
<1> SUFFICES ASSUME LinkInit PROVE LinkInv
  OBVIOUS
<1>1. \A c \in LinkCycles : linkUsage[c] = {}
  BY DEF LinkInit
<1>2. LinkOnce
  BY <1>1 DEF LinkInit, LinkOnce, LinkCounted, LinkWaiting, IdleLinkFlush
<1>3. /\ linkOpen.warning = NoLinkCycle /\ linkOpen.exceeded = NoLinkCycle
      /\ \A kind \in Kinds : linkOpen[kind] = NoLinkCycle
  BY DEF LinkInit, NoneLinkOpen, Kinds
<1>4. linkFlush.at = "idle" /\ linkCycle = NoLinkCycle
  BY DEF LinkInit, IdleLinkFlush
<1> QED  BY <1>2, <1>3, <1>4, LinkStarts DEF LinkInv, LinkAlertInv

LEMMA LinkAlertStep ==
    ASSUME LinkInv, [LinkNext]_linkVars
    PROVE  LinkAlertInv'
<1> USE DEF LinkInv
<1>1. ASSUME UNCHANGED <<linkOpen, linkUsage, linkCycle, linkBlind>>, linkFlush'.at # "evaluate" \/ linkFlush' = linkFlush
      PROVE  LinkAlertInv'
  BY <1>1 DEF LinkAlertInv
<1>2. CASE LinkMeasures \/ LinkTimePasses \/ UNCHANGED linkVars
  BY <1>1, <1>2 DEF LinkMeasures, LinkTimePasses, linkVars
<1>3. CASE LinkFlushBegins
  <2>1. linkFlush'.at # "evaluate" \/ linkFlush' = linkFlush
    BY <1>3 DEF LinkFlushBegins
  <2> QED  BY <1>1, <1>3, <2>1 DEF LinkFlushBegins
<1>4. ASSUME linkOpen' = NoneLinkOpen, UNCHANGED <<linkFlush, linkCycle, linkBlind>>
      PROVE  LinkAlertInv'
  <2>1. /\ linkOpen'.warning = NoLinkCycle /\ linkOpen'.exceeded = NoLinkCycle
        /\ \A kind \in Kinds : linkOpen'[kind] = NoLinkCycle
    BY <1>4 DEF NoneLinkOpen, Kinds
  <2> QED  BY <1>4, <2>1 DEF LinkAlertInv
<1>5. CASE LinkSaves
  <2>1. linkOpen' = linkOpen \/ linkOpen' = NoneLinkOpen
    BY <1>5 DEF LinkSaves
  <2> QED  BY <1>1, <1>4, <1>5, <2>1 DEF LinkSaves
<1>6. CASE LinkRestart
  <2>1. linkBlind' /\ linkFlush'.at # "evaluate" /\ UNCHANGED <<linkOpen, linkUsage>>
    BY <1>6 DEF LinkRestart, IdleLinkFlush
  <2> QED  BY <2>1 DEF LinkAlertInv
<1>7. CASE LinkFlushWrites
  <2>1. linkFlush \in LinkFlushSet /\ linkFlush.cycle \in LinkCycles
    BY <1>7, LinkFlushFacts DEF LinkFlushWrites
  <2>2. linkFlush'.at # "evaluate"
    BY <1>7, <2>1 DEF LinkFlushWrites, IdleLinkFlush, LinkFlushSet
  <2>3. UNCHANGED <<linkOpen, linkCycle, linkBlind>>
    BY <1>7 DEF LinkFlushWrites
  <2>4. ASSUME linkOpen.exceeded # NoLinkCycle
        PROVE  Cardinality(linkUsage'[linkOpen.exceeded]) >= LinkLimit
    <3> DEFINE c == linkOpen.exceeded
    <3>1. c \in LinkCycles
      BY <2>4 DEF LinkShape, LinkKnown
    <3>2. linkUsage[c] \subseteq linkUsage'[c]
      BY <1>7, <3>1 DEF LinkFlushWrites, LinkShape
    <3>3. IsFiniteSet(linkUsage'[c]) /\ Cardinality(linkUsage'[c]) \in Nat
      <4>1. linkUsage'[c] \subseteq 0 .. LinkInstants
        BY <3>1, LinkShapeStep DEF LinkShape
      <4>2. IsFiniteSet(0 .. LinkInstants)
        BY FS_Interval, LinkQuotaAssumption
      <4>3. IsFiniteSet(linkUsage'[c])
        BY <4>1, <4>2, FS_Subset
      <4> QED  BY <4>3, FS_CardinalityType
    <3>4. Cardinality(linkUsage[c]) <= Cardinality(linkUsage'[c])
      BY <3>2, <3>3, FS_Subset
    <3>5. Cardinality(linkUsage[c]) >= LinkLimit /\ Cardinality(linkUsage[c]) \in Nat /\ LinkLimit \in Nat
      BY <2>4, <3>1, LinkUsageIsFinite, LinkQuotaAssumption DEF LinkAlertInv
    <3> HIDE DEF c
    <3> QED  BY <3>3, <3>4, <3>5 DEF c
  <2> QED  BY <2>2, <2>3, <2>4 DEF LinkAlertInv
<1>8. CASE LinkFlushTurns
  <2>1. linkFlush \in LinkFlushSet /\ linkFlush.cycle # NoLinkCycle
    BY <1>8, LinkFlushFacts DEF LinkFlushTurns
  <2>2. linkFlush'.cycle = linkFlush.cycle /\ linkCycle' = linkFlush.cycle /\ linkUsage' = linkUsage
    BY <1>8, <2>1 DEF LinkFlushTurns, LinkFlushSet
  <2>3. CASE Turned
    <3>1. linkOpen' = NoneLinkOpen
      BY <1>8, <2>3 DEF LinkFlushTurns
    <3>2. /\ linkOpen'.warning = NoLinkCycle /\ linkOpen'.exceeded = NoLinkCycle
          /\ \A kind \in Kinds : linkOpen'[kind] = NoLinkCycle
      BY <3>1 DEF NoneLinkOpen, Kinds
    <3> QED  BY <2>1, <2>2, <3>2 DEF LinkAlertInv
  <2>4. CASE ~ Turned
    <3>1. linkOpen' = linkOpen /\ (linkBlind' => linkBlind) /\ (linkBlind => linkBlind')
      BY <1>8, <2>4 DEF LinkFlushTurns
    <3>2. linkCycle \in {NoLinkCycle, linkFlush.cycle}
      BY <2>4 DEF Turned
    <3> QED  BY <2>1, <2>2, <3>1, <3>2 DEF LinkAlertInv
  <2> QED  BY <2>3, <2>4
<1>9. CASE LinkFlushEvaluates
  <2>1. /\ linkFlush.cycle \in LinkCycles /\ linkFlush.cycle # NoLinkCycle /\ linkFlush.quota.limit \in {0, LinkLimit}
        /\ linkCycle = linkFlush.cycle
    BY <1>9, LinkFlushFacts DEF LinkFlushEvaluates, LinkQuotas, LinkAlertInv
  <2>2. linkFlush'.at # "evaluate" /\ UNCHANGED <<linkUsage, linkCycle, linkBlind>>
    BY <1>9 DEF LinkFlushEvaluates, IdleLinkFlush
  <2>3. CASE linkOpen' = linkOpen
    BY <1>1, <2>2, <2>3
  <2> DEFINE used == Cardinality(linkUsage[linkFlush.cycle])
             limit == linkFlush.quota.limit
  <2>4. used \in Nat /\ LinkLimit \in Nat \ {0}
    BY <2>1, LinkUsageIsFinite, LinkQuotaAssumption
  <2>5. CASE linkOpen' = LinkEvaluated(used, limit) /\ ~ (limit = 0 \/ 2 * used < limit)
    <3>1. limit = LinkLimit
      BY <2>1, <2>5
    <3>2. CASE used >= limit
      <4>1. linkOpen' = [LinkRaised("exceeded") EXCEPT !.warning = NoLinkCycle]
        BY <2>5, <3>2 DEF LinkEvaluated
      <4>2. /\ linkOpen'.warning = NoLinkCycle
            /\ linkOpen'.exceeded = IF linkOpen.exceeded = NoLinkCycle THEN linkFlush.cycle ELSE linkOpen.exceeded
        BY <4>1 DEF LinkRaised, LinkShape
      <4> HIDE DEF limit
      <4>3. linkOpen'.exceeded # NoLinkCycle => Cardinality(linkUsage'[linkOpen'.exceeded]) >= LinkLimit
        BY <2>2, <3>1, <3>2, <4>2 DEF LinkAlertInv
      <4> QED  BY <2>1, <2>2, <4>2, <4>3 DEF LinkAlertInv, Kinds
    <3>3. CASE ~ (used >= limit)
      <4>1. linkOpen' = LinkRaised("warning")
        BY <2>5, <3>3 DEF LinkEvaluated
      <4>2. /\ linkOpen'.exceeded = linkOpen.exceeded
            /\ linkOpen'.warning = IF linkOpen.warning = NoLinkCycle THEN linkFlush.cycle ELSE linkOpen.warning
        BY <4>1 DEF LinkRaised, LinkShape
      <4>3. ~ linkBlind => linkOpen.exceeded = NoLinkCycle
        <5> SUFFICES ASSUME ~ linkBlind, linkOpen.exceeded # NoLinkCycle PROVE FALSE
          OBVIOUS
        <5>1. linkOpen.exceeded = linkFlush.cycle
          BY <2>1 DEF LinkAlertInv, Kinds
        <5>2. used >= LinkLimit
          BY <5>1 DEF LinkAlertInv
        <5> QED  BY <3>1, <3>3, <5>2
      <4> QED  BY <2>1, <2>2, <4>2, <4>3 DEF LinkAlertInv, Kinds
    <3> QED  BY <3>2, <3>3
  <2>6. CASE linkOpen' = LinkEvaluated(used, limit) /\ (limit = 0 \/ 2 * used < limit)
    BY <2>3, <2>6 DEF LinkEvaluated
  <2> QED  BY <1>9, <2>3, <2>5, <2>6 DEF LinkFlushEvaluates
<1> QED
  BY <1>2, <1>3, <1>5, <1>6, <1>7, <1>8, <1>9 DEF LinkNext

LEMMA LinkInvStep ==
    ASSUME LinkInv, [LinkNext]_linkVars
    PROVE  LinkInv'
BY LinkShapeStep, LinkOnceStep, LinkAlertStep DEF LinkInv

LEMMA LinkInvHolds == LinkInv => LinkUnitOnce /\ LinkAlertsTurn
BY LinkOnceHolds DEF LinkInv, LinkAlertInv, LinkAlertsTurn, Kinds

-----------------------------------------------------------------------------
(* The name of a link *)

\* A row about a link, and what was found when its state was last told.
NameRows   == [on : BOOLEAN, host : Hostnames]
NameStates == [ip : Nat, ok : BOOLEAN]
CheckSet   == [at : {"states", "address", "compare", "record"}, row : NameRows, old : NameStates,
               ip : Nat, ok : BOOLEAN]

NameShape ==
    /\ nameRow \in NameRows /\ nameState \in NameStates /\ wanAddr \in PublicAddrs
    /\ published \in [Hostnames -> Nat]
    /\ nameChecks \in [Checkers -> {NoCheck} \cup CheckSet]
    /\ nameSave \in BOOLEAN

\* With no reason for the record to differ, one check runs at most, and it is
\* about the row there is; unless the row has just changed, or a check is about
\* to write, what was recorded is what the provider answers; and what a check
\* is about to write as updated is.
OneCheck       == \A c, d \in Checkers : ~ CheckAt(c, "idle") /\ ~ CheckAt(d, "idle") => c = d
ChecksThisRow  == \A c \in Checkers : ~ CheckAt(c, "idle") => nameChecks[c].row = nameRow
SettledIsTrue  == ~ nameSave /\ (\A c \in Checkers : ~ CheckAt(c, "record")) => RecordedIsPublished
ToRecordIsTrue ==
    \A c \in Checkers : CheckAt(c, "record") /\ nameChecks[c].ok
                          => published[nameRow.host] = nameChecks[c].ip

NameInv ==
    /\ NameShape
    /\ nameExcuse = {} => OneCheck /\ ChecksThisRow /\ SettledIsTrue /\ ToRecordIsTrue

LEMMA NameStarts == NameInit => NameInv
<1> SUFFICES ASSUME NameInit PROVE NameInv
  OBVIOUS
<1>1. nameRow \in NameRows /\ nameState = NoResult /\ nameState \in NameStates
  BY DEF NameInit, NameRows, NameStates, NoResult
<1>2. \A c \in Checkers : CheckAt(c, "idle")
  BY DEF NameInit, CheckAt, NoCheck
<1>3. ~ nameState.ok
  BY <1>1 DEF NoResult
<1>4. NameShape
  BY <1>1 DEF NameInit, NameShape
<1>5. OneCheck /\ ChecksThisRow /\ SettledIsTrue
  BY <1>2, <1>3 DEF OneCheck, ChecksThisRow, SettledIsTrue, RecordedIsPublished
<1>6. ToRecordIsTrue
  BY <1>2 DEF ToRecordIsTrue, CheckAt
<1> QED  BY <1>4, <1>5, <1>6 DEF NameInv

\* A check that is not idle has all that a check reads and finds.
LEMMA RunningCheck ==
    ASSUME NameShape, NEW c \in Checkers, ~ CheckAt(c, "idle")
    PROVE  nameChecks[c] \in CheckSet
BY DEF NameShape, CheckAt, NoCheck

LEMMA NameShapeStep ==
    ASSUME NameShape, [NameNext]_nameVars
    PROVE  NameShape'
<1> USE DEF NameShape
<1>1. ASSUME NEW c \in Checkers, NEW check \in {NoCheck} \cup CheckSet, CheckGoes(c, check)
      PROVE  nameChecks' \in [Checkers -> {NoCheck} \cup CheckSet]
  BY <1>1 DEF CheckGoes
<1>2. ASSUME NEW c \in Checkers, ChecksName(c) PROVE NameShape'
  <2>1. nameRow \in NameRows
    OBVIOUS
  <2>2. [NoCheck EXCEPT !.at = "states", !.row = nameRow] \in CheckSet
    BY <2>1 DEF NoCheck, NoResult, CheckSet, NameStates
  <2>3. nameChecks' \in [Checkers -> {NoCheck} \cup CheckSet]
    BY <1>1, <1>2, <2>2 DEF ChecksName
  <2> QED  BY <1>2, <2>3 DEF ChecksName, WorldStays
<1>3. ASSUME NEW c \in Checkers, ReadsStates(c) PROVE NameShape'
  <2>1. nameChecks[c] \in CheckSet
    BY <1>3, RunningCheck DEF ReadsStates, CheckAt
  <2>2. [nameChecks[c] EXCEPT !.at = "address", !.old = nameState] \in CheckSet
    BY <2>1 DEF CheckSet
  <2>3. nameChecks' \in [Checkers -> {NoCheck} \cup CheckSet]
    BY <1>1, <1>3, <2>2 DEF ReadsStates
  <2> QED  BY <1>3, <2>3 DEF ReadsStates, WorldStays
<1>4. ASSUME NEW c \in Checkers, FindsAddress(c) PROVE NameShape'
  <2>1. nameChecks[c] \in CheckSet
    BY <1>4, RunningCheck DEF FindsAddress, CheckAt
  <2>2. wanAddr \in Nat /\ nameChecks[c].old.ip \in Nat
    BY <2>1, NameAssumption DEF CheckSet, NameStates
  <2>3. /\ [nameChecks[c] EXCEPT !.at = "compare", !.ip = wanAddr] \in CheckSet
        /\ [nameChecks[c] EXCEPT !.at = "record", !.ip = nameChecks[c].old.ip, !.ok = FALSE] \in CheckSet
    BY <2>1, <2>2 DEF CheckSet
  <2>4. nameChecks' \in [Checkers -> {NoCheck} \cup CheckSet]
    BY <1>1, <1>4, <2>3 DEF FindsAddress
  <2> QED  BY <1>4, <2>4 DEF FindsAddress, WorldStays
<1>5. ASSUME NEW c \in Checkers, SkipsUpdate(c) PROVE NameShape'
  <2>1. nameChecks' \in [Checkers -> {NoCheck} \cup CheckSet]
    BY <1>1, <1>5 DEF SkipsUpdate
  <2> QED  BY <1>5, <2>1 DEF SkipsUpdate, WorldStays
<1>6. ASSUME NEW c \in Checkers, TellsProvider(c) PROVE NameShape'
  <2>1. nameChecks[c] \in CheckSet
    BY <1>6, RunningCheck DEF TellsProvider, CheckAt
  <2>2. PICK took \in BOOLEAN, answered \in BOOLEAN :
          /\ published' = IF took THEN [published EXCEPT ![nameChecks[c].row.host] = nameChecks[c].ip]
                                  ELSE published
          /\ CheckGoes(c, [nameChecks[c] EXCEPT !.at = "record", !.ok = took /\ answered])
    BY <1>6 DEF TellsProvider
  <2>3. published' \in [Hostnames -> Nat]
    BY <2>1, <2>2 DEF CheckSet, NameRows
  <2>4. \A b \in BOOLEAN : [nameChecks[c] EXCEPT !.at = "record", !.ok = b] \in CheckSet
    BY <2>1 DEF CheckSet
  <2>5. (took /\ answered) \in BOOLEAN
    BY Zenon
  <2>6. [nameChecks[c] EXCEPT !.at = "record", !.ok = took /\ answered] \in CheckSet
    BY <2>4, <2>5, Zenon
  <2>7. nameChecks' \in [Checkers -> {NoCheck} \cup CheckSet]
    BY <1>1, <2>2, <2>6
  <2> QED  BY <1>6, <2>3, <2>7 DEF TellsProvider
<1>7. ASSUME NEW c \in Checkers, RecordsResult(c) PROVE NameShape'
  <2>1. nameChecks[c] \in CheckSet
    BY <1>7, RunningCheck DEF RecordsResult, CheckAt
  <2>2. [ip |-> nameChecks[c].ip, ok |-> nameChecks[c].ok] \in NameStates
    BY <2>1 DEF CheckSet, NameStates
  <2>3. nameChecks' \in [Checkers -> {NoCheck} \cup CheckSet]
    BY <1>1, <1>7 DEF RecordsResult
  <2> QED  BY <1>7, <2>2, <2>3 DEF RecordsResult, WorldStays
<1>8. CASE SavesName
  BY <1>8 DEF SavesName, WorldStays, NameRows
<1>9. CASE ClearsState
  <2>1. nameState' \in {nameState, NoResult} /\ nameSave' = FALSE
        /\ UNCHANGED <<nameRow, wanAddr, published, nameChecks>>
    BY <1>9 DEF ClearsState, WorldStays
  <2>2. NoResult \in NameStates
    BY DEF NameStates, NoResult
  <2> QED  BY <2>1, <2>2
<1>10. CASE AddressChanges
  BY <1>10 DEF AddressChanges
<1>11. CASE NameRestart
  BY <1>11 DEF NameRestart, WorldStays
<1>12. CASE UNCHANGED nameVars
  BY <1>12 DEF nameVars
<1> QED  BY <1>2, <1>3, <1>4, <1>5, <1>6, <1>7, <1>8, <1>9, <1>10, <1>11, <1>12 DEF NameNext, NameStep

\* A check that goes on to another step stays the only one, about the same row.
LEMMA CheckGoesOn ==
    ASSUME NameShape, NEW c \in Checkers, NEW check, ~ CheckAt(c, "idle"), CheckGoes(c, check),
           check.row = nameChecks[c].row, UNCHANGED nameRow, OneCheck, ChecksThisRow
    PROVE  /\ OneCheck' /\ ChecksThisRow'
           /\ \A d \in Checkers \ {c} : CheckAt(d, "idle")'
           /\ nameChecks'[c] = check
<1>1. nameChecks'[c] = check /\ \A d \in Checkers \ {c} : nameChecks'[d] = nameChecks[d]
  BY DEF CheckGoes, NameShape
<1>2. \A d \in Checkers \ {c} : CheckAt(d, "idle")
  BY DEF OneCheck
<1>3. \A d \in Checkers \ {c} : CheckAt(d, "idle")'
  BY <1>1, <1>2 DEF CheckAt
<1>4. OneCheck'
  BY <1>3 DEF OneCheck
<1>5. ChecksThisRow'
  BY <1>1, <1>3 DEF ChecksThisRow
<1> QED  BY <1>1, <1>3, <1>4, <1>5

\* The end of the only check leaves none.
LEMMA LastCheckEnds ==
    ASSUME NameShape, NEW c \in Checkers, CheckGoes(c, NoCheck), \A d \in Checkers \ {c} : CheckAt(d, "idle")
    PROVE  \A d \in Checkers : nameChecks'[d].at = "idle"
BY DEF CheckGoes, NameShape, CheckAt, NoCheck

LEMMA NameInvStep ==
    ASSUME NameInv, [NameNext]_nameVars
    PROVE  NameInv'
<1> SUFFICES ASSUME nameExcuse' = {}
             PROVE  OneCheck' /\ ChecksThisRow' /\ SettledIsTrue' /\ ToRecordIsTrue'
  BY NameShapeStep DEF NameInv
<1> USE DEF NameInv
<1>1. ASSUME NEW c \in Checkers, ChecksName(c)
      PROVE  OneCheck' /\ ChecksThisRow' /\ SettledIsTrue' /\ ToRecordIsTrue'
  <2>1. nameExcuse = {} /\ NoCheckRuns
    BY <1>1 DEF ChecksName
  <2>2. /\ nameChecks'[c].at = "states" /\ nameChecks'[c].row = nameRow
        /\ \A d \in Checkers \ {c} : nameChecks'[d].at = "idle"
    BY <1>1, <2>1 DEF ChecksName, CheckGoes, NameShape, NoCheck, NoCheckRuns, CheckAt
  <2>3. UNCHANGED <<published, nameRow, nameState, nameSave>>
    BY <1>1 DEF ChecksName, WorldStays
  <2>4. OneCheck' /\ ChecksThisRow' /\ ToRecordIsTrue'
    BY <2>2, <2>3 DEF OneCheck, ChecksThisRow, ToRecordIsTrue, CheckAt
  <2>5. SettledIsTrue'
    BY <2>1, <2>3 DEF SettledIsTrue, RecordedIsPublished, NoCheckRuns, CheckAt
  <2> QED  BY <2>4, <2>5
<1>2. ASSUME NEW c \in Checkers, ReadsStates(c)
      PROVE  OneCheck' /\ ChecksThisRow' /\ SettledIsTrue' /\ ToRecordIsTrue'
  <2>1. nameExcuse = {} /\ ~ CheckAt(c, "idle") /\ nameChecks[c] \in CheckSet
    BY <1>2, RunningCheck DEF ReadsStates, CheckAt
  <2> DEFINE check == [nameChecks[c] EXCEPT !.at = "address", !.old = nameState]
  <2>2. check.row = nameChecks[c].row /\ check.at = "address"
    BY <2>1 DEF CheckSet
  <2>3. UNCHANGED <<published, nameRow, nameState, nameSave>>
    BY <1>2 DEF ReadsStates, WorldStays
  <2>4. CheckGoes(c, check)
    BY <1>2 DEF ReadsStates
  <2> HIDE DEF check
  <2>5. /\ OneCheck' /\ ChecksThisRow' /\ nameChecks'[c] = check
        /\ \A d \in Checkers \ {c} : CheckAt(d, "idle")'
    BY <2>1, <2>2, <2>3, <2>4, CheckGoesOn
  <2>6. \A d \in Checkers : ~ CheckAt(d, "record") /\ ~ CheckAt(d, "record")'
    BY <1>2, <2>1, <2>2, <2>5 DEF CheckAt, OneCheck, ReadsStates
  <2>7. SettledIsTrue' /\ ToRecordIsTrue'
    BY <2>1, <2>3, <2>6 DEF SettledIsTrue, RecordedIsPublished, ToRecordIsTrue
  <2> QED  BY <2>5, <2>7
<1>3. ASSUME NEW c \in Checkers, FindsAddress(c)
      PROVE  OneCheck' /\ ChecksThisRow' /\ SettledIsTrue' /\ ToRecordIsTrue'
  <2>1. nameExcuse = {} /\ ~ CheckAt(c, "idle") /\ nameChecks[c] \in CheckSet
    BY <1>3, RunningCheck DEF FindsAddress, CheckAt, NoNameFault, NameFault
  <2>2. PICK check : /\ CheckGoes(c, check) /\ check.row = nameChecks[c].row
                     /\ check.at = "compare" \/ (check.at = "record" /\ ~ check.ok)
    <3>1. CASE CheckGoes(c, [nameChecks[c] EXCEPT !.at = "compare", !.ip = wanAddr])
      <4>1. LET k == [nameChecks[c] EXCEPT !.at = "compare", !.ip = wanAddr]
            IN  k.row = nameChecks[c].row /\ k.at = "compare"
        BY <2>1 DEF CheckSet
      <4> QED  BY <3>1, <4>1
    <3>2. CASE CheckGoes(c, [nameChecks[c] EXCEPT !.at = "record", !.ip = nameChecks[c].old.ip, !.ok = FALSE])
      <4>1. LET k == [nameChecks[c] EXCEPT !.at = "record", !.ip = nameChecks[c].old.ip, !.ok = FALSE]
            IN  k.row = nameChecks[c].row /\ k.at = "record" /\ ~ k.ok
        BY <2>1 DEF CheckSet
      <4> QED  BY <3>2, <4>1
    <3> QED  BY <1>3, <3>1, <3>2 DEF FindsAddress
  <2>3. UNCHANGED <<published, nameRow, nameState, nameSave>>
    BY <1>3 DEF FindsAddress, WorldStays
  <2>4. /\ OneCheck' /\ ChecksThisRow' /\ nameChecks'[c] = check
        /\ \A d \in Checkers \ {c} : CheckAt(d, "idle")'
    BY <2>1, <2>2, <2>3, CheckGoesOn
  <2>5. \A d \in Checkers : ~ CheckAt(d, "record")
    BY <1>3, <2>1 DEF CheckAt, OneCheck, FindsAddress
  <2>6. SettledIsTrue'
    BY <2>1, <2>3, <2>5 DEF SettledIsTrue, RecordedIsPublished
  <2>7. ToRecordIsTrue'
    BY <2>2, <2>4 DEF ToRecordIsTrue, CheckAt
  <2> QED  BY <2>4, <2>6, <2>7
<1>4. ASSUME NEW c \in Checkers, SkipsUpdate(c)
      PROVE  OneCheck' /\ ChecksThisRow' /\ SettledIsTrue' /\ ToRecordIsTrue'
  <2>1. nameExcuse = {} /\ CheckAt(c, "compare") /\ UNCHANGED <<published, nameRow, nameState, nameSave>>
    BY <1>4 DEF SkipsUpdate, WorldStays
  <2>2. \A d \in Checkers \ {c} : CheckAt(d, "idle")
    BY <2>1 DEF OneCheck, CheckAt
  <2>3. \A d \in Checkers : CheckAt(d, "idle")'
    BY <1>4, <2>2, LastCheckEnds DEF SkipsUpdate, CheckAt
  <2>4. OneCheck' /\ ChecksThisRow' /\ ToRecordIsTrue'
    BY <2>3 DEF OneCheck, ChecksThisRow, ToRecordIsTrue, CheckAt
  <2>5. SettledIsTrue'
    BY <2>1, <2>2 DEF SettledIsTrue, RecordedIsPublished, CheckAt
  <2> QED  BY <2>4, <2>5
<1>5. ASSUME NEW c \in Checkers, TellsProvider(c)
      PROVE  OneCheck' /\ ChecksThisRow' /\ SettledIsTrue' /\ ToRecordIsTrue'
  <2>1. nameExcuse = {} /\ ~ CheckAt(c, "idle") /\ nameChecks[c] \in CheckSet
    BY <1>5, RunningCheck DEF TellsProvider, CheckAt, NoNameFault, NameFault
  <2>2. PICK took \in BOOLEAN, answered \in BOOLEAN :
          /\ published' = IF took THEN [published EXCEPT ![nameChecks[c].row.host] = nameChecks[c].ip]
                                  ELSE published
          /\ CheckGoes(c, [nameChecks[c] EXCEPT !.at = "record", !.ok = took /\ answered])
    BY <1>5 DEF TellsProvider
  <2>3. PICK check : /\ CheckGoes(c, check) /\ check.row = nameChecks[c].row /\ check.at = "record"
                     /\ check.ip = nameChecks[c].ip /\ (check.ok => took)
    <3>1. \A b \in BOOLEAN : LET k == [nameChecks[c] EXCEPT !.at = "record", !.ok = b]
                             IN  k.row = nameChecks[c].row /\ k.at = "record" /\ k.ip = nameChecks[c].ip /\ k.ok = b
      BY <2>1 DEF CheckSet
    <3>2. PICK b \in BOOLEAN : b = (took /\ answered)
      BY Zenon
    <3>3. CheckGoes(c, [nameChecks[c] EXCEPT !.at = "record", !.ok = b])
      BY <2>2, <3>2, Zenon
    <3> QED  BY <3>1, <3>2, <3>3
  <2>4. UNCHANGED <<nameRow, nameState, nameSave>>
    BY <1>5 DEF TellsProvider
  <2>5. /\ OneCheck' /\ ChecksThisRow' /\ nameChecks'[c] = check
        /\ \A d \in Checkers \ {c} : CheckAt(d, "idle")'
    BY <2>1, <2>3, <2>4, CheckGoesOn
  <2>6. SettledIsTrue'
    BY <2>3, <2>5 DEF SettledIsTrue, CheckAt
  <2>7. took => published'[nameRow.host] = check.ip
    BY <2>1, <2>2, <2>3 DEF ChecksThisRow, NameShape, NameRows
  <2>8. ToRecordIsTrue'
    BY <2>3, <2>4, <2>5, <2>7 DEF ToRecordIsTrue, CheckAt
  <2> QED  BY <2>5, <2>6, <2>8
<1>6. ASSUME NEW c \in Checkers, RecordsResult(c)
      PROVE  OneCheck' /\ ChecksThisRow' /\ SettledIsTrue' /\ ToRecordIsTrue'
  <2>1. /\ CheckAt(c, "record") /\ CheckGoes(c, NoCheck)
        /\ UNCHANGED <<published, nameRow, nameSave>>
        /\ nameState' = [ip |-> nameChecks[c].ip, ok |-> nameChecks[c].ok]
        /\ nameExcuse' = IF nameChecks[c].ok /\ Alone(c) THEN {} ELSE nameExcuse
    BY <1>6 DEF RecordsResult, WorldStays, NameFault
  <2>2. CASE nameExcuse = {}
    <3>1. \A d \in Checkers \ {c} : CheckAt(d, "idle")
      BY <2>1, <2>2 DEF OneCheck, CheckAt
    <3>2. \A d \in Checkers : CheckAt(d, "idle")'
      BY <2>1, <3>1, LastCheckEnds DEF CheckAt
    <3>3. OneCheck' /\ ChecksThisRow' /\ ToRecordIsTrue'
      BY <3>2 DEF OneCheck, ChecksThisRow, ToRecordIsTrue, CheckAt
    <3>4. SettledIsTrue'
      BY <2>1, <2>2 DEF SettledIsTrue, RecordedIsPublished, ToRecordIsTrue
    <3> QED  BY <3>3, <3>4
  <2>3. CASE Alone(c)
    <3>1. \A d \in Checkers : CheckAt(d, "idle")'
      BY <2>1, <2>3, LastCheckEnds DEF Alone, CheckAt
    <3>2. OneCheck' /\ ChecksThisRow' /\ ToRecordIsTrue'
      BY <3>1 DEF OneCheck, ChecksThisRow, ToRecordIsTrue, CheckAt
    <3>3. SettledIsTrue'
      BY <2>1, <2>3 DEF SettledIsTrue, RecordedIsPublished, Alone
    <3> QED  BY <3>2, <3>3
  <2> QED  BY <2>1, <2>2, <2>3
<1>7. CASE SavesName
  <2>1. nameExcuse = {} /\ NoCheckRuns /\ nameSave' /\ nameChecks' = nameChecks
    BY <1>7 DEF SavesName
  <2>2. \A c \in Checkers : CheckAt(c, "idle")'
    BY <2>1 DEF NoCheckRuns, CheckAt
  <2> QED  BY <2>1, <2>2 DEF OneCheck, ChecksThisRow, SettledIsTrue, ToRecordIsTrue, CheckAt
<1>8. CASE ClearsState
  <2>1. nameExcuse = {} /\ nameState' = NoResult /\ UNCHANGED <<published, nameRow, nameChecks>>
    BY <1>8 DEF ClearsState, NoNameFault, NameFault, WorldStays
  <2>2. SettledIsTrue'
    BY <2>1 DEF SettledIsTrue, RecordedIsPublished, NoResult
  <2> QED  BY <2>1, <2>2 DEF OneCheck, ChecksThisRow, ToRecordIsTrue, CheckAt
<1>9. CASE AddressChanges
  BY <1>9 DEF AddressChanges, OneCheck, ChecksThisRow, SettledIsTrue, ToRecordIsTrue, CheckAt,
              RecordedIsPublished
<1>10. CASE NameRestart
  <2>1. nameExcuse = {} /\ ~ nameSave /\ NoCheckRuns /\ UNCHANGED <<published, nameRow, nameState>>
    BY <1>10 DEF NameRestart, NameFault, WorldStays
  <2>2. \A c \in Checkers : CheckAt(c, "idle")'
    BY <1>10 DEF NameRestart, NoCheck, CheckAt
  <2>3. SettledIsTrue'
    BY <2>1 DEF SettledIsTrue, RecordedIsPublished, NoCheckRuns, CheckAt
  <2> QED  BY <2>2, <2>3 DEF OneCheck, ChecksThisRow, ToRecordIsTrue, CheckAt
<1>11. CASE UNCHANGED nameVars
  BY <1>11 DEF nameVars, OneCheck, ChecksThisRow, SettledIsTrue, ToRecordIsTrue, CheckAt,
               RecordedIsPublished
<1> QED
  BY <1>1, <1>2, <1>3, <1>4, <1>5, <1>6, <1>7, <1>8, <1>9, <1>10, <1>11 DEF NameNext, NameStep

LEMMA NameInvHolds == NameInv => UpdatedIsPublished
BY DEF NameInv, UpdatedIsPublished, SettledIsTrue, NoCheckRuns, CheckAt

-----------------------------------------------------------------------------
(* The trial of an interface *)

TrialRows  == [old : Files, new : Contents, due : BOOLEAN]
ChangeSet  == [at : {"write", "load", "record"}, new : Contents, old : Files]
ResolveSet == [at : {"adopt", "restore", "reload", "delete"}, taken : TrialRows]

TrialShape ==
    /\ ifaceFile \in Files /\ loaded \in Files /\ managed \in Files /\ accepted \in Files
    /\ row \in {NoRow} \cup TrialRows
    /\ changer \in [Changers -> {NotCalled, ChangeDone} \cup ChangeSet]
    /\ resolver \in [Resolvers -> {NotCalled} \cup ResolveSet]
    /\ resolver["confirm"].at \in {"idle", "adopt", "delete"}
    /\ \A r \in Resolvers \ {"confirm"} : resolver[r].at # "adopt"
    /\ torn \in BOOLEAN

IsChanging(c)  == changer[c].at \in {"write", "load", "record"}
IsResolving(r) == resolver[r].at # "idle"

\* One call at a time has hold of the interface: a change before there is a
\* row, or a resolution of the row there is.
OneCall ==
    /\ \A c, d \in Changers : IsChanging(c) /\ IsChanging(d) => c = d
    /\ \A c \in Changers, r \in Resolvers : IsChanging(c) => row = NoRow /\ ~ IsResolving(r)
    /\ \A r, q \in Resolvers : IsResolving(r) /\ IsResolving(q) => r = q
    /\ \A r \in Resolvers :
         IsResolving(r) => row # NoRow /\ resolver[r].taken.old = row.old /\ resolver[r].taken.new = row.new

\* How far a change has got, from what the operator had.
ChangeProgress ==
    \A c \in Changers : IsChanging(c) =>
      /\ changer[c].old = accepted
      /\ ifaceFile = IF changer[c].at = "write" THEN accepted ELSE changer[c].new
      /\ loaded = IF changer[c].at = "record" THEN changer[c].new ELSE accepted

\* Nothing pending and nobody changing: what the operator had is there.
AtRest == row = NoRow /\ (\A c \in Changers : ~ IsChanging(c)) => ifaceFile = accepted /\ loaded = accepted

\* A pending row says what the operator had, until its confirmation is adopted.
RowHolds ==
    row # NoRow /\ resolver["confirm"].at # "delete" =>
      /\ row.old = accepted /\ ifaceFile \in {row.old, row.new}
      /\ ifaceFile = row.new => loaded = row.new

\* How far a resolution has got.
ResolveProgress ==
    /\ resolver["confirm"].at = "adopt" => ifaceFile = row.new
    /\ resolver["confirm"].at = "delete" =>
         managed = row.new /\ accepted = row.new /\ ifaceFile = row.new /\ loaded = row.new
    /\ \A r \in Resolvers \ {"confirm"} :
         /\ resolver[r].at \in {"reload", "delete"} => ifaceFile = row.old
         /\ resolver[r].at = "delete" => loaded = row.old

TrialKept == OneCall /\ ChangeProgress /\ AtRest /\ RowHolds /\ ResolveProgress

TrialInv == TrialShape /\ (~ torn => TrialKept)

LEMMA NoRowIsNone == NoRow \notin TrialRows
<1>1. \A r \in TrialRows : "new" \in DOMAIN r
  BY DEF TrialRows
<1>2. "new" \notin DOMAIN NoRow
  BY DEF NoRow
<1> QED  BY <1>1, <1>2

\* A call that is under way has all that it read when it began.
LEMMA ChangingIs ==
    ASSUME TrialShape, NEW c \in Changers, IsChanging(c)
    PROVE  changer[c] \in ChangeSet
BY DEF TrialShape, IsChanging, NotCalled, ChangeDone

LEMMA ResolvingIs ==
    ASSUME TrialShape, NEW r \in Resolvers, IsResolving(r)
    PROVE  resolver[r] \in ResolveSet
BY DEF TrialShape, IsResolving, NotCalled

LEMMA RowIs ==
    ASSUME TrialShape, row # NoRow
    PROVE  row \in TrialRows
BY DEF TrialShape

LEMMA TrialStarts == InterfaceInit => TrialInv
<1> SUFFICES ASSUME InterfaceInit PROVE TrialInv
  OBVIOUS
<1>1. /\ row = NoRow /\ ifaceFile = accepted /\ loaded = accepted
      /\ \A c \in Changers : ~ IsChanging(c)
      /\ \A r \in Resolvers : resolver[r].at = "idle"
  BY DEF InterfaceInit, IsChanging, NotCalled
<1>2. "confirm" \in Resolvers
  BY DEF Resolvers
<1>3. TrialShape
  BY <1>1, <1>2 DEF InterfaceInit, TrialShape
<1>4. TrialKept
  BY <1>1, <1>2 DEF TrialKept, OneCall, ChangeProgress, AtRest, RowHolds, ResolveProgress, IsResolving
<1> QED  BY <1>3, <1>4 DEF TrialInv

LEMMA ChangeKeepsShape ==
    ASSUME TrialShape, NEW c \in Changers, ChangeReads(c) \/ ChangeStep(c)
    PROVE  TrialShape'
<1> USE DEF TrialShape
<1>1. torn' \in BOOLEAN
  <2>1. CASE ChangeReads(c)
    <3>1. PICK old \in OldContent : torn' = (torn \/ old # ifaceFile \/ Changing \/ Resolving)
      BY <2>1 DEF ChangeReads
    <3> QED  BY <3>1, Zenon
  <2>2. CASE ChangeStep(c)
    BY <2>2 DEF ChangeStep, ChangeWrites, ChangeLoads, ChangeRecords
  <2> QED  BY <2>1, <2>2
<1>2. CASE ChangeReads(c)
  <2>1. PICK new \in Contents, old \in OldContent :
          changer' = [changer EXCEPT ![c] = [at |-> "write", new |-> new, old |-> old]]
    BY <1>2 DEF ChangeReads
  <2>2. old \in Files
    BY <2>1 DEF OldContent, Files
  <2>3. [at |-> "write", new |-> new, old |-> old] \in ChangeSet
    BY <2>1, <2>2 DEF ChangeSet
  <2>4. changer' \in [Changers -> {NotCalled, ChangeDone} \cup ChangeSet]
    BY <2>1, <2>3
  <2> QED  BY <1>1, <1>2, <2>4 DEF ChangeReads
<1>3. CASE ChangeStep(c)
  <2>1. IsChanging(c) /\ changer[c] \in ChangeSet
    BY <1>3, ChangingIs DEF ChangeStep, ChangeWrites, ChangeLoads, ChangeRecords, IsChanging
  <2>2. \A at \in {"write", "load", "record"} : [changer[c] EXCEPT !.at = at] \in ChangeSet
    BY <2>1 DEF ChangeSet
  <2>3. \/ changer' = [changer EXCEPT ![c] = ChangeDone]
        \/ \E at \in {"write", "load", "record"} :
             changer' = [changer EXCEPT ![c] = [changer[c] EXCEPT !.at = at]]
    BY <1>3 DEF ChangeStep, ChangeWrites, ChangeLoads, ChangeRecords
  <2>4. changer' \in [Changers -> {NotCalled, ChangeDone} \cup ChangeSet]
    BY <2>2, <2>3
  <2>5. ifaceFile' \in Files /\ loaded' \in Files
    BY <1>3, <2>1 DEF ChangeStep, ChangeWrites, ChangeLoads, ChangeRecords, ChangeSet, Files
  <2>6. row' \in {NoRow} \cup TrialRows
    <3>1. row' \in {row, [old |-> changer[c].old, new |-> changer[c].new, due |-> FALSE]}
      BY <1>3 DEF ChangeStep, ChangeWrites, ChangeLoads, ChangeRecords
    <3>2. [old |-> changer[c].old, new |-> changer[c].new, due |-> FALSE] \in TrialRows
      BY <2>1 DEF ChangeSet, TrialRows
    <3> QED  BY <3>1, <3>2
  <2>7. UNCHANGED <<managed, resolver, accepted>>
    BY <1>3 DEF ChangeStep, ChangeWrites, ChangeLoads, ChangeRecords
  <2> QED  BY <1>1, <2>4, <2>5, <2>6, <2>7
<1> QED  BY <1>2, <1>3

LEMMA ResolveKeepsShape ==
    ASSUME TrialShape, NEW r \in Resolvers, Takes(r) \/ ResolveStep(r)
    PROVE  TrialShape'
<1> USE DEF TrialShape
<1>1. torn' \in BOOLEAN
  <2>1. CASE Takes(r)
    <3>1. torn' = (torn \/ Resolving \/ (r = "confirm" /\ ifaceFile # row.new))
      BY <2>1 DEF Takes
    <3> QED  BY <3>1, Zenon
  <2>2. CASE DeletesRow(r)
    <3>1. torn' = (torn \/ (r = "confirm" /\ row' # NoRow))
      BY <2>2 DEF DeletesRow
    <3> QED  BY <3>1, Zenon
  <2>3. CASE Restores(r) \/ ReloadsRestored(r) \/ ConfirmAdopts
    BY <2>3 DEF Restores, ReloadsRestored, ConfirmAdopts
  <2> QED  BY <2>1, <2>2, <2>3 DEF ResolveStep
<1>2. "confirm" \in Resolvers
  BY DEF Resolvers
<1>3. CASE Takes(r)
  <2>1. [at |-> IF r = "confirm" THEN "adopt" ELSE "restore", taken |-> row] \in ResolveSet
    BY <1>3, RowIs DEF Takes, MayTake, ResolveSet
  <2>2. resolver' \in [Resolvers -> {NotCalled} \cup ResolveSet]
    BY <1>3, <2>1 DEF Takes
  <2>3. resolver'["confirm"].at \in {"idle", "adopt", "delete"}
    BY <1>2, <1>3 DEF Takes
  <2>4. \A q \in Resolvers \ {"confirm"} : resolver'[q].at # "adopt"
    BY <1>3 DEF Takes
  <2> QED  BY <1>1, <1>3, <2>2, <2>3, <2>4 DEF Takes
<1>4. CASE ResolveStep(r)
  <2>1. IsResolving(r) /\ resolver[r] \in ResolveSet
    BY <1>4, ResolvingIs DEF ResolveStep, Restores, ReloadsRestored, DeletesRow, ConfirmAdopts, IsResolving
  <2>2. \A at \in {"reload", "delete"} : [resolver[r] EXCEPT !.at = at] \in ResolveSet
    BY <2>1 DEF ResolveSet
  <2>3. \/ resolver' = [resolver EXCEPT ![r] = NotCalled]
        \/ resolver' = [resolver EXCEPT ![r] = [resolver[r] EXCEPT !.at = "delete"]]
        \/ resolver' = [resolver EXCEPT ![r] = [resolver[r] EXCEPT !.at = "reload"]] /\ r # "confirm"
    BY <1>4 DEF ResolveStep, Restores, ReloadsRestored, DeletesRow, ConfirmAdopts, AfterFailure
  <2>4. resolver' \in [Resolvers -> {NotCalled} \cup ResolveSet]
    BY <2>2, <2>3
  <2>5. /\ resolver'["confirm"].at \in {"idle", "adopt", "delete"}
        /\ \A q \in Resolvers \ {"confirm"} : resolver'[q].at # "adopt"
    BY <1>2, <2>1, <2>3 DEF NotCalled, ResolveSet
  <2>6. resolver[r].taken.old \in Files /\ resolver[r].taken.new \in Files
    BY <2>1 DEF ResolveSet, TrialRows, Files
  <2>7. {ifaceFile', loaded', managed', accepted'} \subseteq Files
    BY <1>4, <2>6 DEF ResolveStep, Restores, ReloadsRestored, DeletesRow, ConfirmAdopts, Restored
  <2>8. row' \in {NoRow, row} /\ changer' = changer
    BY <1>4 DEF ResolveStep, Restores, ReloadsRestored, DeletesRow, ConfirmAdopts
  <2> QED  BY <1>1, <2>4, <2>5, <2>7, <2>8
<1> QED  BY <1>3, <1>4

LEMMA TrialShapeStep ==
    ASSUME TrialShape, [InterfaceNext]_trialVars
    PROVE  TrialShape'
<1>1. CASE DeadlinePasses
  <2>1. row' \in TrialRows
    BY <1>1, RowIs DEF DeadlinePasses, TrialRows
  <2> QED  BY <1>1, <2>1 DEF DeadlinePasses, TrialShape
<1>2. CASE TrialRestart
  <2>1. torn' \in BOOLEAN
    <3>1. torn' = (torn \/ resolver["confirm"].at = "delete"
                     \/ \E c \in Changers : changer[c].at \in {"load", "record"})
      BY <1>2 DEF TrialRestart
    <3> QED  BY <3>1, Zenon
  <2>2. \A r \in Resolvers : resolver'[r].at = "idle"
    BY <1>2 DEF TrialRestart, NotCalled
  <2>3. "confirm" \in Resolvers
    BY DEF Resolvers
  <2> QED  BY <1>2, <2>1, <2>2, <2>3 DEF TrialRestart, TrialShape
<1>3. CASE UNCHANGED trialVars
  BY <1>3 DEF trialVars, TrialShape
<1> QED  BY <1>1, <1>2, <1>3, ChangeKeepsShape, ResolveKeepsShape DEF InterfaceNext

\* With a row there is no change under way, and with a change no resolution.
LEMMA NobodyElse ==
    ASSUME OneCall
    PROVE  /\ row # NoRow => \A c \in Changers : ~ IsChanging(c)
           /\ \A c \in Changers : IsChanging(c) =>
                /\ row = NoRow /\ \A r \in Resolvers : ~ IsResolving(r)
                /\ \A d \in Changers \ {c} : ~ IsChanging(d)
           /\ \A r \in Resolvers : IsResolving(r) =>
                /\ row # NoRow /\ \A q \in Resolvers \ {r} : ~ IsResolving(q)
<1>1. "confirm" \in Resolvers
  BY DEF Resolvers
<1> QED  BY <1>1 DEF OneCall

LEMMA ChangeKeepsTrial ==
    ASSUME TrialShape, ~ torn => TrialKept, NEW c \in Changers, ChangeReads(c) \/ ChangeStep(c), ~ torn'
    PROVE  TrialKept'
<1> USE DEF TrialKept
<1>0. "confirm" \in Resolvers
  BY DEF Resolvers
<1>1. CASE ChangeReads(c)
  <2>1. PICK new \in Contents, old \in OldContent :
          /\ changer' = [changer EXCEPT ![c] = [at |-> "write", new |-> new, old |-> old]]
          /\ torn' = (torn \/ old # ifaceFile \/ Changing \/ Resolving)
    BY <1>1 DEF ChangeReads
  <2>2. ~ torn /\ old = ifaceFile /\ ~ Changing /\ ~ Resolving
    BY <2>1, Zenon
  <2>3. /\ row = NoRow /\ ifaceFile = accepted /\ loaded = accepted
        /\ \A d \in Changers : ~ IsChanging(d)
        /\ \A r \in Resolvers : resolver[r].at = "idle"
    BY <1>1, <2>2 DEF ChangeReads, MayChange, AtRest, Changing, IsChanging, Resolving
  <2>4. UNCHANGED <<ifaceFile, loaded, managed, row, resolver, accepted>>
    BY <1>1 DEF ChangeReads
  <2>5. /\ changer'[c] = [at |-> "write", new |-> new, old |-> old]
        /\ \A d \in Changers \ {c} : changer'[d] = changer[d]
    BY <2>1 DEF TrialShape
  <2>6. IsChanging(c)' /\ \A d \in Changers \ {c} : ~ IsChanging(d)'
    BY <2>3, <2>5 DEF IsChanging
  <2>7. OneCall'
    BY <2>3, <2>4, <2>6 DEF OneCall, IsResolving
  <2>8. ChangeProgress'
    BY <2>2, <2>3, <2>4, <2>5, <2>6 DEF ChangeProgress
  <2>9. AtRest' /\ RowHolds' /\ ResolveProgress'
    BY <1>0, <2>3, <2>4, <2>6 DEF AtRest, RowHolds, ResolveProgress
  <2> QED  BY <2>7, <2>8, <2>9
<1>2. CASE ChangeStep(c)
  <2>1. ~ torn /\ IsChanging(c) /\ changer[c] \in ChangeSet
    BY <1>2, ChangingIs DEF ChangeStep, ChangeWrites, ChangeLoads, ChangeRecords, IsChanging
  <2>2. /\ row = NoRow /\ \A r \in Resolvers : resolver[r].at = "idle"
        /\ \A d \in Changers \ {c} : ~ IsChanging(d)
    BY <2>1, NobodyElse DEF IsResolving
  <2>3. changer[c].old = accepted
    BY <2>1 DEF ChangeProgress
  <2>4. UNCHANGED <<managed, resolver, accepted>> /\ \A d \in Changers \ {c} : changer'[d] = changer[d]
    BY <1>2 DEF ChangeStep, ChangeWrites, ChangeLoads, ChangeRecords, TrialShape
  <2>5. \A d \in Changers \ {c} : ~ IsChanging(d)'
    BY <2>2, <2>4 DEF IsChanging
  <2>6. ResolveProgress'
    BY <1>0, <2>2, <2>4 DEF ResolveProgress
  <2>7. OneCall' \/ (row' # NoRow /\ IsChanging(c)')
    BY <2>2, <2>4, <2>5 DEF OneCall, IsResolving
  <2>8. ASSUME changer'[c] = ChangeDone
        PROVE  ~ IsChanging(c)' /\ OneCall' /\ ChangeProgress'
    <3>1. ~ IsChanging(c)'
      BY <2>8 DEF IsChanging, ChangeDone
    <3> QED  BY <2>5, <2>7, <3>1 DEF ChangeProgress
  <2>9. CASE ChangeWrites(c)
    <3>1. ifaceFile = accepted /\ loaded = accepted /\ row' = NoRow /\ loaded' = loaded
      BY <2>1, <2>2, <2>9 DEF ChangeProgress, ChangeWrites
    <3>2. CASE changer' = [changer EXCEPT ![c] = ChangeDone] /\ ifaceFile' = ifaceFile
      <4>1. changer'[c] = ChangeDone
        BY <3>2 DEF TrialShape
      <4> QED  BY <2>4, <2>6, <2>8, <3>1, <3>2, <4>1 DEF AtRest, RowHolds
    <3>3. CASE changer' = [changer EXCEPT ![c].at = "load"] /\ ifaceFile' = changer[c].new
      <4>1. changer'[c].at = "load" /\ changer'[c].new = changer[c].new /\ changer'[c].old = changer[c].old
        BY <2>1, <3>3 DEF TrialShape, ChangeSet
      <4>2. IsChanging(c)'
        BY <4>1 DEF IsChanging
      <4>3. ChangeProgress'
        BY <2>3, <2>4, <2>5, <3>1, <3>3, <4>1 DEF ChangeProgress
      <4> QED  BY <2>6, <2>7, <3>1, <4>2, <4>3 DEF AtRest, RowHolds
    <3> QED  BY <2>9, <3>2, <3>3 DEF ChangeWrites
  <2>10. CASE ChangeLoads(c)
    <3>1. /\ loaded' = ifaceFile /\ ifaceFile' = ifaceFile /\ row' = NoRow
          /\ changer' = [changer EXCEPT ![c].at = "record"]
      BY <2>2, <2>10 DEF ChangeLoads
    <3>2. ifaceFile = changer[c].new
      BY <2>1, <2>10 DEF ChangeProgress, ChangeLoads
    <3>3. changer'[c].at = "record" /\ changer'[c].new = changer[c].new /\ changer'[c].old = changer[c].old
      BY <2>1, <3>1 DEF TrialShape, ChangeSet
    <3>4. IsChanging(c)'
      BY <3>3 DEF IsChanging
    <3>5. ChangeProgress'
      BY <2>3, <2>4, <2>5, <3>1, <3>2, <3>3 DEF ChangeProgress
    <3> QED  BY <2>6, <2>7, <3>1, <3>4, <3>5 DEF AtRest, RowHolds
  <2>11. CASE ChangeRecords(c)
    <3>1. /\ row' = [old |-> changer[c].old, new |-> changer[c].new, due |-> FALSE]
          /\ changer' = [changer EXCEPT ![c] = ChangeDone]
          /\ ifaceFile' = ifaceFile /\ loaded' = loaded
      BY <2>11 DEF ChangeRecords
    <3>2. ifaceFile = changer[c].new /\ loaded = changer[c].new
      BY <2>1, <2>11 DEF ChangeProgress, ChangeRecords
    <3>3. changer'[c] = ChangeDone
      BY <3>1 DEF TrialShape
    <3>4. row'.old = changer[c].old /\ row'.new = changer[c].new
      BY <3>1
    <3>5. row' # NoRow
      <4>1. row' \in TrialRows
        BY <2>1, <3>1 DEF TrialRows, ChangeSet
      <4> QED  BY <4>1, NoRowIsNone
    <3>6. RowHolds'
      BY <2>3, <2>4, <3>1, <3>2, <3>4 DEF RowHolds
    <3> QED  BY <2>6, <2>8, <3>3, <3>5, <3>6 DEF AtRest
  <2> QED  BY <1>2, <2>9, <2>10, <2>11 DEF ChangeStep
<1> QED  BY <1>1, <1>2

LEMMA ResolveKeepsTrial ==
    ASSUME TrialShape, ~ torn => TrialKept, NEW r \in Resolvers, Takes(r) \/ ResolveStep(r), ~ torn'
    PROVE  TrialKept'
<1> USE DEF TrialKept
<1>0. "confirm" \in Resolvers
  BY DEF Resolvers
<1>1. CASE Takes(r)
  <2>1. torn' = (torn \/ Resolving \/ (r = "confirm" /\ ifaceFile # row.new))
    BY <1>1 DEF Takes
  <2>2. ~ torn /\ ~ Resolving /\ (r = "confirm" => ifaceFile = row.new)
    BY <2>1, Zenon
  <2>3. row # NoRow /\ UNCHANGED <<ifaceFile, loaded, managed, row, changer, accepted>>
    BY <1>1 DEF Takes, MayTake
  <2>4. /\ resolver'[r] = [at |-> IF r = "confirm" THEN "adopt" ELSE "restore", taken |-> row]
        /\ \A q \in Resolvers \ {r} : resolver'[q] = resolver[q]
    BY <1>1 DEF Takes, TrialShape
  <2>5. \A q \in Resolvers \ {r} : resolver'[q].at = "idle"
    BY <2>2, <2>4 DEF Resolving
  <2>6. resolver'[r].at = (IF r = "confirm" THEN "adopt" ELSE "restore") /\ resolver'[r].taken = row
    BY <2>4
  <2>7. OneCall'
    <3>1. \A c \in Changers : ~ IsChanging(c)
      BY <2>2, <2>3, NobodyElse
    <3>2. \A c \in Changers : ~ IsChanging(c)'
      BY <2>3, <3>1 DEF IsChanging
    <3> QED  BY <2>3, <2>5, <2>6, <3>2 DEF OneCall, IsResolving
  <2>8. ChangeProgress' /\ AtRest'
    BY <2>2, <2>3 DEF ChangeProgress, AtRest, IsChanging
  <2>9. resolver["confirm"].at # "delete" /\ resolver'["confirm"].at # "delete"
    BY <1>0, <2>2, <2>5, <2>6 DEF Resolving
  <2>10. RowHolds'
    BY <2>2, <2>3, <2>9 DEF RowHolds
  <2>11. ResolveProgress'
    BY <1>0, <2>2, <2>3, <2>5, <2>6, <2>9 DEF ResolveProgress
  <2> QED  BY <2>7, <2>8, <2>10, <2>11
<1>2. CASE ResolveStep(r)
  <2>1. ~ torn
    <3>1. CASE DeletesRow(r)
      <4>1. torn' = (torn \/ (r = "confirm" /\ row' # NoRow))
        BY <3>1 DEF DeletesRow
      <4> QED  BY <4>1, Zenon
    <3>2. CASE Restores(r) \/ ReloadsRestored(r) \/ ConfirmAdopts
      BY <3>2 DEF Restores, ReloadsRestored, ConfirmAdopts
    <3> QED  BY <1>2, <3>1, <3>2 DEF ResolveStep
  <2>2. IsResolving(r) /\ resolver[r] \in ResolveSet
    BY <1>2, ResolvingIs DEF ResolveStep, Restores, ReloadsRestored, DeletesRow, ConfirmAdopts, IsResolving
  <2>3. /\ row # NoRow /\ \A q \in Resolvers \ {r} : resolver[q].at = "idle"
        /\ \A c \in Changers : ~ IsChanging(c)
        /\ resolver[r].taken.old = row.old /\ resolver[r].taken.new = row.new
    BY <2>1, <2>2, NobodyElse DEF IsResolving, OneCall
  <2>4. changer' = changer /\ \A c \in Changers : ~ IsChanging(c)'
    BY <1>2, <2>3 DEF ResolveStep, Restores, ReloadsRestored, DeletesRow, ConfirmAdopts, IsChanging
  <2>5. \A q \in Resolvers \ {r} : resolver'[q] = resolver[q]
    BY <1>2 DEF ResolveStep, Restores, ReloadsRestored, DeletesRow, ConfirmAdopts, AfterFailure, TrialShape
  <2>6. ChangeProgress'
    BY <2>4 DEF ChangeProgress
  <2>7. ASSUME UNCHANGED row, resolver'[r].at # "idle" => resolver'[r].taken = resolver[r].taken
        PROVE  OneCall' /\ AtRest'
    <3>1. OneCall'
      BY <2>3, <2>4, <2>5, <2>7 DEF OneCall, IsResolving
    <3> QED  BY <2>3, <2>7, <3>1 DEF AtRest
  <2>8. ASSUME resolver' = [resolver EXCEPT ![r] = NotCalled]
        PROVE  \A q \in Resolvers : resolver'[q].at = "idle"
    BY <2>3, <2>5, <2>8 DEF NotCalled, TrialShape
  <2>9. ASSUME NEW at, resolver' = [resolver EXCEPT ![r].at = at]
        PROVE  resolver'[r].at = at /\ resolver'[r].taken = resolver[r].taken
    BY <2>2, <2>9 DEF ResolveSet, TrialShape
  <2>10. CASE r = "confirm" /\ ConfirmAdopts
    <3>1. /\ ifaceFile = row.new /\ loaded = row.new /\ UNCHANGED <<ifaceFile, loaded, row>>
          /\ row.old = accepted
      BY <2>1, <2>3, <2>10 DEF ConfirmAdopts, ResolveProgress, RowHolds
    <3>2. CASE resolver' = [resolver EXCEPT ![r] = NotCalled] /\ UNCHANGED <<managed, accepted>>
      <4>1. \A q \in Resolvers : resolver'[q].at = "idle"
        BY <2>8, <3>2
      <4> QED  BY <1>0, <2>6, <2>7, <3>1, <3>2, <4>1 DEF RowHolds, ResolveProgress
    <3>3. CASE /\ resolver' = [resolver EXCEPT ![r].at = "delete"]
               /\ managed' = resolver[r].taken.new /\ accepted' = managed'
      <4>1. resolver'[r].at = "delete" /\ resolver'[r].taken = resolver[r].taken
        BY <2>9, <3>3
      <4>2. \A q \in Resolvers \ {"confirm"} : resolver'[q].at = "idle"
        BY <2>3, <2>5, <2>10
      <4> QED  BY <1>0, <2>3, <2>6, <2>7, <2>10, <3>1, <3>3, <4>1, <4>2 DEF RowHolds, ResolveProgress
    <3> QED  BY <2>10, <3>2, <3>3 DEF ConfirmAdopts
  <2>11. CASE Restores(r)
    <3>1. r # "confirm" /\ UNCHANGED <<loaded, managed, row, accepted>>
      BY <2>11 DEF Restores, TrialShape
    <3>2. resolver["confirm"].at = "idle" /\ resolver'["confirm"].at = "idle"
      BY <1>0, <2>3, <2>5, <3>1
    <3>3. row.old = accepted /\ ifaceFile \in {row.old, row.new} /\ (ifaceFile = row.new => loaded = row.new)
      BY <2>1, <2>3, <3>2 DEF RowHolds
    <3>4. CASE resolver' = AfterFailure(r) /\ UNCHANGED ifaceFile
      <4>1. \A q \in Resolvers : resolver'[q].at = "idle"
        BY <2>8, <3>4 DEF AfterFailure
      <4> QED  BY <1>0, <2>6, <2>7, <3>1, <3>3, <3>4, <4>1 DEF RowHolds, ResolveProgress
    <3>5. CASE resolver' = [resolver EXCEPT ![r].at = "reload"] /\ ifaceFile' = Restored(r)
      <4>1. resolver'[r].at = "reload" /\ resolver'[r].taken = resolver[r].taken
        BY <2>9, <3>5
      <4>2. ifaceFile' = row.old
        BY <2>3, <3>5 DEF Restored
      <4>3. row.old = row.new => loaded = row.new
        BY <3>3
      <4>4. \A q \in Resolvers \ {r} : resolver'[q].at = "idle"
        BY <2>3, <2>5
      <4>5. RowHolds'
        BY <3>1, <3>3, <4>2, <4>3 DEF RowHolds
      <4>6. ResolveProgress'
        BY <3>1, <3>2, <4>1, <4>2, <4>4 DEF ResolveProgress
      <4> QED  BY <2>6, <2>7, <3>1, <4>1, <4>5, <4>6
    <3> QED  BY <2>11, <3>4, <3>5 DEF Restores
  <2>12. CASE ReloadsRestored(r)
    <3>1. r # "confirm" /\ UNCHANGED <<ifaceFile, managed, row, accepted>>
      BY <2>12 DEF ReloadsRestored, TrialShape
    <3>2. resolver["confirm"].at = "idle" /\ resolver'["confirm"].at = "idle"
      BY <1>0, <2>3, <2>5, <3>1
    <3>3. /\ row.old = accepted /\ ifaceFile = row.old
          /\ ifaceFile = row.new => loaded = row.new
      BY <2>1, <2>3, <2>12, <3>1, <3>2 DEF RowHolds, ResolveProgress, ReloadsRestored
    <3>4. CASE resolver' = AfterFailure(r) /\ UNCHANGED loaded
      <4>1. \A q \in Resolvers : resolver'[q].at = "idle"
        BY <2>8, <3>4 DEF AfterFailure
      <4> QED  BY <1>0, <2>6, <2>7, <3>1, <3>3, <3>4, <4>1 DEF RowHolds, ResolveProgress
    <3>5. CASE resolver' = [resolver EXCEPT ![r].at = "delete"] /\ loaded' = ifaceFile
      <4>1. resolver'[r].at = "delete" /\ resolver'[r].taken = resolver[r].taken
        BY <2>9, <3>5
      <4>2. \A q \in Resolvers \ {r} : resolver'[q].at = "idle"
        BY <2>3, <2>5
      <4>3. RowHolds'
        BY <3>1, <3>3, <3>5 DEF RowHolds
      <4>4. ResolveProgress'
        BY <3>1, <3>2, <3>3, <3>5, <4>1, <4>2 DEF ResolveProgress
      <4> QED  BY <2>6, <2>7, <3>1, <4>1, <4>3, <4>4
    <3> QED  BY <2>12, <3>4, <3>5 DEF ReloadsRestored
  <2>13. CASE DeletesRow(r)
    <3>1. UNCHANGED <<ifaceFile, loaded, managed, accepted>>
          /\ \A q \in Resolvers : resolver'[q].at = "idle"
      BY <2>8, <2>13 DEF DeletesRow
    <3>2. r = "confirm" => ifaceFile = accepted /\ loaded = accepted
      BY <2>1, <2>13 DEF DeletesRow, ResolveProgress
    <3>3. r # "confirm" => /\ row.old = accepted /\ ifaceFile = row.old /\ loaded = row.old
                           /\ ifaceFile = row.new => loaded = row.new
      BY <1>0, <2>1, <2>3, <2>13 DEF DeletesRow, ResolveProgress, RowHolds
    <3>4. ResolveProgress'
      BY <1>0, <3>1 DEF ResolveProgress
    <3>5. CASE row' = NoRow
      <4>1. AtRest'
        BY <3>1, <3>2, <3>3, <3>5 DEF AtRest
      <4>2. OneCall'
        BY <2>4, <3>1 DEF OneCall, IsResolving
      <4> QED  BY <2>6, <3>4, <3>5, <4>1, <4>2 DEF RowHolds
    <3>6. CASE row' = row /\ row # NoRow
      <4>1. r # "confirm"
        <5>1. torn' = (torn \/ (r = "confirm" /\ row' # NoRow))
          BY <2>13 DEF DeletesRow
        <5> QED  BY <3>6, <5>1, Zenon
      <4> QED  BY <2>6, <2>7, <3>1, <3>3, <3>4, <3>6, <4>1 DEF RowHolds
    <3> QED  BY <2>3, <2>13, <3>5, <3>6 DEF DeletesRow
  <2> QED  BY <1>2, <2>10, <2>11, <2>12, <2>13 DEF ResolveStep
<1> QED  BY <1>1, <1>2

LEMMA TrialInvStep ==
    ASSUME TrialInv, [InterfaceNext]_trialVars
    PROVE  TrialInv'
<1> SUFFICES ASSUME ~ torn' PROVE TrialKept'
  BY TrialShapeStep DEF TrialInv
<1> USE DEF TrialInv
<1>1. CASE DeadlinePasses
  <2>1. ~ torn /\ UNCHANGED <<ifaceFile, loaded, managed, changer, resolver, accepted>>
    BY <1>1 DEF DeadlinePasses
  <2>2. row # NoRow /\ row' # NoRow /\ row'.old = row.old /\ row'.new = row.new
    <3>1. row \in TrialRows /\ row' = [row EXCEPT !.due = TRUE]
      BY <1>1, RowIs DEF DeadlinePasses
    <3>2. row' \in TrialRows
      BY <3>1 DEF TrialRows
    <3> QED  BY <3>1, <3>2, NoRowIsNone DEF TrialRows
  <2>3. OneCall'
    BY <2>1, <2>2 DEF TrialKept, OneCall, IsChanging, IsResolving
  <2>4. ChangeProgress' /\ AtRest'
    BY <2>1, <2>2 DEF TrialKept, ChangeProgress, AtRest, IsChanging
  <2>5. RowHolds' /\ ResolveProgress'
    BY <2>1, <2>2 DEF TrialKept, RowHolds, ResolveProgress
  <2> QED  BY <2>3, <2>4, <2>5 DEF TrialKept
<1>2. CASE TrialRestart
  <2>1. torn' = (torn \/ resolver["confirm"].at = "delete"
                     \/ \E c \in Changers : changer[c].at \in {"load", "record"})
    BY <1>2 DEF TrialRestart
  <2>2. /\ ~ torn /\ resolver["confirm"].at # "delete"
        /\ \A c \in Changers : changer[c].at \notin {"load", "record"}
    BY <2>1, Zenon
  <2>3. UNCHANGED <<ifaceFile, loaded, managed, row, accepted>>
    BY <1>2 DEF TrialRestart
  <2>4. /\ \A r \in Resolvers : resolver'[r].at = "idle"
        /\ \A c \in Changers : ~ IsChanging(c)'
    BY <1>2 DEF TrialRestart, IsChanging, NotCalled, ChangeDone
  <2>5. row = NoRow => ifaceFile = accepted /\ loaded = accepted
    BY <2>2 DEF TrialKept, AtRest, ChangeProgress, IsChanging
  <2>6. "confirm" \in Resolvers
    BY DEF Resolvers
  <2>7. OneCall' /\ ChangeProgress' /\ AtRest'
    BY <2>3, <2>4, <2>5 DEF OneCall, ChangeProgress, AtRest, IsResolving
  <2>8. RowHolds' /\ ResolveProgress'
    BY <2>2, <2>3, <2>4, <2>6 DEF TrialKept, RowHolds, ResolveProgress
  <2> QED  BY <2>7, <2>8 DEF TrialKept
<1>3. CASE UNCHANGED trialVars
  BY <1>3 DEF trialVars, TrialKept, OneCall, ChangeProgress, AtRest, RowHolds, ResolveProgress,
              IsChanging, IsResolving
<1> QED  BY <1>1, <1>2, <1>3, ChangeKeepsTrial, ResolveKeepsTrial DEF InterfaceNext

LEMMA TrialInvHolds == TrialInv => UndoneUnlessConfirmed
BY DEF TrialInv, TrialKept, AtRest, UndoneUnlessConfirmed, Changing, IsChanging

\* A row that goes away leaves the change confirmed or undone.
LEMMA RowsAreTracked ==
    ASSUME TrialInv, [InterfaceNext]_trialVars
    PROVE  TrackIsKept
<1> SUFFICES ASSUME row # NoRow, row' = NoRow, ~ torn
             PROVE  loaded = row.old \/ (managed = row.new /\ loaded = row.new)
  BY DEF TrackIsKept
<1>1. PICK r \in Resolvers : DeletesRow(r)
  <2>1. ~ DeadlinePasses
    <3>1. row \in TrialRows
      BY RowIs DEF TrialInv
    <3>2. [row EXCEPT !.due = TRUE] \in TrialRows
      BY <3>1 DEF TrialRows
    <3> QED  BY <3>2, NoRowIsNone DEF DeadlinePasses
  <2>2. \A c \in Changers : ~ ChangeReads(c) /\ ~ ChangeStep(c)
    <3> SUFFICES ASSUME NEW c \in Changers, ChangeReads(c) \/ ChangeStep(c) PROVE FALSE
      OBVIOUS
    <3>1. row' # NoRow
      BY DEF ChangeReads, MayChange, ChangeStep, ChangeWrites, ChangeLoads, ChangeRecords
    <3> QED  BY <3>1
  <2>3. ~ TrialRestart /\ ~ UNCHANGED trialVars
    BY DEF TrialRestart, trialVars
  <2>4. \A r \in Resolvers : ~ Takes(r) /\ ~ Restores(r) /\ ~ ReloadsRestored(r) /\ ~ ConfirmAdopts
    BY DEF Takes, Restores, ReloadsRestored, ConfirmAdopts
  <2> QED  BY <2>1, <2>2, <2>3, <2>4 DEF InterfaceNext, ResolveStep
<1>2. resolver[r].at = "delete" /\ ResolveProgress
  BY <1>1 DEF DeletesRow, TrialInv, TrialKept
<1> QED  BY <1>2 DEF ResolveProgress

-----------------------------------------------------------------------------
(* The chains of the machine *)

OwnParts   == {"survival", "ntp", "wan drop", "management", "blocks"}
ChainSet   == [policy : Policies, parts : SUBSET (AdminGroups \cup OwnParts)]
TableSet   == [chains : SUBSET AdminGroups, input : ChainSet, forward : ChainSet]
OnForward  == {"create", "forward", "flushForward", "fillForward"}
OnInput    == {"declare", "flush", "fill", "cleanup", "persist", "end"}
TurnSet    == [at : OnForward \cup OnInput, call : Calls, groups : SUBSET AdminGroups, bad : BOOLEAN,
               input : SUBSET (AdminGroups \cup OwnParts)]

ChainShape ==
    /\ want \in Rows /\ live \in TableSet /\ bootFile \in TableSet
    /\ turn \in {FreeTurn} \cup TurnSet
    /\ waiting \subseteq Calls
    /\ chainFaults \in Nat

\* Only a chain that accepts is flushed and filled in steps.
FilledWhileOpen == turn.at \in {"flushForward", "fillForward"} => live.forward.policy = "accept"

GroupsAsked == Call("groups") \in waiting
Running     == turn.at # "free"

\* Without a fault there is no boot pass, and only the groups' passes are whole.
NoBootPass ==
    /\ Call("boot") \notin waiting
    /\ Running => turn.call.by # "boot" /\ (turn.at \in OnForward => Whole(turn.call))

\* A reload of NTP that was not overtaken has the toggle of the row.
ReloadsAreCurrent ==
    ~ ntpCrossed =>
      /\ \A b \in BOOLEAN : NtpCall(b) \in waiting => b = want.ntp
      /\ Running /\ turn.call.by = "ntp" => turn.call.ntp = want.ntp

\* What a pass over the groups has got to, whatever is edited meanwhile.
PassProgress ==
    Running =>
      /\ Whole(turn.call) /\ turn.at # "create" => turn.groups \subseteq live.chains
      /\ Whole(turn.call) /\ turn.at \in OnInput => live.forward.parts \cap AdminGroups \subseteq turn.groups
      /\ turn.at \in {"flush", "fill"} => turn.input \cap AdminGroups \subseteq turn.groups
      /\ turn.at = "cleanup" => live.input.parts \cap AdminGroups \subseteq turn.groups
      /\ Whole(turn.call) /\ turn.at \in {"persist", "end"} /\ ~ turn.bad => live.chains = turn.groups
      /\ turn.bad => GroupsAsked
      /\ turn.at = "end" /\ ~ turn.bad => bootFile = live

\* While nobody asked for another pass over the groups, what was rebuilt from
\* them is what the rows ask for.
GroupsAreCurrent ==
    ~ GroupsAsked =>
      /\ ~ Running => live.chains = want.groups
      /\ ~ Running \/ turn.at \in OnInput => live.forward = ForwardChain(want)
      /\ Running => /\ turn.groups = want.groups
                    /\ turn.at \in {"flushForward", "fillForward"} => want.forward = "accept"
                    /\ ~ Whole(turn.call) => live.chains = want.groups

\* The same of the input chain, while nobody asked for anything.
Calm == waiting = {} /\ ~ ntpArmed /\ ~ ntpCrossed
InputIsCurrent ==
    Calm =>
      /\ turn.at \in {"flush", "fill"} => /\ live.input.policy = want.input
                                          /\ turn.input = InputChain(want, want.ntp, TRUE).parts
      /\ turn.at \in {"cleanup", "persist", "end", "free"} => live.input = InputChain(want, want.ntp, TRUE)
      /\ ~ Running => bootFile = live

Follows == NoBootPass /\ ReloadsAreCurrent /\ PassProgress /\ GroupsAreCurrent /\ InputIsCurrent

ChainInv ==
    /\ ChainShape /\ ForwardNeverCut /\ FilledWhileOpen
    /\ chainFaults = 0 => Follows

\* What a chain is made of: its policy, the survival rules where it drops, and
\* no group but those of its rows.
LEMMA ForwardIs ==
    ASSUME NEW table, table.groups \subseteq AdminGroups, table.forward \in Policies
    PROVE  /\ ForwardChain(table) \in ChainSet
           /\ ForwardChain(table).policy = table.forward
           /\ ForwardChain(table).parts \cap AdminGroups \subseteq table.groups
           /\ table.forward = "drop" => "survival" \in ForwardChain(table).parts
<1>1. AdminGroups \cap OwnParts = {} /\ ForwardGroups \subseteq AdminGroups
  BY ChainAssumption DEF AdminGroups, OwnParts
<1>2. SurvivalPart(table.forward) \subseteq {"survival"} /\ (table.forward = "drop" => "survival" \in SurvivalPart(table.forward))
  BY DEF SurvivalPart
<1>3. ForwardChain(table).parts = SurvivalPart(table.forward) \cup {"blocks"} \cup (table.groups \cap ForwardGroups)
  BY DEF ForwardChain
<1>4. ForwardChain(table).policy = table.forward
  BY DEF ForwardChain
<1>5. ForwardChain(table).parts \in SUBSET (AdminGroups \cup OwnParts)
  BY <1>2, <1>3 DEF OwnParts
<1>6. ForwardChain(table) \in ChainSet
  BY <1>5 DEF ForwardChain, ChainSet
<1>7. ForwardChain(table).parts \cap AdminGroups \subseteq table.groups
  BY <1>1, <1>2, <1>3 DEF OwnParts
<1> QED  BY <1>2, <1>3, <1>4, <1>6, <1>7

LEMMA InputIs ==
    ASSUME NEW table, table.groups \subseteq AdminGroups, NEW ntp, NEW known
    PROVE  /\ InputChain(table, ntp, known).parts \in SUBSET (AdminGroups \cup OwnParts)
           /\ InputChain(table, ntp, known).policy = table.input
           /\ InputChain(table, ntp, known).parts \cap AdminGroups \subseteq table.groups
<1>1. AdminGroups \cap OwnParts = {} /\ InputGroups \subseteq AdminGroups
  BY ChainAssumption DEF AdminGroups, OwnParts
<1>2. SurvivalPart(table.input) \subseteq OwnParts /\ WanPart(table, known) \subseteq OwnParts
      /\ (IF ntp THEN {"ntp"} ELSE {}) \subseteq OwnParts
  BY DEF SurvivalPart, WanPart, OwnParts
<1>3. InputChain(table, ntp, known).parts = SurvivalPart(table.input) \cup (IF ntp THEN {"ntp"} ELSE {})
                                             \cup (table.groups \cap InputGroups) \cup WanPart(table, known)
  BY DEF InputChain
<1>4. InputChain(table, ntp, known).policy = table.input
  BY DEF InputChain
<1> QED  BY <1>1, <1>2, <1>3, <1>4

LEMMA TurnIs ==
    ASSUME ChainShape, Running
    PROVE  turn \in TurnSet
BY DEF ChainShape, Running, FreeTurn

\* A pass that goes on to its next step.
LEMMA TurnGoes ==
    ASSUME turn \in TurnSet, NEW next, turn' = [turn EXCEPT !.at = next]
    PROVE  /\ turn'.at = next /\ turn'.call = turn.call /\ turn'.groups = turn.groups
           /\ turn'.bad = turn.bad /\ turn'.input = turn.input
BY DEF TurnSet

LEMMA NoFaultBefore ==
    ASSUME ChainShape, chainFaults' = 0
    PROVE  ~ ChainFault /\ (UNCHANGED chainFaults => chainFaults = 0)
BY DEF ChainShape, ChainFault

\* A command that nothing refused.
LEMMA CommandTaken ==
    ASSUME ChainShape, chainFaults' = 0, NEW at, NEW table, NEW next, NEW otherwise, at # "free",
           Command(at, table, next, otherwise)
    PROVE  /\ turn \in TurnSet /\ turn.at = at /\ live' = table /\ chainFaults = 0
           /\ turn'.at = next /\ turn'.call = turn.call /\ turn'.groups = turn.groups
           /\ turn'.bad = turn.bad /\ turn'.input = turn.input
           /\ UNCHANGED <<want, bootFile, waiting, ntpArmed, ntpCrossed>>
<1>1. /\ turn.at = at /\ live' = table /\ turn' = [turn EXCEPT !.at = next] /\ UNCHANGED chainFaults
      /\ UNCHANGED <<want, bootFile, waiting, ntpArmed, ntpCrossed>>
  BY NoFaultBefore DEF Command
<1>2. turn \in TurnSet
  BY <1>1, TurnIs DEF Running
<1> QED  BY <1>1, <1>2, TurnGoes, NoFaultBefore

LEMMA ChainStarts == ChainInit => ChainInv
<1> SUFFICES ASSUME ChainInit PROVE ChainInv
  OBVIOUS
<1>1. want \in Rows /\ want.groups = AdminGroups /\ want.forward = "accept" /\ want.input = "accept" /\ want.ntp = FALSE
  BY DEF ChainInit, Rows, Policies
<1>2. /\ live = Rendered(want) /\ bootFile = live /\ turn = FreeTurn /\ waiting = {} /\ chainFaults = 0
      /\ turn.at = "free"
  BY DEF ChainInit, FreeTurn
<1>3. /\ live.chains = want.groups /\ live.forward = ForwardChain(want)
      /\ live.input = InputChain(want, want.ntp, TRUE)
  BY <1>2 DEF Rendered
<1>4. ForwardChain(want) \in ChainSet /\ ForwardChain(want).policy = "accept"
  BY <1>1, ForwardIs DEF Policies
<1>5. InputChain(want, want.ntp, TRUE) \in ChainSet
  <2>1. InputChain(want, want.ntp, TRUE).parts \in SUBSET (AdminGroups \cup OwnParts)
    BY <1>1, InputIs
  <2> QED  BY <1>1, <2>1 DEF InputChain, ChainSet, Policies
<1>6. live \in TableSet
  BY <1>1, <1>2, <1>4, <1>5 DEF Rendered, TableSet
<1>7. ChainShape
  BY <1>1, <1>2, <1>6 DEF ChainShape
<1>8. ForwardNeverCut /\ FilledWhileOpen
  BY <1>2, <1>3, <1>4 DEF ForwardNeverCut, FilledWhileOpen
<1>9. Follows
  BY <1>2, <1>3 DEF Follows, NoBootPass, ReloadsAreCurrent, PassProgress, GroupsAreCurrent, InputIsCurrent,
                    Running
<1> QED  BY <1>7, <1>8, <1>9 DEF ChainInv, Follows

\* The parts of a table that one command replaces.
LEMMA TablesStay ==
    ASSUME NEW t \in TableSet
    PROVE  /\ \A c \in SUBSET AdminGroups : [t EXCEPT !.chains = c] \in TableSet
           /\ \A f \in ChainSet : [t EXCEPT !.forward = f] \in TableSet
           /\ \A p \in Policies : [t EXCEPT !.forward.policy = p] \in TableSet /\ [t EXCEPT !.input.policy = p] \in TableSet
           /\ \A s \in SUBSET (AdminGroups \cup OwnParts) :
                [t EXCEPT !.forward.parts = s] \in TableSet /\ [t EXCEPT !.input.parts = s] \in TableSet
<1>1. \A c \in SUBSET AdminGroups : [t EXCEPT !.chains = c] \in TableSet
  BY DEF TableSet
<1>2. \A f \in ChainSet : [t EXCEPT !.forward = f] \in TableSet /\ [t EXCEPT !.input = f] \in TableSet
  BY DEF TableSet
<1>3. t.forward \in ChainSet /\ t.input \in ChainSet
  BY DEF TableSet
<1>4. \A p \in Policies : [t.forward EXCEPT !.policy = p] \in ChainSet /\ [t.input EXCEPT !.policy = p] \in ChainSet
  BY <1>3 DEF ChainSet
<1>5. \A s \in SUBSET (AdminGroups \cup OwnParts) :
        [t.forward EXCEPT !.parts = s] \in ChainSet /\ [t.input EXCEPT !.parts = s] \in ChainSet
  BY <1>3 DEF ChainSet
<1> QED  BY <1>1, <1>2, <1>4, <1>5

LEMMA CommandShape ==
    ASSUME ChainShape, NEW at, at # "free", NEW table, table \in TableSet, NEW next \in OnForward \cup OnInput,
           NEW otherwise \in OnForward \cup OnInput, Command(at, table, next, otherwise)
    PROVE  ChainShape'
<1>1. turn \in TurnSet
  BY TurnIs DEF Command, Running
<1>2. turn' \in TurnSet
  BY <1>1 DEF Command, TurnSet
<1>3. chainFaults' \in Nat
  BY DEF Command, ChainFault, ChainShape
<1> QED  BY <1>2, <1>3 DEF Command, ChainShape

LEMMA CallsAre ==
    /\ Call("groups") \in Calls /\ Call("protection") \in Calls /\ Call("boot") \in Calls
    /\ \A b \in BOOLEAN : NtpCall(b) \in Calls
BY DEF Calls, Holders

LEMMA AfterwardsAre ==
    ASSUME ChainShape, NEW call, NEW bad
    PROVE  Afterwards(call, bad) \subseteq Calls
<1>1. want.ntp \in BOOLEAN
  BY DEF ChainShape, Rows
<1> QED  BY <1>1, CallsAre DEF Afterwards

\* The chain a pass builds is made of the groups it read.
LEMMA RowsWithGroups ==
    ASSUME ChainShape, turn \in TurnSet
    PROVE  /\ NewForward \in ChainSet /\ NewForward.policy = want.forward
           /\ NewForward.parts \cap AdminGroups \subseteq turn.groups
           /\ want.forward = "drop" => "survival" \in NewForward.parts
           /\ turn.groups = want.groups => NewForward = ForwardChain(want)
           /\ ForwardChain([want EXCEPT !.groups = turn.groups, !.forward = "accept"]).parts
                \in SUBSET (AdminGroups \cup OwnParts)
           /\ ForwardChain([want EXCEPT !.groups = turn.groups, !.forward = "accept"]).parts
                \cap AdminGroups \subseteq turn.groups
           /\ turn.groups = want.groups /\ want.forward = "accept" =>
                ForwardChain([want EXCEPT !.groups = turn.groups, !.forward = "accept"]) = ForwardChain(want)
<1>1. turn.groups \subseteq AdminGroups /\ want.forward \in Policies /\ "accept" \in Policies
  BY DEF ChainShape, Rows, TurnSet, Policies
<1>2. PICK table : table = [want EXCEPT !.groups = turn.groups]
  OBVIOUS
<1>3. table.groups = turn.groups /\ table.forward = want.forward
  BY <1>2 DEF ChainShape, Rows
<1>4. PICK open : open = [want EXCEPT !.groups = turn.groups, !.forward = "accept"]
  OBVIOUS
<1>5. open.groups = turn.groups /\ open.forward = "accept"
  BY <1>4 DEF ChainShape, Rows
<1>6. NewForward = ForwardChain(table)
  BY <1>2 DEF NewForward
<1>7. turn.groups = want.groups => ForwardChain(table) = ForwardChain(want)
  BY <1>3 DEF ForwardChain
<1>8. turn.groups = want.groups /\ want.forward = "accept" => ForwardChain(open) = ForwardChain(want)
  BY <1>5 DEF ForwardChain
<1>9. /\ ForwardChain(table) \in ChainSet /\ ForwardChain(table).policy = table.forward
      /\ ForwardChain(table).parts \cap AdminGroups \subseteq table.groups
      /\ table.forward = "drop" => "survival" \in ForwardChain(table).parts
  BY <1>1, <1>3, ForwardIs
<1>10. /\ ForwardChain(open).parts \in SUBSET (AdminGroups \cup OwnParts)
       /\ ForwardChain(open).parts \cap AdminGroups \subseteq open.groups
  BY <1>1, <1>5, ForwardIs DEF ChainSet
<1> QED  BY <1>3, <1>4, <1>5, <1>6, <1>7, <1>8, <1>9, <1>10

\* Only the policy of the input chain is declared; its rules are worked out.
LEMMA Declares ==
    ASSUME DeclareInput
    PROVE  /\ turn.at = "declare" /\ live' = [live EXCEPT !.input.policy = want.input]
           /\ \E parts : /\ turn' = [turn EXCEPT !.at = "flush", !.input = parts]
                         /\ \E ntp, known : parts = InputChain([want EXCEPT !.groups = turn.groups], ntp, known).parts
           /\ UNCHANGED <<want, bootFile, waiting, ntpArmed, ntpCrossed, chainEdits>>
<1>1. PICK known \in BOOLEAN :
        /\ live' = [live EXCEPT !.input.policy = want.input]
        /\ turn' = [turn EXCEPT !.at = "flush", !.input =
                InputChain([want EXCEPT !.groups = turn.groups],
                           IF turn.call.by = "ntp" THEN turn.call.ntp ELSE want.ntp, known).parts]
  BY Zenon DEF DeclareInput
<1>2. turn.at = "declare" /\ UNCHANGED <<want, bootFile, waiting, ntpArmed, ntpCrossed, chainEdits>>
  BY DEF DeclareInput
<1> QED  BY <1>1, <1>2, Zenon

LEMMA TurnShape ==
    ASSUME ChainShape, TurnStep
    PROVE  ChainShape'
<1>1. CASE CreateChains
  <2>1. turn.at = "create"
    BY <1>1 DEF CreateChains, Command
  <2>2. turn \in TurnSet
    BY <2>1, TurnIs DEF Running
  <2>3. live.chains \cup turn.groups \in SUBSET AdminGroups
    BY <2>2 DEF TurnSet, TableSet, ChainShape
  <2>4. [live EXCEPT !.chains = live.chains \cup turn.groups] \in TableSet
    BY <2>3, TablesStay DEF ChainShape
  <2>5. "forward" \in OnForward \cup OnInput /\ "end" \in OnForward \cup OnInput
    BY DEF OnForward, OnInput
  <2> QED  BY <1>1, <2>4, <2>5, CommandShape DEF CreateChains
<1>2. CASE RebuildForward
  <2>1. turn.at \in {"forward", "flushForward", "fillForward"}
    BY <1>2 DEF RebuildForward, Command
  <2>2. turn \in TurnSet
    BY <2>1, TurnIs DEF Running
  <2>3. /\ [live EXCEPT !.forward = NewForward] \in TableSet
        /\ [live EXCEPT !.forward.policy = "accept"] \in TableSet
        /\ [live EXCEPT !.forward.parts = {}] \in TableSet
        /\ [live EXCEPT !.forward.parts =
             ForwardChain([want EXCEPT !.groups = turn.groups, !.forward = "accept"]).parts] \in TableSet
    BY <2>2, RowsWithGroups, TablesStay DEF ChainShape, Policies
  <2>4. {"declare", "flushForward", "fillForward", "end"} \subseteq OnForward \cup OnInput
    BY DEF OnForward, OnInput
  <2> QED  BY <1>2, <2>3, <2>4, CommandShape DEF RebuildForward
<1>3. CASE DeclareInput
  <2>1. turn \in TurnSet /\ want \in Rows
    BY <1>3, Declares, TurnIs DEF Running, ChainShape
  <2>2. want.input \in Policies
    BY <2>1 DEF Rows
  <2>3. live' \in TableSet
    BY <1>3, <2>2, Declares, TablesStay DEF ChainShape
  <2>4. PICK parts : /\ turn' = [turn EXCEPT !.at = "flush", !.input = parts]
                     /\ \E ntp, known : parts = InputChain([want EXCEPT !.groups = turn.groups], ntp, known).parts
    BY <1>3, Declares
  <2>5. [want EXCEPT !.groups = turn.groups].groups \subseteq AdminGroups
    BY <2>1 DEF TurnSet, Rows
  <2>6. parts \in SUBSET (AdminGroups \cup OwnParts)
    BY <2>4, <2>5, InputIs
  <2>7. turn' \in TurnSet
    BY <2>1, <2>4, <2>6 DEF TurnSet, OnInput
  <2>8. chainFaults' \in Nat
    BY <1>3 DEF DeclareInput, ChainFault, ChainShape
  <2> QED  BY <1>3, <2>3, <2>7, <2>8 DEF DeclareInput, ChainShape
<1>4. CASE InputNotRead
  <2>1. turn \in TurnSet
    BY <1>4, TurnIs DEF InputNotRead, Running
  <2>2. turn' \in TurnSet
    BY <1>4, <2>1 DEF InputNotRead, TurnSet, OnInput
  <2> QED  BY <1>4, <2>2 DEF InputNotRead, ChainFault, ChainShape
<1>5. CASE FlushInput
  <2>1. [live EXCEPT !.input.parts = {}] \in TableSet
    BY TablesStay DEF ChainShape
  <2>2. "fill" \in OnForward \cup OnInput /\ "cleanup" \in OnForward \cup OnInput
    BY DEF OnInput
  <2> QED  BY <1>5, <2>1, <2>2, CommandShape DEF FlushInput
<1>6. CASE FillInput
  <2>1. turn \in TurnSet
    BY <1>6, TurnIs DEF FillInput, Running
  <2>2. PICK kept : /\ kept \subseteq turn.input /\ live' = [live EXCEPT !.input.parts = kept]
                    /\ turn' = [turn EXCEPT !.at = "cleanup", !.bad = @ \/ kept # turn.input]
    BY <1>6 DEF FillInput
  <2>3. live' \in TableSet
    BY <2>1, <2>2, TablesStay DEF TurnSet, ChainShape
  <2>4. PICK bad \in BOOLEAN : bad = (turn.bad \/ kept # turn.input)
    BY Zenon
  <2>5. turn' = [turn EXCEPT !.at = "cleanup", !.bad = bad]
    BY <2>2, <2>4, Zenon
  <2>6. turn' \in TurnSet
    BY <2>1, <2>5 DEF TurnSet, OnInput
  <2>7. chainFaults' \in Nat
    BY <1>6 DEF FillInput, ChainFault, ChainShape
  <2> QED  BY <1>6, <2>3, <2>6, <2>7 DEF FillInput, ChainShape
<1>7. CASE DeleteOrphans
  <2>1. live.chains \ (Orphans \ Jumped) \in SUBSET AdminGroups
    BY DEF ChainShape, TableSet
  <2>2. [live EXCEPT !.chains = live.chains \ (Orphans \ Jumped)] \in TableSet
    BY <2>1, TablesStay DEF ChainShape
  <2>3. "persist" \in OnForward \cup OnInput
    BY DEF OnInput
  <2> QED  BY <1>7, <2>2, <2>3, CommandShape DEF DeleteOrphans
<1>8. CASE SkipCleanup
  <2>1. turn \in TurnSet
    BY <1>8, TurnIs DEF SkipCleanup, Running
  <2>2. turn' \in TurnSet
    BY <1>8, <2>1 DEF SkipCleanup, TurnSet, OnInput
  <2> QED  BY <1>8, <2>2 DEF SkipCleanup, ChainShape
<1>9. CASE PersistTurn
  <2>1. turn \in TurnSet
    BY <1>9, TurnIs DEF PersistTurn, Running
  <2>2. turn' \in TurnSet
    BY <1>9, <2>1 DEF PersistTurn, TurnSet, OnInput
  <2>3. chainFaults' \in Nat
    BY <1>9 DEF PersistTurn, ChainFault, ChainShape
  <2> QED  BY <1>9, <2>2, <2>3 DEF PersistTurn, ChainShape
<1>10. CASE EndTurn
  BY <1>10, AfterwardsAre DEF EndTurn, ChainShape
<1> QED
  BY <1>1, <1>2, <1>3, <1>4, <1>5, <1>6, <1>7, <1>8, <1>9, <1>10 DEF TurnStep

LEMMA ChainShapeStep ==
    ASSUME ChainShape, [ChainNext]_chainVars
    PROVE  ChainShape'
<1>1. CASE EditRows
  <2>1. want' \in Rows
    <3>1. want \in Rows /\ want.groups \subseteq AdminGroups /\ want.closed \in BOOLEAN /\ want.wans \in BOOLEAN
      BY DEF ChainShape, Rows
    <3>2. \A G \in SUBSET AdminGroups : [want EXCEPT !.groups = G] \in Rows
      BY <3>1 DEF Rows
    <3>3. \A p \in Policies : [want EXCEPT !.input = p] \in Rows /\ [want EXCEPT !.forward = p] \in Rows
      BY <3>1 DEF Rows
    <3>4. [want EXCEPT !.closed = ~ want.closed] \in Rows /\ [want EXCEPT !.wans = ~ want.wans] \in Rows
      BY <3>1 DEF Rows
    <3>5. ASSUME NEW g \in AdminGroups,
                 want' = [want EXCEPT !.groups = IF g \in want.groups THEN want.groups \ {g} ELSE want.groups \cup {g}]
          PROVE  want' \in Rows
      <4>1. (IF g \in want.groups THEN want.groups \ {g} ELSE want.groups \cup {g}) \in SUBSET AdminGroups
        BY <3>1
      <4> QED  BY <3>2, <3>5, <4>1
    <3> QED  BY <1>1, <3>3, <3>4, <3>5 DEF EditRows
  <2>2. waiting' \subseteq Calls
    BY <1>1, CallsAre DEF EditRows, ChainShape
  <2> QED  BY <1>1, <2>1, <2>2 DEF EditRows, ChainShape
<1>2. CASE EditNtp
  BY <1>2 DEF EditNtp, ChainShape, Rows
<1>3. CASE NtpReloads
  <2>1. want.ntp \in BOOLEAN
    BY DEF ChainShape, Rows
  <2> QED  BY <1>3, <2>1, CallsAre DEF NtpReloads, ChainShape
<1>4. CASE OthersPersist \/ UNCHANGED chainVars
  BY <1>4 DEF OthersPersist, chainVars, ChainShape
<1>5. CASE ChainRestart
  <2>1. waiting' \subseteq Calls
    BY <1>5, CallsAre DEF ChainRestart
  <2>2. chainFaults' \in Nat
    BY <1>5 DEF ChainRestart, ChainFault, ChainShape
  <2>3. live' \in TableSet /\ turn' = FreeTurn /\ UNCHANGED <<want, bootFile>>
    BY <1>5 DEF ChainRestart, ChainShape
  <2> QED  BY <2>1, <2>2, <2>3 DEF ChainShape
<1>6. ASSUME NEW call \in Calls, TakeTurn(call)
      PROVE  ChainShape'
  <2>1. CASE turn' = [at |-> IF Whole(call) THEN "create" ELSE "declare", call |-> call,
                      groups |-> want.groups, bad |-> FALSE, input |-> {}]
             /\ waiting' = waiting \ {call} /\ UNCHANGED chainFaults
    <3>1. want.groups \in SUBSET AdminGroups
      BY DEF ChainShape, Rows
    <3>2. turn' \in TurnSet
      BY <2>1, <3>1 DEF TurnSet, OnForward, OnInput
    <3> QED  BY <1>6, <2>1, <3>2 DEF TakeTurn, ChainShape
  <2>2. CASE ChainFault /\ waiting' = (waiting \ {call}) \cup Afterwards(call, TRUE) /\ UNCHANGED turn
    <3>1. waiting' \subseteq Calls
      BY <2>2, AfterwardsAre DEF ChainShape
    <3>2. chainFaults' \in Nat
      BY <2>2 DEF ChainFault, ChainShape
    <3> QED  BY <1>6, <2>2, <3>1, <3>2 DEF TakeTurn, ChainShape
  <2> QED  BY <1>6, <2>1, <2>2 DEF TakeTurn
<1> QED  BY <1>1, <1>2, <1>3, <1>4, <1>5, <1>6, TurnShape DEF ChainNext

LEMMA CutStep ==
    ASSUME ChainShape, ForwardNeverCut, FilledWhileOpen, [ChainNext]_chainVars
    PROVE  ForwardNeverCut' /\ FilledWhileOpen'
<1> USE DEF ForwardNeverCut, FilledWhileOpen
<1>1. CASE live' = live /\ bootFile' \in {live, bootFile} /\ turn'.at \notin {"flushForward", "fillForward"}
  BY <1>1
<1>2. CASE live' = live /\ bootFile' \in {live, bootFile} /\ turn' = turn
  BY <1>2
<1>3. ASSUME live'.forward = live.forward, bootFile' = bootFile, turn'.at \notin {"flushForward", "fillForward"}
      PROVE  ForwardNeverCut' /\ FilledWhileOpen'
  BY <1>3
<1>4. CASE RebuildForward
  <2>1. turn \in TurnSet /\ bootFile' = bootFile
    BY <1>4, TurnIs DEF RebuildForward, Command, Running
  <2>2. CASE turn.at = "forward" /\ want.forward = "drop"
             /\ Command("forward", [live EXCEPT !.forward = NewForward], "declare", "declare")
    <3>1. turn'.at = "declare" /\ (live' = live \/ live'.forward = NewForward)
      BY <2>1, <2>2 DEF Command, TurnSet, TableSet, ChainShape
    <3> QED  BY <2>1, <2>2, <3>1, RowsWithGroups
  <2>3. CASE turn.at = "forward" /\ Command("forward", [live EXCEPT !.forward.policy = "accept"], "flushForward", "end")
    <3>1. [live EXCEPT !.forward.policy = "accept"].forward.policy = "accept"
      BY DEF TableSet, ChainSet, ChainShape
    <3>2. \/ live' = [live EXCEPT !.forward.policy = "accept"]
          \/ live' = live /\ turn' = [turn EXCEPT !.at = "end", !.bad = TRUE]
      BY <2>3 DEF Command
    <3>3. [turn EXCEPT !.at = "end", !.bad = TRUE].at = "end"
      BY <2>1 DEF TurnSet
    <3> QED  BY <2>1, <3>1, <3>2, <3>3
  <2>4. CASE turn.at \in {"flushForward", "fillForward"}
    <3>1. live.forward.policy = "accept"
      BY <2>4
    <3>2. live'.forward.policy = live.forward.policy
      BY <1>4, <2>4 DEF RebuildForward, Command, TableSet, ChainSet, ChainShape
    <3> QED  BY <2>1, <3>1, <3>2
  <2> QED  BY <1>4, <2>2, <2>3, <2>4 DEF RebuildForward, Command
<1>5. CASE CreateChains
  BY <1>3, <1>5, TurnIs DEF CreateChains, Command, Running, ChainShape, TurnSet, TableSet
<1>6. CASE DeclareInput \/ InputNotRead
  <2>1. CASE DeclareInput
    <3>1. turn \in TurnSet /\ live \in TableSet
      BY <2>1, Declares, TurnIs DEF Running, ChainShape
    <3>2. turn'.at = "flush"
      BY <2>1, <3>1, Declares DEF TurnSet
    <3>3. live'.forward = live.forward /\ bootFile' = bootFile
      BY <2>1, <3>1, Declares DEF TableSet
    <3> QED  BY <1>3, <3>2, <3>3
  <2>2. CASE InputNotRead
    BY <1>3, <2>2, TurnIs DEF InputNotRead, Running, ChainShape, TurnSet
  <2> QED  BY <1>6, <2>1, <2>2
<1>7. CASE FlushInput
  BY <1>3, <1>7, TurnIs DEF FlushInput, Command, Running, ChainShape, TurnSet, TableSet
<1>8. CASE FillInput
  BY <1>3, <1>8, TurnIs DEF FillInput, Running, ChainShape, TurnSet, TableSet
<1>9. CASE DeleteOrphans
  BY <1>3, <1>9, TurnIs DEF DeleteOrphans, Command, Running, ChainShape, TurnSet, TableSet
<1>10. CASE SkipCleanup \/ PersistTurn \/ EndTurn
  BY <1>1, <1>10, TurnIs DEF SkipCleanup, PersistTurn, EndTurn, Running, ChainShape, TurnSet, FreeTurn
<1>11. CASE ChainRestart
  <2>1. turn'.at = "free" /\ live' \in {live, bootFile} /\ bootFile' = bootFile
    BY <1>11 DEF ChainRestart, FreeTurn
  <2> QED  BY <2>1
<1>12. CASE EditRows \/ EditNtp \/ NtpReloads \/ OthersPersist \/ UNCHANGED chainVars
  BY <1>2, <1>12 DEF EditRows, EditNtp, NtpReloads, OthersPersist, chainVars
<1>13. ASSUME NEW call \in Calls, TakeTurn(call)
       PROVE  ForwardNeverCut' /\ FilledWhileOpen'
  <2>1. live' = live /\ bootFile' = bootFile
        /\ (turn' = turn \/ \E groups : turn' = [at |-> IF Whole(call) THEN "create" ELSE "declare",
                                               call |-> call, groups |-> groups, bad |-> FALSE, input |-> {}])
    BY <1>13 DEF TakeTurn
  <2>2. turn' = turn \/ turn'.at \in {"create", "declare"}
    BY <2>1
  <2> QED  BY <1>1, <1>2, <2>1, <2>2
<1> QED
  BY <1>4, <1>5, <1>6, <1>7, <1>8, <1>9, <1>10, <1>11, <1>12, <1>13 DEF ChainNext, TurnStep

\* What is asked for, and by whom, is not what a pass changes.
LEMMA SameCall ==
    ASSUME NoBootPass, ReloadsAreCurrent, Running, turn'.at # "free", turn'.call = turn.call,
           turn'.at \in OnForward => turn.at \in OnForward,
           UNCHANGED <<waiting, want, ntpCrossed>>
    PROVE  NoBootPass' /\ ReloadsAreCurrent'
<1>1. NoBootPass'
  BY DEF NoBootPass, Running
<1>2. ReloadsAreCurrent'
  BY DEF ReloadsAreCurrent, Running
<1> QED  BY <1>1, <1>2

LEMMA StagesDiffer == OnForward \cap OnInput = {} /\ "free" \notin OnForward \cup OnInput
BY DEF OnForward, OnInput

LEMMA CreateFollows ==
    ASSUME ChainShape, Follows, chainFaults' = 0, CreateChains
    PROVE  Follows'
<1>1. /\ turn \in TurnSet /\ turn.at = "create" /\ live' = [live EXCEPT !.chains = live.chains \cup turn.groups]
      /\ turn'.at = "forward" /\ turn'.call = turn.call /\ turn'.groups = turn.groups
      /\ turn'.bad = turn.bad /\ turn'.input = turn.input
      /\ UNCHANGED <<want, bootFile, waiting, ntpArmed, ntpCrossed>>
  BY CommandTaken DEF CreateChains
<1>2. /\ live'.chains = live.chains \cup turn.groups
      /\ live'.input = live.input /\ live'.forward = live.forward
  BY <1>1 DEF ChainShape, TableSet
<1>3. Running /\ Running' /\ Whole(turn.call)
  BY <1>1 DEF Running, Follows, NoBootPass, OnForward
<1>4. NoBootPass' /\ ReloadsAreCurrent'
  BY <1>1, <1>3, SameCall DEF Follows, OnForward
<1>5. PassProgress'
  BY <1>1, <1>2, <1>3 DEF Follows, PassProgress, OnInput, Whole, GroupsAsked
<1>6. GroupsAreCurrent'
  BY <1>1, <1>3 DEF Follows, GroupsAreCurrent, OnInput, GroupsAsked, Whole
<1>7. InputIsCurrent'
  BY <1>1, <1>3 DEF InputIsCurrent
<1> QED  BY <1>4, <1>5, <1>6, <1>7 DEF Follows

LEMMA ForwardFollows ==
    ASSUME ChainShape, FilledWhileOpen, Follows, chainFaults' = 0, RebuildForward
    PROVE  Follows'
<1>0. turn \in TurnSet /\ turn.at \in {"forward", "flushForward", "fillForward"} /\ Running
  BY TurnIs DEF RebuildForward, Command, Running
<1>1. Whole(turn.call)
  BY <1>0 DEF Follows, NoBootPass, OnForward
<1>2. PICK forward \in ChainSet, next \in {"flushForward", "fillForward", "declare"} :
        /\ live' = [live EXCEPT !.forward = forward]
        /\ turn'.at = next /\ turn'.call = turn.call /\ turn'.groups = turn.groups
        /\ turn'.bad = turn.bad /\ turn'.input = turn.input
        /\ UNCHANGED <<want, bootFile, waiting, ntpArmed, ntpCrossed>>
        /\ next = "flushForward" => want.forward = "accept"
        /\ next = "fillForward" => turn.at = "flushForward"
        /\ next = "declare" => /\ forward.parts \cap AdminGroups \subseteq turn.groups
                               /\ ~ GroupsAsked => forward = ForwardChain(want)
  <2>1. live.forward \in ChainSet
    BY DEF ChainShape, TableSet
  <2>2. CASE turn.at = "forward" /\ want.forward = "drop"
             /\ Command("forward", [live EXCEPT !.forward = NewForward], "declare", "declare")
    <3>1. /\ live' = [live EXCEPT !.forward = NewForward]
          /\ turn'.at = "declare" /\ turn'.call = turn.call /\ turn'.groups = turn.groups
          /\ turn'.bad = turn.bad /\ turn'.input = turn.input
          /\ UNCHANGED <<want, bootFile, waiting, ntpArmed, ntpCrossed>>
      BY <2>2, CommandTaken
    <3>2. ~ GroupsAsked => turn.groups = want.groups
      BY <1>0 DEF Follows, GroupsAreCurrent
    <3> QED  BY <1>0, <3>1, <3>2, RowsWithGroups
  <2>3. CASE turn.at = "forward" /\ want.forward = "accept"
             /\ Command("forward", [live EXCEPT !.forward.policy = "accept"], "flushForward", "end")
    <3>1. /\ live' = [live EXCEPT !.forward.policy = "accept"]
          /\ turn'.at = "flushForward" /\ turn'.call = turn.call /\ turn'.groups = turn.groups
          /\ turn'.bad = turn.bad /\ turn'.input = turn.input
          /\ UNCHANGED <<want, bootFile, waiting, ntpArmed, ntpCrossed>>
      BY <2>3, CommandTaken
    <3>2. [live.forward EXCEPT !.policy = "accept"] \in ChainSet
      BY <2>1 DEF ChainSet, Policies
    <3> QED  BY <2>3, <3>1, <3>2
  <2>4. CASE Command("flushForward", [live EXCEPT !.forward.parts = {}], "fillForward", "declare")
    <3>1. /\ live' = [live EXCEPT !.forward.parts = {}] /\ turn.at = "flushForward"
          /\ turn'.at = "fillForward" /\ turn'.call = turn.call /\ turn'.groups = turn.groups
          /\ turn'.bad = turn.bad /\ turn'.input = turn.input
          /\ UNCHANGED <<want, bootFile, waiting, ntpArmed, ntpCrossed>>
      BY <2>4, CommandTaken
    <3>2. [live.forward EXCEPT !.parts = {}] \in ChainSet
      BY <2>1 DEF ChainSet
    <3> QED  BY <3>1, <3>2
  <2>5. CASE Command("fillForward", [live EXCEPT !.forward.parts =
                 ForwardChain([want EXCEPT !.groups = turn.groups, !.forward = "accept"]).parts],
               "declare", "declare")
    <3>1. PICK parts : parts = ForwardChain([want EXCEPT !.groups = turn.groups, !.forward = "accept"]).parts
      OBVIOUS
    <3>2. Command("fillForward", [live EXCEPT !.forward.parts = parts], "declare", "declare")
      BY <2>5, <3>1
    <3>3. /\ live' = [live EXCEPT !.forward.parts = parts] /\ turn.at = "fillForward"
          /\ turn'.at = "declare" /\ turn'.call = turn.call /\ turn'.groups = turn.groups
          /\ turn'.bad = turn.bad /\ turn'.input = turn.input
          /\ UNCHANGED <<want, bootFile, waiting, ntpArmed, ntpCrossed>>
      BY <3>2, CommandTaken
    <3>4. /\ parts \in SUBSET (AdminGroups \cup OwnParts) /\ parts \cap AdminGroups \subseteq turn.groups
          /\ turn.groups = want.groups /\ want.forward = "accept" => parts = ForwardChain(want).parts
      BY <1>0, <3>1, RowsWithGroups
    <3>5. PICK forward \in ChainSet : /\ live' = [live EXCEPT !.forward = forward]
                                      /\ forward.parts = parts /\ forward.policy = live.forward.policy
      <4>1. [live.forward EXCEPT !.parts = parts] \in ChainSet
        BY <2>1, <3>4 DEF ChainSet
      <4> QED  BY <2>1, <3>3, <4>1 DEF ChainSet
    <3>6. ASSUME ~ GroupsAsked PROVE forward = ForwardChain(want)
      <4>1. turn.groups = want.groups /\ want.forward = "accept"
        BY <1>0, <3>3, <3>6 DEF Follows, GroupsAreCurrent
      <4>2. live.forward.policy = "accept"
        BY <3>3 DEF FilledWhileOpen
      <4>3. ForwardChain(want) \in ChainSet /\ ForwardChain(want).policy = "accept"
        BY <4>1, ForwardIs DEF ChainShape, Rows, Policies
      <4> QED  BY <3>4, <3>5, <4>1, <4>2, <4>3 DEF ChainSet
    <3> QED  BY <3>3, <3>4, <3>5, <3>6
  <2> QED  BY <2>2, <2>3, <2>4, <2>5 DEF RebuildForward
<1>3. live'.chains = live.chains /\ live'.input = live.input /\ live'.forward = forward
  BY <1>2 DEF ChainShape, TableSet
<1>4. Running'
  BY <1>2 DEF Running
<1>5. NoBootPass' /\ ReloadsAreCurrent'
  BY <1>0, <1>2, SameCall DEF Follows, OnForward
<1>6. PassProgress'
  BY <1>0, <1>1, <1>2, <1>3 DEF Follows, PassProgress, OnInput, Whole, GroupsAsked
<1>7. GroupsAreCurrent'
  BY <1>0, <1>1, <1>2, <1>3, <1>4 DEF Follows, GroupsAreCurrent, OnInput, GroupsAsked, Whole, ForwardChain
<1>8. InputIsCurrent'
  BY <1>2, <1>4 DEF InputIsCurrent
<1> QED  BY <1>5, <1>6, <1>7, <1>8 DEF Follows

LEMMA DeclareFollows ==
    ASSUME ChainShape, Follows, chainFaults' = 0, DeclareInput
    PROVE  Follows'
<1>1. turn \in TurnSet /\ turn.at = "declare" /\ Running
  BY TurnIs DEF DeclareInput, Running
<1>2. PICK ntp : ntp = IF turn.call.by = "ntp" THEN turn.call.ntp ELSE want.ntp
  OBVIOUS
<1>3. PICK table : table = [want EXCEPT !.groups = turn.groups]
  OBVIOUS
<1>4. PICK parts : parts = InputChain(table, ntp, TRUE).parts
  OBVIOUS
<1>5. /\ live' = [live EXCEPT !.input.policy = want.input]
      /\ turn' = [turn EXCEPT !.at = "flush", !.input = parts]
      /\ UNCHANGED <<want, bootFile, waiting, ntpArmed, ntpCrossed>>
  BY <1>2, <1>3, <1>4, NoFaultBefore DEF DeclareInput
<1>6. /\ turn'.at = "flush" /\ turn'.call = turn.call /\ turn'.groups = turn.groups
      /\ turn'.bad = turn.bad /\ turn'.input = parts
  BY <1>1, <1>5 DEF TurnSet
<1>7. live'.chains = live.chains /\ live'.forward = live.forward /\ live'.input.policy = want.input
  BY <1>5 DEF ChainShape, TableSet, ChainSet
<1>8. table.groups = turn.groups /\ (turn.groups = want.groups => table = want)
  BY <1>1, <1>3 DEF ChainShape, Rows, TurnSet
<1>9. parts \cap AdminGroups \subseteq turn.groups
  BY <1>1, <1>4, <1>8, InputIs DEF TurnSet
<1>10. Running'
  BY <1>6 DEF Running
<1>11. NoBootPass' /\ ReloadsAreCurrent'
  BY <1>1, <1>5, <1>6, SameCall DEF Follows, OnForward
<1>12. PassProgress'
  BY <1>1, <1>5, <1>6, <1>7, <1>9 DEF Follows, PassProgress, OnInput, Whole, GroupsAsked
<1>13. GroupsAreCurrent'
  BY <1>1, <1>5, <1>6, <1>7, <1>10 DEF Follows, GroupsAreCurrent, OnInput, GroupsAsked, Whole
<1>14. ASSUME Calm PROVE parts = InputChain(want, want.ntp, TRUE).parts
  <2>1. turn.groups = want.groups
    BY <1>1, <1>14 DEF Calm, Follows, GroupsAreCurrent, GroupsAsked
  <2>2. ntp = want.ntp
    BY <1>1, <1>2, <1>14 DEF Calm, Follows, ReloadsAreCurrent
  <2> QED  BY <1>4, <1>8, <2>1, <2>2
<1>15. InputIsCurrent'
  BY <1>5, <1>6, <1>7, <1>10, <1>14 DEF InputIsCurrent, Calm
<1> QED  BY <1>11, <1>12, <1>13, <1>15 DEF Follows

LEMMA FlushFollows ==
    ASSUME ChainShape, Follows, chainFaults' = 0, FlushInput
    PROVE  Follows'
<1>1. /\ turn \in TurnSet /\ turn.at = "flush" /\ live' = [live EXCEPT !.input.parts = {}]
      /\ turn'.at = "fill" /\ turn'.call = turn.call /\ turn'.groups = turn.groups
      /\ turn'.bad = turn.bad /\ turn'.input = turn.input
      /\ UNCHANGED <<want, bootFile, waiting, ntpArmed, ntpCrossed>>
  BY CommandTaken DEF FlushInput
<1>2. live'.chains = live.chains /\ live'.forward = live.forward /\ live'.input.policy = live.input.policy
  BY <1>1 DEF ChainShape, TableSet, ChainSet
<1>3. Running /\ Running'
  BY <1>1 DEF Running
<1>4. NoBootPass' /\ ReloadsAreCurrent'
  BY <1>1, <1>3, SameCall DEF Follows, OnForward
<1>5. PassProgress'
  BY <1>1, <1>2, <1>3 DEF Follows, PassProgress, OnInput, Whole, GroupsAsked
<1>6. GroupsAreCurrent'
  BY <1>1, <1>2, <1>3 DEF Follows, GroupsAreCurrent, OnInput, GroupsAsked, Whole
<1>7. InputIsCurrent'
  BY <1>1, <1>2, <1>3 DEF Follows, InputIsCurrent, Calm
<1> QED  BY <1>4, <1>5, <1>6, <1>7 DEF Follows

\* A rule is left out without a fault only where its chain is not there yet,
\* which a pass over the groups is asked for.
LEMMA FillFollows ==
    ASSUME ChainShape, Follows, chainFaults' = 0, FillInput
    PROVE  Follows'
<1>1. turn \in TurnSet /\ turn.at = "fill" /\ Running
  BY TurnIs DEF FillInput, Running
<1>2. PICK kept : /\ kept = {p \in turn.input : p \in AdminGroups => p \in live.chains}
                  /\ live' = [live EXCEPT !.input.parts = kept]
                  /\ turn' = [turn EXCEPT !.at = "cleanup", !.bad = @ \/ kept # turn.input]
  <2>1. PICK refused \in {{}} \cup {{p} : p \in turn.input} :
          LET kept == {p \in turn.input \ refused : p \in AdminGroups => p \in live.chains} IN
          /\ IF refused = {} THEN UNCHANGED chainFaults ELSE ChainFault
          /\ live' = [live EXCEPT !.input.parts = kept]
          /\ turn' = [turn EXCEPT !.at = "cleanup", !.bad = @ \/ kept # turn.input]
    BY DEF FillInput
  <2>2. refused = {}
    BY <2>1, NoFaultBefore
  <2>3. turn.input \ refused = turn.input
    BY <2>2
  <2> QED  BY <2>1, <2>3
<1>2a. PICK bad \in BOOLEAN : bad = (turn.bad \/ kept # turn.input)
  BY Zenon
<1>2b. turn' = [turn EXCEPT !.at = "cleanup", !.bad = bad]
  BY <1>2, <1>2a, Zenon
<1>3. UNCHANGED <<want, bootFile, waiting, ntpArmed, ntpCrossed>>
  BY DEF FillInput
<1>4. /\ turn'.at = "cleanup" /\ turn'.call = turn.call /\ turn'.groups = turn.groups
      /\ turn'.bad = bad
  BY <1>1, <1>2b DEF TurnSet
<1>5. /\ live'.chains = live.chains /\ live'.forward = live.forward
      /\ live'.input.policy = live.input.policy /\ live'.input.parts = kept /\ live'.input \in ChainSet
  <2>1. kept \in SUBSET (AdminGroups \cup OwnParts) /\ live.input \in ChainSet
    BY <1>1, <1>2 DEF ChainShape, TableSet, TurnSet
  <2>2. [live.input EXCEPT !.parts = kept] \in ChainSet
    BY <2>1 DEF ChainSet
  <2> QED  BY <1>2, <2>1, <2>2 DEF ChainShape, TableSet, ChainSet
<1>6. turn.input \cap AdminGroups \subseteq turn.groups
  BY <1>1 DEF Follows, PassProgress
<1>7. kept # turn.input => GroupsAsked
  <2> SUFFICES ASSUME ~ GroupsAsked PROVE kept = turn.input
    OBVIOUS
  <2>1. turn.groups \subseteq live.chains
    BY <1>1 DEF Follows, PassProgress, GroupsAreCurrent
  <2> QED  BY <1>2, <1>6, <2>1
<1>8. bad => GroupsAsked
  BY <1>1, <1>2a, <1>7 DEF Follows, PassProgress
<1>9. Running'
  BY <1>4 DEF Running
<1>10. NoBootPass' /\ ReloadsAreCurrent'
  BY <1>1, <1>3, <1>4, SameCall DEF Follows, OnForward
<1>11. PassProgress'
  <2>1. kept \cap AdminGroups \subseteq turn.groups
    BY <1>2, <1>6
  <2>2. GroupsAsked' <=> GroupsAsked
    BY <1>3 DEF GroupsAsked
  <2> QED  BY <1>1, <1>4, <1>5, <1>8, <2>1, <2>2 DEF Follows, PassProgress, OnInput, Whole
<1>12. GroupsAreCurrent'
  BY <1>1, <1>3, <1>4, <1>5, <1>9 DEF Follows, GroupsAreCurrent, OnInput, GroupsAsked, Whole
<1>13. ASSUME Calm PROVE live'.input = InputChain(want, want.ntp, TRUE)
  <2>1. live.input.policy = want.input /\ turn.input = InputChain(want, want.ntp, TRUE).parts
    BY <1>1, <1>13 DEF Follows, InputIsCurrent
  <2>2. kept = turn.input
    BY <1>7, <1>13 DEF Calm, GroupsAsked
  <2> QED  BY <1>5, <2>1, <2>2 DEF ChainSet, InputChain
<1>14. InputIsCurrent'
  BY <1>3, <1>4, <1>9, <1>13 DEF InputIsCurrent, Calm
<1> QED  BY <1>10, <1>11, <1>12, <1>14 DEF Follows

\* Nothing jumps to a chain of a group that is gone.
LEMMA DeleteFollows ==
    ASSUME ChainShape, Follows, chainFaults' = 0, DeleteOrphans
    PROVE  Follows'
<1>1. /\ turn \in TurnSet /\ turn.at = "cleanup" /\ ~ turn.bad /\ Whole(turn.call)
      /\ live' = [live EXCEPT !.chains = live.chains \ (Orphans \ Jumped)]
      /\ turn'.at = "persist" /\ turn'.call = turn.call /\ turn'.groups = turn.groups
      /\ turn'.bad = turn.bad /\ turn'.input = turn.input
      /\ UNCHANGED <<want, bootFile, waiting, ntpArmed, ntpCrossed>>
  BY CommandTaken DEF DeleteOrphans
<1>2. Running /\ Running'
  BY <1>1 DEF Running
<1>3. /\ live'.chains = live.chains \ (Orphans \ Jumped)
      /\ live'.forward = live.forward /\ live'.input = live.input
  BY <1>1 DEF ChainShape, TableSet
<1>4. live'.chains = turn.groups
  <2>1. turn.groups \subseteq live.chains /\ live.chains \subseteq AdminGroups
    BY <1>1, <1>2 DEF Follows, PassProgress, ChainShape, TableSet
  <2>2. Jumped \cap AdminGroups \subseteq turn.groups
    BY <1>1, <1>2 DEF Follows, PassProgress, OnInput, Jumped
  <2> QED  BY <1>3, <2>1, <2>2 DEF Orphans
<1>5. NoBootPass' /\ ReloadsAreCurrent'
  BY <1>1, <1>2, SameCall DEF Follows, OnForward
<1>6. PassProgress'
  BY <1>1, <1>2, <1>3, <1>4 DEF Follows, PassProgress, OnInput, Whole, GroupsAsked
<1>7. GroupsAreCurrent'
  BY <1>1, <1>2, <1>3, <1>4 DEF Follows, GroupsAreCurrent, OnInput, GroupsAsked, Whole
<1>8. InputIsCurrent'
  BY <1>1, <1>2, <1>3 DEF Follows, InputIsCurrent, Calm
<1> QED  BY <1>5, <1>6, <1>7, <1>8 DEF Follows

\* A pass that failed half way ends here; the others cleaned up, or need not.
LEMMA SkipFollows ==
    ASSUME ChainShape, Follows, SkipCleanup
    PROVE  Follows'
<1>1. /\ turn.at = "cleanup" /\ (turn.bad \/ ~ Whole(turn.call)) /\ turn \in TurnSet
      /\ UNCHANGED <<want, live, bootFile, waiting, ntpArmed, ntpCrossed>>
  BY TurnIs DEF SkipCleanup, Running
<1>2. PICK next \in {"end", "persist"} : turn' = [turn EXCEPT !.at = next] /\ (next = "end" => turn.bad)
  BY DEF SkipCleanup
<1>3. /\ turn'.at = next /\ turn'.call = turn.call /\ turn'.groups = turn.groups
      /\ turn'.bad = turn.bad /\ turn'.input = turn.input
  BY <1>1, <1>2, TurnGoes
<1>4. Running /\ Running'
  BY <1>1, <1>3 DEF Running
<1>5. NoBootPass' /\ ReloadsAreCurrent'
  BY <1>1, <1>3, <1>4, SameCall DEF Follows, OnForward
<1>6. PassProgress'
  BY <1>1, <1>2, <1>3, <1>4 DEF Follows, PassProgress, OnInput, Whole, GroupsAsked
<1>7. GroupsAreCurrent'
  BY <1>1, <1>3, <1>4 DEF Follows, GroupsAreCurrent, OnInput, GroupsAsked, Whole
<1>8. InputIsCurrent'
  BY <1>1, <1>3, <1>4 DEF Follows, InputIsCurrent, Calm
<1> QED  BY <1>5, <1>6, <1>7, <1>8 DEF Follows

LEMMA PersistFollows ==
    ASSUME ChainShape, Follows, chainFaults' = 0, PersistTurn
    PROVE  Follows'
<1>1. /\ turn.at = "persist" /\ turn \in TurnSet /\ bootFile' = live /\ turn' = [turn EXCEPT !.at = "end"]
      /\ UNCHANGED <<want, live, waiting, ntpArmed, ntpCrossed>>
  BY TurnIs, NoFaultBefore DEF PersistTurn, Running
<1>2. /\ turn'.at = "end" /\ turn'.call = turn.call /\ turn'.groups = turn.groups
      /\ turn'.bad = turn.bad /\ turn'.input = turn.input
  BY <1>1, TurnGoes
<1>3. Running /\ Running'
  BY <1>1, <1>2 DEF Running
<1>4. NoBootPass' /\ ReloadsAreCurrent'
  BY <1>1, <1>2, <1>3, SameCall DEF Follows, OnForward
<1>5. PassProgress'
  BY <1>1, <1>2, <1>3 DEF Follows, PassProgress, OnInput, Whole, GroupsAsked
<1>6. GroupsAreCurrent'
  BY <1>1, <1>2, <1>3 DEF Follows, GroupsAreCurrent, OnInput, GroupsAsked, Whole
<1>7. InputIsCurrent'
  BY <1>1, <1>2, <1>3 DEF Follows, InputIsCurrent, Calm
<1> QED  BY <1>4, <1>5, <1>6, <1>7 DEF Follows

LEMMA EndFollows ==
    ASSUME ChainShape, Follows, EndTurn
    PROVE  Follows'
<1>1. /\ turn.at = "end" /\ turn'.at = "free" /\ turn \in TurnSet
      /\ UNCHANGED <<want, live, bootFile, ntpArmed, ntpCrossed>>
  BY TurnIs DEF EndTurn, Running, FreeTurn
<1>2. Running /\ ~ Running'
  BY <1>1 DEF Running
<1>3. waiting' = waiting
  <2>1. turn.call.by # "boot"
    BY <1>2 DEF Follows, NoBootPass
  <2> QED  BY <2>1 DEF EndTurn, Afterwards
<1>4. NoBootPass' /\ ReloadsAreCurrent'
  BY <1>1, <1>2, <1>3 DEF Follows, NoBootPass, ReloadsAreCurrent
<1>5. PassProgress'
  BY <1>2 DEF PassProgress
<1>6. ~ GroupsAsked => ~ turn.bad
  BY <1>2 DEF Follows, PassProgress
<1>7. GroupsAreCurrent'
  <2>1. ~ GroupsAsked => live.chains = want.groups /\ live.forward = ForwardChain(want)
    BY <1>1, <1>2, <1>6 DEF Follows, PassProgress, GroupsAreCurrent, OnInput
  <2> QED  BY <1>1, <1>2, <1>3, <2>1 DEF GroupsAreCurrent, GroupsAsked, ForwardChain
<1>8. InputIsCurrent'
  <2>1. Calm => ~ turn.bad
    BY <1>6 DEF Calm, GroupsAsked
  <2>2. Calm => bootFile = live /\ live.input = InputChain(want, want.ntp, TRUE)
    BY <1>1, <1>2, <2>1 DEF Follows, PassProgress, InputIsCurrent
  <2> QED  BY <1>1, <1>2, <1>3, <2>2 DEF InputIsCurrent, Calm
<1> QED  BY <1>4, <1>5, <1>7, <1>8 DEF Follows

LEMMA TakeFollows ==
    ASSUME ChainShape, Follows, chainFaults' = 0, NEW call \in Calls, TakeTurn(call)
    PROVE  Follows'
<1>1. /\ turn.at = "free" /\ call \in waiting
      /\ turn' = [at |-> IF Whole(call) THEN "create" ELSE "declare",
                  call |-> call, groups |-> want.groups, bad |-> FALSE, input |-> {}]
      /\ waiting' = waiting \ {call}
      /\ UNCHANGED <<want, live, bootFile, ntpArmed, ntpCrossed>>
  BY NoFaultBefore DEF TakeTurn
<1>2. /\ turn'.at = (IF Whole(call) THEN "create" ELSE "declare")
      /\ turn'.call = call /\ turn'.groups = want.groups /\ ~ turn'.bad
  BY <1>1
<1>3. ~ Running /\ Running'
  BY <1>1, <1>2 DEF Running
<1>4. call # Call("boot") /\ call.by # "boot"
  <2>1. call # Call("boot")
    BY <1>1 DEF Follows, NoBootPass
  <2> QED  BY <2>1 DEF Calls, Call, NtpCall
<1>5. NoBootPass'
  BY <1>1, <1>2, <1>4 DEF Follows, NoBootPass, OnForward
<1>6. ReloadsAreCurrent'
  <2>1. call.by = "ntp" => \E b \in BOOLEAN : call = NtpCall(b) /\ call.ntp = b
    BY DEF Calls, Call, NtpCall, Holders
  <2> QED  BY <1>1, <1>2, <2>1 DEF Follows, ReloadsAreCurrent
<1>7. call # Call("groups") => ~ Whole(call) /\ (GroupsAsked' <=> GroupsAsked)
  <2>1. call # Call("groups") => ~ Whole(call)
    BY <1>4 DEF Calls, Call, NtpCall, Holders, Whole
  <2> QED  BY <1>1, <2>1 DEF GroupsAsked
<1>8. PassProgress'
  BY <1>2, <1>3 DEF PassProgress, OnInput
<1>9. Whole(Call("groups"))
  BY DEF Whole, Call
<1>10. GroupsAreCurrent'
  <2>1. CASE call = Call("groups")
    <3>1. turn'.at = "create" /\ turn'.call = Call("groups") /\ turn'.groups = want'.groups
      BY <1>1, <1>2, <1>9, <2>1
    <3>2. Whole(turn.call)'
      BY <1>9, <3>1 DEF Whole
    <3> QED  BY <1>3, <3>1, <3>2 DEF GroupsAreCurrent, OnInput
  <2>2. CASE call # Call("groups")
    BY <1>1, <1>2, <1>3, <1>7, <2>2 DEF Follows, GroupsAreCurrent, OnInput, Whole
  <2> QED  BY <2>1, <2>2
<1>11. InputIsCurrent'
  BY <1>2, <1>3 DEF InputIsCurrent
<1> QED  BY <1>5, <1>6, <1>8, <1>10, <1>11 DEF Follows

\* An edit of the rows asks for the pass that follows it.
LEMMA EditFollows ==
    ASSUME ChainShape, Follows, EditRows
    PROVE  Follows'
<1>1. UNCHANGED <<live, bootFile, turn, ntpArmed, ntpCrossed>>
  BY DEF EditRows
<1>2. waiting' # {}
  BY DEF EditRows
<1>3. want'.ntp = want.ntp
  BY DEF EditRows, ChainShape, Rows
<1>4. waiting' \subseteq waiting \cup {Call("groups"), Call("protection")} /\ waiting \subseteq waiting'
  BY DEF EditRows
<1>5. Call("groups") # Call("boot") /\ Call("protection") # Call("boot")
  BY DEF Call
<1>6. \A b \in BOOLEAN : NtpCall(b) # Call("groups") /\ NtpCall(b) # Call("protection")
  BY DEF Call, NtpCall
<1>7. GroupsAsked' \/ (want' = [want EXCEPT !.wans = ~@] /\ waiting' = waiting \cup {Call("protection")})
  BY DEF EditRows, GroupsAsked
<1>8. NoBootPass'
  BY <1>1, <1>4, <1>5 DEF Follows, NoBootPass, Running
<1>9. ReloadsAreCurrent'
  BY <1>1, <1>3, <1>4, <1>6 DEF Follows, ReloadsAreCurrent, Running
<1>10. GroupsAsked => GroupsAsked'
  BY <1>4 DEF GroupsAsked
<1>11. PassProgress'
  BY <1>1, <1>10 DEF Follows, PassProgress, Running
<1>12. GroupsAreCurrent'
  <2>1. CASE GroupsAsked'
    BY <2>1 DEF GroupsAreCurrent
  <2>2. CASE ~ GroupsAsked'
    <3>1. want'.groups = want.groups /\ want'.forward = want.forward
      BY <1>7, <2>2 DEF ChainShape, Rows
    <3>2. ForwardChain(want)' = ForwardChain(want)
      BY <3>1 DEF ForwardChain
    <3> QED  BY <1>1, <1>10, <2>2, <3>1, <3>2 DEF Follows, GroupsAreCurrent, Running
  <2> QED  BY <2>1, <2>2
<1>13. InputIsCurrent'
  BY <1>2 DEF InputIsCurrent, Calm
<1> QED  BY <1>8, <1>9, <1>11, <1>12, <1>13 DEF Follows

\* An edit of the NTP toggle arms its timer, and marks the reload it overtakes.
LEMMA NtpFollows ==
    ASSUME ChainShape, Follows, EditNtp
    PROVE  Follows'
<1>1. UNCHANGED <<live, bootFile, turn, waiting>> /\ ntpArmed' = TRUE /\ want' = [want EXCEPT !.ntp = ~@]
  BY DEF EditNtp
<1>2. want'.groups = want.groups /\ want'.forward = want.forward
  BY <1>1 DEF ChainShape, Rows
<1>3. ForwardChain(want)' = ForwardChain(want)
  BY <1>2 DEF ForwardChain
<1>4. ASSUME ~ ntpCrossed'
      PROVE  (Running => turn.call.by # "ntp") /\ \A c \in waiting : c.by # "ntp"
  <2>1. ntpCrossed' = (ntpCrossed \/ (turn.at # "free" /\ turn.call.by = "ntp")
                                  \/ \E c \in waiting : c.by = "ntp")
    BY DEF EditNtp
  <2> QED  BY <1>4, <2>1, Zenon DEF Running
<1>5. \A b \in BOOLEAN : NtpCall(b).by = "ntp"
  BY DEF NtpCall
<1>6. NoBootPass'
  BY <1>1 DEF Follows, NoBootPass, Running
<1>7. ReloadsAreCurrent'
  BY <1>1, <1>4, <1>5 DEF ReloadsAreCurrent, Running
<1>8. PassProgress'
  BY <1>1 DEF Follows, PassProgress, Running, GroupsAsked
<1>9. GroupsAreCurrent'
  BY <1>1, <1>2, <1>3 DEF Follows, GroupsAreCurrent, Running, GroupsAsked
<1>10. InputIsCurrent'
  BY <1>1 DEF InputIsCurrent, Calm
<1> QED  BY <1>6, <1>7, <1>8, <1>9, <1>10 DEF Follows

LEMMA ReloadFollows ==
    ASSUME ChainShape, Follows, NtpReloads
    PROVE  Follows'
<1>1. /\ UNCHANGED <<want, live, bootFile, turn, ntpCrossed>>
      /\ waiting' = waiting \cup {NtpCall(want.ntp)}
  BY DEF NtpReloads
<1>2. NtpCall(want.ntp) # Call("boot") /\ NtpCall(want.ntp) # Call("groups")
  BY DEF NtpCall, Call
<1>3. \A b \in BOOLEAN : NtpCall(b) = NtpCall(want.ntp) => b = want.ntp
  BY DEF NtpCall
<1>4. GroupsAsked' <=> GroupsAsked
  BY <1>1, <1>2 DEF GroupsAsked
<1>5. NoBootPass'
  BY <1>1, <1>2 DEF Follows, NoBootPass, Running
<1>6. ReloadsAreCurrent'
  BY <1>1, <1>3 DEF Follows, ReloadsAreCurrent, Running
<1>7. PassProgress'
  BY <1>1, <1>4 DEF Follows, PassProgress, Running
<1>8. GroupsAreCurrent'
  BY <1>1, <1>4 DEF Follows, GroupsAreCurrent, Running
<1>9. InputIsCurrent'
  BY <1>1 DEF InputIsCurrent, Calm
<1> QED  BY <1>5, <1>6, <1>7, <1>8, <1>9 DEF Follows

LEMMA SavedFollows ==
    ASSUME Follows, bootFile' \in {live, bootFile},
           UNCHANGED <<want, live, turn, waiting, ntpArmed, ntpCrossed>>
    PROVE  Follows'
<1>1. NoBootPass' /\ ReloadsAreCurrent'
  BY DEF Follows, NoBootPass, ReloadsAreCurrent, Running
<1>2. PassProgress'
  BY DEF Follows, PassProgress, Running, GroupsAsked
<1>3. GroupsAreCurrent'
  BY DEF Follows, GroupsAreCurrent, Running, GroupsAsked
<1>4. InputIsCurrent'
  BY DEF Follows, InputIsCurrent, Running, Calm
<1> QED  BY <1>1, <1>2, <1>3, <1>4 DEF Follows

LEMMA ChainInvStep ==
    ASSUME ChainInv, [ChainNext]_chainVars
    PROVE  ChainInv'
<1> USE DEF ChainInv
<1> SUFFICES ASSUME chainFaults' = 0 PROVE Follows'
  BY ChainShapeStep, CutStep
<1>1. ~ ChainFault /\ (UNCHANGED chainFaults => chainFaults = 0)
  BY NoFaultBefore
<1>2. CASE EditRows \/ EditNtp \/ NtpReloads
  <2>1. chainFaults = 0
    BY <1>1, <1>2 DEF EditRows, EditNtp, NtpReloads
  <2> QED  BY <1>2, <2>1, EditFollows, NtpFollows, ReloadFollows
<1>3. CASE OthersPersist \/ UNCHANGED chainVars
  <2>1. chainFaults = 0 /\ bootFile' \in {live, bootFile}
        /\ UNCHANGED <<want, live, turn, waiting, ntpArmed, ntpCrossed>>
    BY <1>1, <1>3 DEF OthersPersist, chainVars
  <2> QED  BY <2>1, SavedFollows
<1>4. ASSUME NEW call \in Calls, TakeTurn(call) PROVE Follows'
  <2>1. chainFaults = 0
    BY <1>1, <1>4 DEF TakeTurn
  <2> QED  BY <1>4, <2>1, TakeFollows
<1>5. CASE TurnStep
  <2>1. chainFaults = 0
    <3>1. TurnStep => UNCHANGED chainFaults \/ ChainFault
      BY DEF TurnStep, CreateChains, RebuildForward, DeclareInput, InputNotRead, FlushInput, FillInput,
             DeleteOrphans, SkipCleanup, PersistTurn, EndTurn, Command
    <3> QED  BY <1>1, <1>5, <3>1
  <2>2. ~ InputNotRead
    BY <1>1 DEF InputNotRead
  <2> QED
    BY <1>5, <2>1, <2>2, CreateFollows, ForwardFollows, DeclareFollows, FlushFollows, FillFollows, DeleteFollows,
       SkipFollows, PersistFollows, EndFollows DEF TurnStep
<1>6. ~ ChainRestart
  BY <1>1 DEF ChainRestart
<1> QED  BY <1>2, <1>3, <1>4, <1>5, <1>6 DEF ChainNext

LEMMA ChainInvHolds == ChainInv => ChainsFollowRows /\ ForwardNeverCut
<1> SUFFICES ASSUME ChainInv, turn.at = "free", waiting = {}, ~ ntpArmed, chainFaults = 0, ~ ntpCrossed
             PROVE  live = Rendered(want) /\ bootFile = live
  BY DEF ChainInv, ChainsFollowRows
<1>1. /\ live.chains = want.groups /\ live.forward = ForwardChain(want)
      /\ live.input = InputChain(want, want.ntp, TRUE) /\ bootFile = live
  BY DEF ChainInv, Follows, GroupsAreCurrent, InputIsCurrent, Calm, GroupsAsked, Running
<1>2. live \in TableSet
  BY DEF ChainInv, ChainShape
<1> QED  BY <1>1, <1>2 DEF TableSet, Rendered

-----------------------------------------------------------------------------
(* DHCP and DNS: the shape of a reload *)

NetResults == {"ok", "warned", "failed"}
NetTexts == [listen : Addresses \cup {Nowhere}, names : {"good", "other"}]
AfterRender == {"writeKea", "writeUnbound", "reloadKea", "reloadUnbound", "mark"}
FreshReload == [at : {"packages"}, row : Configs]
EarlyReload  == [at : {"render", "guard", "record"}, row : Configs, result : NetResults]
LateReload  == [at : AfterRender \cup {"guard", "record"}, row : Configs, kea : BOOLEAN, file : NetTexts,
                 restart : BOOLEAN, result : NetResults]
ReloadSet == {NotReloading} \cup FreshReload \cup EarlyReload \cup LateReload

NetShape ==
    /\ saved \in Configs
    /\ draft = NoDraft \/ (draft.by \in {"dhcp", "dns"} /\ draft.row \in Configs)
    /\ present \subseteq Addresses /\ lost \subseteq Addresses
    /\ keaFile = "good" /\ unboundFile \in NetTexts
    /\ marker \in Addresses \cup {Nowhere}
    /\ unbound = NotStarted \/ unbound \in NetTexts
    /\ guard \in BOOLEAN /\ deps \in BOOLEAN /\ armed \in BOOLEAN
    /\ overlapped \in BOOLEAN /\ strayed \in BOOLEAN /\ forgotten \in BOOLEAN
    /\ status \in NetResults
    /\ reload \in [Reloads -> ReloadSet]

\* A text names an address the machine has or had.
Seen == present \cup lost \cup {Nowhere}
TextsAreSeen ==
    /\ unboundFile.listen \in Seen
    /\ \A r \in Reloads : reload[r].at \in AfterRender => reload[r].file.listen \in Seen
    /\ unbound = NotStarted => lost # {}

Reloading(r) == reload[r].at # "idle"

\* Reloads that do not overlap have the machine to themselves, and the last row.
OneReload == ~ overlapped => \A r, o \in Reloads : Reloading(r) /\ Reloading(o) => r = o
RowIsSaved ==
    ~ overlapped /\ ~ forgotten /\ ~ armed => \A r \in Reloads : Reloading(r) => reload[r].row = saved

\* What unbound listens on is what the marker says, or somebody is about to say it.
MarkerFollows ==
    ~ strayed => \/ unbound = NotStarted \/ unbound.listen = marker
                 \/ \E r \in Reloads : reload[r].at = "mark"

\* What a reload has written so far is what its row asks for.
TextOf(asked) == [listen |-> asked.addr, names |-> asked.names]
RowIsRendered(r) ==
    reload[r].at \in AfterRender =>
      /\ reload[r].row.names # "bad"
      /\ reload[r].kea <=> reload[r].row.range # "bad"
      /\ reload[r].file.names = reload[r].row.names
      /\ reload[r].result = "ok" => reload[r].kea /\ reload[r].file.listen = reload[r].row.addr
WrittenSoFar(r) ==
    /\ reload[r].at \in AfterRender \ {"mark"} => reload[r].restart = (marker # reload[r].file.listen)
    /\ reload[r].at \in {"reloadKea", "reloadUnbound", "mark"} => unboundFile = reload[r].file
    /\ reload[r].at = "mark" /\ ~ strayed => unbound = unboundFile
    /\ reload[r].at \in {"guard", "record"} /\ reload[r].result = "ok" =>
         /\ unboundFile = TextOf(reload[r].row) /\ reload[r].row.range = "good"
         /\ ~ strayed => unbound = unboundFile
    /\ reload[r].at = "record" /\ reload[r].result = "ok" =>
         /\ ~ deps
         /\ ~ armed /\ ~ forgotten => guard = Guarded(saved)
ReloadIsRight ==
    /\ \A r \in Reloads : RowIsRendered(r)
    /\ ~ overlapped => \A r \in Reloads : WrittenSoFar(r)

\* With no reload under way, what the last one said.
LastWasRight ==
    (\A r \in Reloads : ~ Reloading(r)) /\ ~ overlapped /\ ~ forgotten /\ ~ armed /\ status = "ok" =>
      /\ unboundFile = TextOf(saved) /\ saved.range = "good" /\ guard = Guarded(saved) /\ ~ deps
      /\ ~ strayed => unbound = unboundFile \/ saved.addr \notin present

NetInv ==
    NetShape /\ TextsAreSeen /\ OneReload /\ RowIsSaved /\ MarkerFollows /\ ReloadIsRight /\ LastWasRight

LEMMA StageOf ==
    ASSUME NetShape, NEW r \in Reloads
    PROVE  /\ reload[r] \in ReloadSet
           /\ reload[r].at = "packages" => reload[r] \in FreshReload
           /\ reload[r].at = "render" => reload[r] \in EarlyReload
           /\ reload[r].at \in AfterRender => reload[r] \in LateReload
           /\ reload[r].at \in {"guard", "record"} => reload[r] \in EarlyReload \cup LateReload
           /\ Reloading(r) => reload[r].row \in Configs
<1>1. reload[r] \in ReloadSet
  BY DEF NetShape
<1> QED  BY <1>1 DEF ReloadSet, FreshReload, EarlyReload, LateReload, AfterRender, NotReloading, Reloading

\* A step of one reload.
Only(r) == \A o \in Reloads \ {r} : reload'[o] = reload[o]

LEMMA ReloadTo ==
    ASSUME NetShape, NEW r \in Reloads, NEW next \in ReloadSet, reload' = [reload EXCEPT ![r] = next]
    PROVE  reload' \in [Reloads -> ReloadSet] /\ reload'[r] = next /\ Only(r)
BY DEF NetShape, Only

\* A reload that goes on keeps what it rendered.
LEMMA ReloadMoves ==
    ASSUME NetShape, NEW r \in Reloads, reload[r].at \in AfterRender,
           NEW at \in AfterRender \cup {"guard"}, reload' = [reload EXCEPT ![r].at = at]
    PROVE  /\ reload' \in [Reloads -> ReloadSet] /\ Only(r)
           /\ reload'[r].at = at /\ reload'[r].row = reload[r].row /\ reload'[r].kea = reload[r].kea
           /\ reload'[r].file = reload[r].file /\ reload'[r].restart = reload[r].restart
           /\ reload'[r].result = reload[r].result
<1> DEFINE next == [reload[r] EXCEPT !.at = at]
<1>1. reload[r] \in LateReload
  BY StageOf
<1>2. /\ next \in LateReload /\ next.at = at /\ next.row = reload[r].row /\ next.kea = reload[r].kea
      /\ next.file = reload[r].file /\ next.restart = reload[r].restart /\ next.result = reload[r].result
  BY <1>1 DEF LateReload
<1>3. reload' = [reload EXCEPT ![r] = next] /\ next \in ReloadSet
  BY <1>2 DEF ReloadSet
<1> HIDE DEF next
<1> QED  BY <1>2, <1>3, ReloadTo

LEMMA ReloadRefused ==
    ASSUME NetShape, NEW r \in Reloads, reload[r].at \in AfterRender \cup {"render"}, Refuse(r)
    PROVE  /\ reload' \in [Reloads -> ReloadSet] /\ Only(r)
           /\ reload'[r].at = "guard" /\ reload'[r].row = reload[r].row /\ reload'[r].result = "failed"
<1> DEFINE next == [reload[r] EXCEPT !.at = "guard", !.result = "failed"]
<1>1. reload[r] \in EarlyReload \cup LateReload
  BY StageOf
<1>2. /\ next \in EarlyReload \cup LateReload /\ next.at = "guard" /\ next.row = reload[r].row /\ next.result = "failed"
  <2>1. CASE reload[r] \in EarlyReload
    BY <2>1 DEF EarlyReload, NetResults
  <2>2. CASE reload[r] \in LateReload
    BY <2>2 DEF LateReload, NetResults
  <2> QED  BY <1>1, <2>1, <2>2
<1>3. reload' = [reload EXCEPT ![r] = next] /\ next \in ReloadSet
  BY <1>2 DEF ReloadSet, Refuse
<1> HIDE DEF next
<1> QED  BY <1>2, <1>3, ReloadTo

\* The guard's step, from either shape.
LEMMA GuardMoves ==
    ASSUME NetShape, NEW r \in Reloads, reload[r].at = "guard", NEW result \in NetResults,
           \/ reload' = [reload EXCEPT ![r].at = "record"] /\ result = reload[r].result
           \/ reload' = [reload EXCEPT ![r].at = "record", ![r].result = result]
    PROVE  /\ reload' \in [Reloads -> ReloadSet] /\ Only(r)
           /\ reload'[r].at = "record" /\ reload'[r].row = reload[r].row /\ reload'[r].result = result
<1>1. reload[r] \in EarlyReload \cup LateReload
  BY StageOf
<1>2. PICK next : /\ reload' = [reload EXCEPT ![r] = next]
                  /\ \/ next = [reload[r] EXCEPT !.at = "record"] /\ result = reload[r].result
                     \/ next = [reload[r] EXCEPT !.at = "record", !.result = result]
  OBVIOUS
<1>3. /\ next \in EarlyReload \cup LateReload /\ next.at = "record" /\ next.row = reload[r].row /\ next.result = result
  <2>1. CASE reload[r] \in EarlyReload
    BY <1>2, <2>1 DEF EarlyReload
  <2>2. CASE reload[r] \in LateReload
    BY <1>2, <2>2 DEF LateReload
  <2> QED  BY <1>1, <2>1, <2>2
<1>4. next \in ReloadSet
  BY <1>3 DEF ReloadSet
<1> QED  BY <1>2, <1>3, <1>4, ReloadTo

LEMMA NetStarts == NetInit => NetInv
<1> SUFFICES ASSUME NetInit PROVE NetInv
  OBVIOUS
<1>1. \A r \in Reloads : reload[r].at = "idle" /\ reload[r] = NotReloading
  BY DEF NetInit, NotReloading
<1>2. NetShape
  BY DEF NetInit, NetShape, Configs, Addresses, Nowhere, NetTexts, NetResults, ReloadSet
<1>3. TextsAreSeen
  BY <1>1 DEF NetInit, TextsAreSeen, Seen, NotStarted, AfterRender, Addresses
<1>4. OneReload /\ RowIsSaved /\ MarkerFollows
  BY <1>1 DEF NetInit, OneReload, RowIsSaved, MarkerFollows, Reloading
<1>5. ReloadIsRight
  BY <1>1 DEF ReloadIsRight, RowIsRendered, WrittenSoFar, AfterRender
<1>6. LastWasRight
  BY DEF NetInit, LastWasRight, TextOf, Guarded
<1> QED  BY <1>2, <1>3, <1>4, <1>5, <1>6 DEF NetInv

\* What a step of one reload leaves of the others, and of what was said.
LEMMA OthersStay ==
    ASSUME NetInv, NEW r \in Reloads, Reloading(r), Only(r), Reloading(r)', reload'[r].row = reload[r].row,
           UNCHANGED <<saved, armed, overlapped, forgotten>>,
           RowIsRendered(r)', ~ overlapped => WrittenSoFar(r)'
    PROVE  OneReload' /\ RowIsSaved' /\ ReloadIsRight' /\ LastWasRight'
<1>1. \A o \in Reloads : Reloading(o)' => Reloading(o) /\ reload'[o].row = reload[o].row
  BY DEF Only, Reloading
<1>2. OneReload' /\ RowIsSaved'
  BY <1>1 DEF NetInv, OneReload, RowIsSaved
<1>3. \A o \in Reloads : RowIsRendered(o)'
  BY DEF NetInv, ReloadIsRight, RowIsRendered, Only
<1>4. ASSUME ~ overlapped, NEW o \in Reloads PROVE WrittenSoFar(o)'
  <2>1. CASE o = r
    BY <1>4, <2>1
  <2>2. CASE o # r
    <3>1. reload'[o].at = "idle"
      BY <1>4, <2>2 DEF NetInv, OneReload, Only, Reloading
    <3> QED  BY <3>1 DEF WrittenSoFar, AfterRender
  <2> QED  BY <2>1, <2>2
<1>5. ReloadIsRight'
  BY <1>3, <1>4 DEF ReloadIsRight
<1>6. LastWasRight'
  BY DEF LastWasRight
<1> QED  BY <1>2, <1>5, <1>6

\* The panel's edits.
LEMMA EditsKeep ==
    ASSUME NetInv, EditReads \/ EditSaves
    PROVE  NetInv'
<1>1. /\ draft' = NoDraft \/ (draft'.by \in {"dhcp", "dns"} /\ draft'.row \in Configs)
      /\ saved' \in Configs /\ armed' \in BOOLEAN
      /\ (saved' = saved /\ armed' = armed) \/ armed'
      /\ UNCHANGED <<present, lost, keaFile, unboundFile, marker, unbound, guard, reload, status, deps,
                     overlapped, strayed, forgotten>>
  <2>1. CASE EditReads
    <3>1. saved \in Configs
      BY DEF NetInv, NetShape
    <3>2. ASSUME NEW a \in Addresses, NEW g \in {"good", "bad"}
          PROVE  [saved EXCEPT !.addr = a, !.range = g] \in Configs
      BY <3>1 DEF Configs
    <3>3. ASSUME NEW n \in {"good", "other", "bad"}, NEW f \in BOOLEAN
          PROVE  [saved EXCEPT !.names = n, !.force = f] \in Configs
      BY <3>1 DEF Configs
    <3>4. \E asked \in Configs, by \in {"dhcp", "dns"} : draft' = [by |-> by, row |-> asked]
      BY <2>1, <3>2, <3>3 DEF EditReads
    <3>5. draft'.by \in {"dhcp", "dns"} /\ draft'.row \in Configs
      BY <3>4
    <3>6. armed \in BOOLEAN
      BY DEF NetInv, NetShape
    <3> QED  BY <2>1, <3>1, <3>5, <3>6 DEF EditReads
  <2>2. CASE EditSaves
    BY <2>2 DEF EditSaves, NetInv, NetShape
  <2> QED  BY <2>1, <2>2
<1>2. NetShape'
  BY <1>1 DEF NetInv, NetShape
<1>3. TextsAreSeen' /\ OneReload' /\ MarkerFollows'
  BY <1>1 DEF NetInv, TextsAreSeen, Seen, OneReload, MarkerFollows, Reloading
<1>4. RowIsSaved'
  BY <1>1 DEF NetInv, RowIsSaved, Reloading
<1>5. ReloadIsRight'
  <2>1. \A r \in Reloads : RowIsRendered(r)'
    BY <1>1 DEF NetInv, ReloadIsRight, RowIsRendered
  <2>2. \A r \in Reloads : WrittenSoFar(r) => WrittenSoFar(r)'
    BY <1>1 DEF WrittenSoFar
  <2> QED  BY <1>1, <2>1, <2>2 DEF NetInv, ReloadIsRight
<1>6. LastWasRight'
  BY <1>1 DEF NetInv, LastWasRight, Reloading
<1> QED  BY <1>2, <1>3, <1>4, <1>5, <1>6 DEF NetInv

\* A reload begins, of the timer or asked for.
LEMMA BeginKeeps ==
    ASSUME NetInv, NEW r \in Reloads, Begins(r), armed' \in BOOLEAN
    PROVE  NetInv'
<1> DEFINE next == [at |-> "packages", row |-> saved]
<1>1. /\ reload[r].at = "idle" /\ reload' = [reload EXCEPT ![r] = next]
      /\ overlapped' = (\E o \in Reloads \ {r} : reload[o].at # "idle")
      /\ UNCHANGED <<saved, draft, present, lost, keaFile, unboundFile, marker, unbound, guard, status,
                     deps, strayed>>
      /\ forgotten' = FALSE
  BY DEF Begins
<1>2. next \in ReloadSet /\ next.at = "packages" /\ next.row = saved
  BY DEF NetInv, NetShape, ReloadSet, FreshReload
<1> HIDE DEF next
<1>3. reload' \in [Reloads -> ReloadSet] /\ reload'[r] = next /\ Only(r)
  BY <1>1, <1>2, ReloadTo DEF NetInv
<1>4. NetShape'
  BY <1>1, <1>3 DEF NetInv, NetShape
<1>5. TextsAreSeen'
  BY <1>1, <1>2, <1>3 DEF NetInv, TextsAreSeen, Seen, Only, AfterRender
<1>6. Reloading(r)' /\ (~ overlapped' => \A o \in Reloads \ {r} : ~ Reloading(o)')
  BY <1>1, <1>2, <1>3 DEF Only, Reloading
<1>7. OneReload' /\ LastWasRight'
  BY <1>6 DEF OneReload, LastWasRight
<1>8. RowIsSaved'
  BY <1>1, <1>2, <1>3, <1>6 DEF RowIsSaved
<1>9. MarkerFollows'
  BY <1>1, <1>3 DEF NetInv, MarkerFollows, Only
<1>10. ReloadIsRight'
  <2>1. \A o \in Reloads : RowIsRendered(o)'
    BY <1>2, <1>3 DEF NetInv, ReloadIsRight, RowIsRendered, Only, AfterRender
  <2>2. ASSUME ~ overlapped', NEW o \in Reloads PROVE WrittenSoFar(o)'
    BY <1>2, <1>3, <1>6, <2>2 DEF WrittenSoFar, AfterRender, Reloading
  <2> QED  BY <2>1, <2>2 DEF ReloadIsRight
<1> QED  BY <1>4, <1>5, <1>7, <1>8, <1>9, <1>10 DEF NetInv

LEMMA EnsureKeeps ==
    ASSUME NetInv, NEW r \in Reloads, EnsurePackages(r)
    PROVE  NetInv'
<1>1. PICK at \in {"render", "guard"}, result \in NetResults :
        /\ reload' = [reload EXCEPT ![r] = [at |-> at, row |-> reload[r].row, result |-> result]]
        /\ at = "guard" => result = "failed"
  BY DEF EnsurePackages, NetResults
<1>2. /\ reload[r].at = "packages" /\ deps' \in {deps, TRUE}
      /\ UNCHANGED <<saved, draft, armed, present, lost, keaFile, unboundFile, marker, unbound, guard,
                     status, overlapped, strayed, forgotten>>
  BY DEF EnsurePackages
<1> DEFINE next == [at |-> at, row |-> reload[r].row, result |-> result]
<1>3. next \in ReloadSet /\ next.at = at /\ next.row = reload[r].row /\ next.result = result
  <2>1. reload[r].row \in Configs
    BY <1>2, StageOf DEF NetInv, Reloading
  <2> QED  BY <2>1 DEF ReloadSet, EarlyReload
<1>4. reload' = [reload EXCEPT ![r] = next]
  BY <1>1
<1> HIDE DEF next
<1>5. reload' \in [Reloads -> ReloadSet] /\ reload'[r] = next /\ Only(r)
  BY <1>3, <1>4, ReloadTo DEF NetInv
<1>6. NetShape'
  BY <1>2, <1>5 DEF NetInv, NetShape
<1>7. TextsAreSeen'
  BY <1>2, <1>3, <1>5 DEF NetInv, TextsAreSeen, Seen, Only, AfterRender
<1>8. MarkerFollows'
  BY <1>2, <1>5 DEF NetInv, MarkerFollows, Only
<1>9. Reloading(r) /\ Reloading(r)' /\ reload'[r].row = reload[r].row
  BY <1>2, <1>3, <1>5 DEF Reloading
<1>10. RowIsRendered(r)' /\ WrittenSoFar(r)'
  BY <1>1, <1>3, <1>5 DEF RowIsRendered, WrittenSoFar, AfterRender
<1> QED  BY <1>2, <1>5, <1>6, <1>7, <1>8, <1>9, <1>10, OthersStay DEF NetInv

LEMMA RenderKeeps ==
    ASSUME NetInv, NEW r \in Reloads, Render(r)
    PROVE  NetInv'
<1>1. /\ reload[r].at = "render" /\ reload[r].row \in Configs /\ reload[r] \in EarlyReload
      /\ UNCHANGED <<saved, draft, armed, present, lost, keaFile, unboundFile, marker, unbound, guard,
                     status, deps, overlapped, strayed, forgotten>>
  BY StageOf DEF Render, NetInv, Reloading
<1>2. CASE Blocks(reload[r].row)
  <2>1. Refuse(r)
    BY <1>2 DEF Render
  <2>2. /\ reload' \in [Reloads -> ReloadSet] /\ Only(r)
        /\ reload'[r].at = "guard" /\ reload'[r].row = reload[r].row /\ reload'[r].result = "failed"
    BY <1>1, <2>1, ReloadRefused DEF NetInv
  <2>3. NetShape'
    BY <1>1, <2>2 DEF NetInv, NetShape
  <2>4. TextsAreSeen' /\ MarkerFollows'
    BY <1>1, <2>2 DEF NetInv, TextsAreSeen, MarkerFollows, Seen, Only, AfterRender
  <2>5. Reloading(r) /\ Reloading(r)' /\ RowIsRendered(r)' /\ WrittenSoFar(r)'
    BY <1>1, <2>2 DEF Reloading, RowIsRendered, WrittenSoFar, AfterRender
  <2> QED  BY <1>1, <2>2, <2>3, <2>4, <2>5, OthersStay DEF NetInv
<1>3. CASE ~ Blocks(reload[r].row)
  <2>1. PICK asked, text, kea, result :
          /\ asked = reload[r].row /\ text = UnboundText(asked) /\ kea = (asked.range # "bad")
          /\ result = IF ~ kea THEN "failed" ELSE IF text.listen = Nowhere THEN "warned" ELSE "ok"
    OBVIOUS
  <2> DEFINE next == [at |-> "writeKea", row |-> asked, kea |-> kea, file |-> text,
                      restart |-> marker # text.listen, result |-> result]
  <2>2. reload' = [reload EXCEPT ![r] = next]
    BY <1>3, <2>1 DEF Render
  <2>3. /\ asked \in Configs /\ asked.names # "bad" /\ kea \in BOOLEAN
        /\ text \in NetTexts /\ text.names = asked.names /\ text.listen \in Seen
        /\ text.listen # Nowhere => text.listen = asked.addr
    BY <1>1, <1>3, <2>1 DEF Configs, Blocks, UnboundText, Listen, NetTexts, Seen
  <2>4. result \in NetResults /\ (result = "ok" => kea /\ text.listen = asked.addr)
    BY <2>1, <2>3 DEF NetResults
  <2>5. /\ next \in ReloadSet /\ next.at = "writeKea" /\ next.row = asked /\ next.kea = kea
        /\ next.file = text /\ next.restart = (marker # text.listen) /\ next.result = result
    BY <2>3, <2>4 DEF ReloadSet, LateReload, AfterRender
  <2> HIDE DEF next
  <2>6. reload' \in [Reloads -> ReloadSet] /\ reload'[r] = next /\ Only(r)
    BY <2>2, <2>5, ReloadTo DEF NetInv
  <2>7. NetShape'
    BY <1>1, <2>6 DEF NetInv, NetShape
  <2>8. TextsAreSeen'
    BY <1>1, <2>3, <2>5, <2>6 DEF NetInv, TextsAreSeen, Seen, Only, AfterRender
  <2>9. MarkerFollows'
    BY <1>1, <2>6 DEF NetInv, MarkerFollows, Only
  <2>10. Reloading(r) /\ Reloading(r)' /\ reload'[r].row = reload[r].row
    BY <1>1, <2>1, <2>5, <2>6 DEF Reloading
  <2>11. RowIsRendered(r)'
    BY <2>1, <2>3, <2>4, <2>5, <2>6 DEF RowIsRendered
  <2>12. WrittenSoFar(r)'
    BY <1>1, <2>5, <2>6 DEF WrittenSoFar, AfterRender
  <2> QED  BY <1>1, <2>6, <2>7, <2>8, <2>9, <2>10, <2>11, <2>12, OthersStay DEF NetInv
<1> QED  BY <1>2, <1>3

LEMMA WriteKeaKeeps ==
    ASSUME NetInv, NEW r \in Reloads, WriteKea(r)
    PROVE  NetInv'
<1>1. /\ reload[r].at = "writeKea" /\ reload[r] \in LateReload /\ RowIsRendered(r)
      /\ ~ overlapped => WrittenSoFar(r)
      /\ UNCHANGED <<saved, draft, armed, present, lost, unboundFile, marker, unbound, guard, status, deps,
                     overlapped, strayed, forgotten>>
  BY StageOf DEF WriteKea, NetInv, ReloadIsRight, AfterRender
<1>2. keaFile' = "good"
  BY <1>1 DEF WriteKea, WritesKea, NetInv, NetShape, RowIsRendered, AfterRender, LateReload, Configs
<1>3. /\ reload' \in [Reloads -> ReloadSet] /\ Only(r) /\ reload'[r].row = reload[r].row
      /\ \/ /\ reload'[r].at = "writeUnbound" /\ reload'[r].kea = reload[r].kea
            /\ reload'[r].file = reload[r].file /\ reload'[r].restart = reload[r].restart
            /\ reload'[r].result = reload[r].result
         \/ reload'[r].at = "guard" /\ reload'[r].result = "failed"
  BY <1>1, ReloadMoves, ReloadRefused DEF WriteKea, NetInv, AfterRender
<1>4. NetShape'
  BY <1>1, <1>2, <1>3 DEF NetInv, NetShape
<1>5. TextsAreSeen'
  BY <1>1, <1>3 DEF NetInv, TextsAreSeen, Seen, Only, AfterRender
<1>6. MarkerFollows'
  BY <1>1, <1>3 DEF NetInv, MarkerFollows, Only
<1>7. Reloading(r) /\ Reloading(r)'
  BY <1>1, <1>3 DEF Reloading
<1>8. RowIsRendered(r)' /\ (~ overlapped => WrittenSoFar(r)')
  BY <1>1, <1>3 DEF RowIsRendered, WrittenSoFar, AfterRender
<1> QED  BY <1>1, <1>3, <1>4, <1>5, <1>6, <1>7, <1>8, OthersStay DEF NetInv

LEMMA WriteUnboundKeeps ==
    ASSUME NetInv, NEW r \in Reloads, WriteUnbound(r)
    PROVE  NetInv'
<1>1. /\ reload[r].at = "writeUnbound" /\ reload[r] \in LateReload /\ RowIsRendered(r)
      /\ ~ overlapped => WrittenSoFar(r)
      /\ UNCHANGED <<saved, draft, armed, present, lost, keaFile, marker, unbound, guard, status, deps,
                     overlapped, strayed, forgotten>>
  BY StageOf DEF WriteUnbound, NetInv, ReloadIsRight, AfterRender
<1>2. /\ reload' \in [Reloads -> ReloadSet] /\ Only(r) /\ reload'[r].row = reload[r].row
      /\ \/ /\ reload'[r].at = "reloadKea" /\ reload'[r].kea = reload[r].kea
            /\ reload'[r].file = reload[r].file /\ reload'[r].restart = reload[r].restart
            /\ reload'[r].result = reload[r].result /\ unboundFile' = reload[r].file
         \/ reload'[r].at = "guard" /\ reload'[r].result = "failed" /\ unboundFile' = unboundFile
  BY <1>1, ReloadMoves, ReloadRefused DEF WriteUnbound, NetInv, AfterRender
<1>3. unboundFile' \in NetTexts /\ unboundFile'.listen \in Seen
  BY <1>1, <1>2 DEF NetInv, NetShape, TextsAreSeen, AfterRender, LateReload
<1>4. NetShape'
  BY <1>1, <1>2, <1>3 DEF NetInv, NetShape
<1>5. TextsAreSeen'
  BY <1>1, <1>2, <1>3 DEF NetInv, TextsAreSeen, Seen, Only, AfterRender
<1>6. MarkerFollows'
  BY <1>1, <1>2 DEF NetInv, MarkerFollows, Only
<1>7. Reloading(r) /\ Reloading(r)'
  BY <1>1, <1>2 DEF Reloading
<1>8. RowIsRendered(r)' /\ (~ overlapped => WrittenSoFar(r)')
  BY <1>1, <1>2 DEF RowIsRendered, WrittenSoFar, AfterRender
<1> QED  BY <1>1, <1>2, <1>4, <1>5, <1>6, <1>7, <1>8, OthersStay DEF NetInv

LEMMA ReloadKeaKeeps ==
    ASSUME NetInv, NEW r \in Reloads, ReloadKea(r)
    PROVE  NetInv'
<1>1. /\ reload[r].at = "reloadKea" /\ reload[r] \in LateReload /\ RowIsRendered(r)
      /\ ~ overlapped => WrittenSoFar(r)
      /\ UNCHANGED <<saved, draft, armed, present, lost, keaFile, unboundFile, marker, unbound, guard,
                     status, deps, overlapped, strayed, forgotten>>
  BY StageOf DEF ReloadKea, NetInv, ReloadIsRight, AfterRender
<1>2. /\ reload' \in [Reloads -> ReloadSet] /\ Only(r) /\ reload'[r].row = reload[r].row
      /\ \/ /\ reload'[r].at = "reloadUnbound" /\ reload'[r].kea = reload[r].kea
            /\ reload'[r].file = reload[r].file /\ reload'[r].restart = reload[r].restart
            /\ reload'[r].result = reload[r].result
         \/ reload'[r].at = "guard" /\ reload'[r].result = "failed"
  BY <1>1, ReloadMoves, ReloadRefused DEF ReloadKea, NetInv, AfterRender
<1>3. NetShape'
  BY <1>1, <1>2 DEF NetInv, NetShape
<1>4. TextsAreSeen'
  BY <1>1, <1>2 DEF NetInv, TextsAreSeen, Seen, Only, AfterRender
<1>5. MarkerFollows'
  BY <1>1, <1>2 DEF NetInv, MarkerFollows, Only
<1>6. Reloading(r) /\ Reloading(r)'
  BY <1>1, <1>2 DEF Reloading
<1>7. RowIsRendered(r)' /\ (~ overlapped => WrittenSoFar(r)')
  BY <1>1, <1>2 DEF RowIsRendered, WrittenSoFar, AfterRender
<1> QED  BY <1>1, <1>2, <1>3, <1>4, <1>5, <1>6, <1>7, OthersStay DEF NetInv

\* Started on the file, or not at all where its address went away.
LEMMA StartedIs ==
    ASSUME NetInv
    PROVE  /\ Started = unboundFile \/ (Started = NotStarted /\ lost # {})
           /\ Started = NotStarted <=> unboundFile.listen \notin present \cup {Nowhere}
           /\ Started = NotStarted \/ Started \in NetTexts
<1>1. unboundFile \in NetTexts /\ unboundFile.listen \in Seen
  BY DEF NetInv, NetShape, TextsAreSeen
<1>2. unboundFile # NotStarted
  BY <1>1 DEF NetTexts, NotStarted, Addresses, Nowhere
<1> QED  BY <1>1, <1>2 DEF Started, Seen

LEMMA ReloadUnboundKeeps ==
    ASSUME NetInv, NEW r \in Reloads, ReloadUnbound(r)
    PROVE  NetInv'
<1>1. /\ reload[r].at = "reloadUnbound" /\ reload[r] \in LateReload /\ RowIsRendered(r)
      /\ ~ overlapped => WrittenSoFar(r)
      /\ unboundFile \in NetTexts /\ (unbound = NotStarted \/ unbound \in NetTexts)
      /\ UNCHANGED <<saved, draft, armed, present, lost, keaFile, unboundFile, marker, guard, status, deps,
                     overlapped, forgotten>>
  BY StageOf DEF ReloadUnbound, NetInv, NetShape, ReloadIsRight, AfterRender
<1>2. /\ strayed' = (strayed /\ ~ reload[r].restart /\ unbound # NotStarted)
      /\ unbound' = IF reload[r].restart THEN Started ELSE Reloaded
  BY DEF ReloadUnbound
<1>3. strayed' \in BOOLEAN /\ (~ strayed' => ~ strayed \/ reload[r].restart \/ unbound = NotStarted)
  BY <1>2
<1>4. ~ reload[r].restart /\ unbound # NotStarted
         => unbound' = [listen |-> unbound.listen, names |-> unboundFile.names]
  BY <1>2 DEF Reloaded
<1>5. unbound' = NotStarted \/ unbound' \in NetTexts
  BY <1>1, <1>2, StartedIs DEF Reloaded, NetTexts
<1>6. unbound' = NotStarted => lost # {}
  BY <1>1, <1>2, StartedIs DEF Reloaded, NetTexts, NotStarted, Addresses, Nowhere
<1>7. /\ reload' \in [Reloads -> ReloadSet] /\ Only(r) /\ reload'[r].row = reload[r].row
      /\ \/ /\ reload'[r].at = "mark" /\ reload'[r].kea = reload[r].kea /\ unbound' # NotStarted
            /\ reload'[r].file = reload[r].file /\ reload'[r].restart = reload[r].restart
            /\ reload'[r].result = reload[r].result
         \/ reload'[r].at = "guard" /\ reload'[r].result = "failed" /\ unbound' = NotStarted
  BY <1>1, ReloadMoves, ReloadRefused DEF ReloadUnbound, NetInv, AfterRender
<1>8. NetShape'
  BY <1>1, <1>3, <1>5, <1>7 DEF NetInv, NetShape
<1>9. TextsAreSeen'
  BY <1>1, <1>6, <1>7 DEF NetInv, TextsAreSeen, Seen, Only, AfterRender
<1>10. MarkerFollows'
  BY <1>7 DEF MarkerFollows
<1>11. Reloading(r) /\ Reloading(r)'
  BY <1>1, <1>7 DEF Reloading
<1>12. RowIsRendered(r)'
  BY <1>1, <1>7 DEF RowIsRendered, AfterRender
<1>13. ASSUME ~ overlapped, ~ strayed', unbound' # NotStarted
       PROVE  unbound' = unboundFile
  <2>1. WrittenSoFar(r) /\ reload[r].restart = (marker # reload[r].file.listen) /\ unboundFile = reload[r].file
    BY <1>1, <1>13 DEF WrittenSoFar, AfterRender
  <2>2. CASE reload[r].restart \/ unbound = NotStarted
    BY <1>2, <1>13, <2>2, StartedIs DEF Reloaded
  <2>3. CASE ~ reload[r].restart /\ unbound # NotStarted
    <3>1. unbound.listen = marker
      <4>1. \A o \in Reloads : reload[o].at # "mark"
        BY <1>1, <1>13 DEF NetInv, OneReload, Reloading
      <4> QED  BY <1>3, <1>13, <2>3, <4>1 DEF NetInv, MarkerFollows
    <3>2. unbound' = [listen |-> unboundFile.listen, names |-> unboundFile.names]
      BY <1>4, <2>1, <2>3, <3>1
    <3> QED  BY <1>1, <3>2 DEF NetTexts
  <2> QED  BY <2>2, <2>3
<1>14. ~ overlapped => WrittenSoFar(r)'
  BY <1>1, <1>7, <1>13 DEF WrittenSoFar, AfterRender
<1> QED  BY <1>1, <1>7, <1>8, <1>9, <1>10, <1>11, <1>12, <1>14, OthersStay DEF NetInv

LEMMA MarkKeeps ==
    ASSUME NetInv, NEW r \in Reloads, Mark(r)
    PROVE  NetInv'
<1>1. /\ reload[r].at = "mark" /\ reload[r] \in LateReload /\ RowIsRendered(r)
      /\ ~ overlapped => WrittenSoFar(r)
      /\ reload' = [reload EXCEPT ![r].at = "guard"]
      /\ UNCHANGED <<saved, draft, armed, present, lost, keaFile, unboundFile, unbound, guard, status, deps,
                     overlapped, forgotten>>
  BY StageOf DEF Mark, NetInv, ReloadIsRight, AfterRender
<1>2. /\ marker' \in Addresses \cup {Nowhere}
      /\ strayed' = (strayed \/ marker' # unbound.listen)
  BY <1>1 DEF Mark, Marked, NetInv, NetShape, LateReload, NetTexts
<1>3. strayed' \in BOOLEAN /\ (~ strayed' => ~ strayed /\ marker' = unbound.listen)
  BY <1>2 DEF NetInv, NetShape
<1>4. /\ reload' \in [Reloads -> ReloadSet] /\ Only(r)
      /\ reload'[r].at = "guard" /\ reload'[r].row = reload[r].row /\ reload'[r].result = reload[r].result
  BY <1>1, ReloadMoves DEF NetInv, AfterRender
<1>5. NetShape'
  BY <1>1, <1>2, <1>3, <1>4 DEF NetInv, NetShape
<1>6. TextsAreSeen'
  BY <1>1, <1>4 DEF NetInv, TextsAreSeen, Seen, Only, AfterRender
<1>7. MarkerFollows'
  BY <1>1, <1>3 DEF MarkerFollows
<1>8. Reloading(r) /\ Reloading(r)' /\ RowIsRendered(r)'
  BY <1>1, <1>4 DEF Reloading, RowIsRendered, AfterRender
<1>9. ASSUME ~ overlapped
      PROVE  WrittenSoFar(r)'
  <2>1. unboundFile = reload[r].file /\ (~ strayed => unbound = unboundFile)
    BY <1>1, <1>9 DEF WrittenSoFar
  <2>2. reload[r].result = "ok" => unboundFile = TextOf(reload[r].row) /\ reload[r].row.range = "good"
    <3>1. reload[r].file \in NetTexts /\ reload[r].row \in Configs
      BY <1>1 DEF LateReload
    <3> QED  BY <1>1, <2>1, <3>1 DEF RowIsRendered, AfterRender, TextOf, NetTexts, Configs
  <2> QED  BY <1>1, <1>3, <1>4, <2>1, <2>2 DEF WrittenSoFar, AfterRender
<1> QED  BY <1>1, <1>4, <1>5, <1>6, <1>7, <1>8, <1>9, OthersStay DEF NetInv

LEMMA GuardKeeps ==
    ASSUME NetInv, NEW r \in Reloads, ReconcileGuard(r)
    PROVE  NetInv'
<1>1. /\ reload[r].at = "guard" /\ reload[r].result \in NetResults
      /\ ~ overlapped => WrittenSoFar(r)
      /\ UNCHANGED <<saved, draft, armed, present, lost, keaFile, unboundFile, marker, unbound, status,
                     overlapped, strayed, forgotten>>
  BY StageOf DEF ReconcileGuard, NetInv, ReloadIsRight, EarlyReload, LateReload
<1>2. deps' \in BOOLEAN /\ (deps' => reload[r].result = "failed")
  BY DEF ReconcileGuard, NetInv, NetShape
<1>3. PICK result \in NetResults :
        /\ \/ reload' = [reload EXCEPT ![r].at = "record"] /\ result = reload[r].result /\ guard' = Guarded(saved)
           \/ /\ reload' = [reload EXCEPT ![r].at = "record", ![r].result = result]
              /\ result = "failed" /\ guard' = guard
  BY <1>1 DEF ReconcileGuard, ResultAfterGuard, NetResults
<1>4. /\ reload' \in [Reloads -> ReloadSet] /\ Only(r)
      /\ reload'[r].at = "record" /\ reload'[r].row = reload[r].row /\ reload'[r].result = result
  BY <1>1, <1>3, GuardMoves DEF NetInv
<1>5. guard' \in BOOLEAN
  BY <1>3 DEF NetInv, NetShape, Guarded, Configs
<1>6. result = "ok" => guard' = Guarded(saved) /\ reload[r].result = "ok"
  BY <1>3
<1>7. NetShape'
  BY <1>1, <1>2, <1>4, <1>5 DEF NetInv, NetShape
<1>8. TextsAreSeen'
  BY <1>1, <1>4 DEF NetInv, TextsAreSeen, Seen, Only, AfterRender
<1>9. MarkerFollows'
  BY <1>1, <1>4 DEF NetInv, MarkerFollows, Only
<1>10. Reloading(r) /\ Reloading(r)' /\ RowIsRendered(r)'
  BY <1>1, <1>4 DEF Reloading, RowIsRendered, AfterRender
<1>11. ~ overlapped => WrittenSoFar(r)'
  BY <1>1, <1>2, <1>4, <1>6 DEF WrittenSoFar, AfterRender, Guarded
<1> QED  BY <1>1, <1>4, <1>7, <1>8, <1>9, <1>10, <1>11, OthersStay DEF NetInv

LEMMA RecordKeeps ==
    ASSUME NetInv, NEW r \in Reloads, Record(r)
    PROVE  NetInv'
<1>1. /\ reload[r].at = "record" /\ reload[r].result \in NetResults
      /\ ~ overlapped => WrittenSoFar(r)
      /\ status' = reload[r].result /\ reload' = [reload EXCEPT ![r] = NotReloading]
      /\ UNCHANGED <<saved, draft, armed, present, lost, keaFile, unboundFile, marker, unbound, guard, deps,
                     overlapped, strayed, forgotten>>
  BY StageOf DEF Record, NetInv, ReloadIsRight, EarlyReload, LateReload
<1>2. NotReloading \in ReloadSet /\ NotReloading.at = "idle"
  BY DEF ReloadSet, NotReloading
<1>3. reload' \in [Reloads -> ReloadSet] /\ reload'[r] = NotReloading /\ Only(r)
  BY <1>1, <1>2, ReloadTo DEF NetInv
<1>4. NetShape'
  BY <1>1, <1>3 DEF NetInv, NetShape
<1>5. TextsAreSeen'
  BY <1>1, <1>2, <1>3 DEF NetInv, TextsAreSeen, Seen, Only, AfterRender
<1>6. \A o \in Reloads : Reloading(o)' => Reloading(o) /\ reload'[o] = reload[o]
  BY <1>2, <1>3 DEF Only, Reloading
<1>7. OneReload' /\ RowIsSaved'
  BY <1>1, <1>6 DEF NetInv, OneReload, RowIsSaved
<1>8. MarkerFollows'
  BY <1>1, <1>3 DEF NetInv, MarkerFollows, Only
<1>9. ReloadIsRight'
  <2>1. \A o \in Reloads : RowIsRendered(o)'
    BY <1>2, <1>3 DEF NetInv, ReloadIsRight, RowIsRendered, Only, AfterRender
  <2>2. ASSUME ~ overlapped, NEW o \in Reloads PROVE WrittenSoFar(o)'
    <3>1. reload'[o].at = "idle"
      BY <1>1, <1>2, <1>3, <2>2 DEF NetInv, OneReload, Reloading, Only
    <3> QED  BY <3>1 DEF WrittenSoFar, AfterRender
  <2> QED  BY <1>1, <2>1, <2>2 DEF ReloadIsRight
<1>10. LastWasRight'
  <2> SUFFICES ASSUME ~ overlapped, ~ forgotten, ~ armed, reload[r].result = "ok"
               PROVE  /\ unboundFile = TextOf(saved) /\ saved.range = "good" /\ guard = Guarded(saved) /\ ~ deps
                      /\ ~ strayed => unbound = unboundFile
    BY <1>1 DEF LastWasRight, TextOf, Guarded
  <2>1. reload[r].row = saved
    BY <1>1 DEF NetInv, RowIsSaved, Reloading
  <2> QED  BY <1>1, <2>1 DEF WrittenSoFar
<1> QED  BY <1>4, <1>5, <1>7, <1>8, <1>9, <1>10 DEF NetInv

LEMMA AddressKeeps ==
    ASSUME NetInv, AddressGoes
    PROVE  NetInv'
<1>1. PICK a \in present : present' = present \ {a} /\ lost' = lost \cup {a}
  BY DEF AddressGoes
<1>2. UNCHANGED <<saved, draft, armed, keaFile, unboundFile, marker, unbound, guard, reload, status,
                  deps, overlapped, strayed, forgotten>>
  BY DEF AddressGoes
<1>3. present' \subseteq Addresses /\ lost' \subseteq Addresses /\ Seen' = Seen /\ present' \subseteq present
      /\ lost' # {}
  BY <1>1 DEF NetInv, NetShape, Seen
<1>4. NetShape'
  BY <1>2, <1>3 DEF NetInv, NetShape
<1>5. TextsAreSeen'
  BY <1>2, <1>3 DEF NetInv, TextsAreSeen
<1>6. OneReload' /\ RowIsSaved' /\ MarkerFollows'
  BY <1>2 DEF NetInv, OneReload, RowIsSaved, MarkerFollows, Reloading
<1>7. ReloadIsRight'
  BY <1>2 DEF NetInv, ReloadIsRight, RowIsRendered, WrittenSoFar, Guarded
<1>8. LastWasRight'
  BY <1>2, <1>3 DEF NetInv, LastWasRight, Reloading, TextOf, Guarded
<1> QED  BY <1>4, <1>5, <1>6, <1>7, <1>8 DEF NetInv

LEMMA RebootKeeps ==
    ASSUME NetInv, Reboot
    PROVE  NetInv'
<1>1. /\ unbound' = Started /\ strayed' = (unboundFile.listen # marker)
      /\ forgotten' = (forgotten \/ armed \/ \E r \in Reloads : reload[r].at # "idle")
      /\ armed' = FALSE /\ draft' = NoDraft /\ guard' = Guarded(saved)
      /\ reload' = [r \in Reloads |-> NotReloading]
      /\ UNCHANGED <<saved, present, lost, keaFile, unboundFile, marker, status, deps, overlapped>>
  BY DEF Reboot
<1>2. \A r \in Reloads : reload'[r] = NotReloading /\ reload'[r].at = "idle"
  BY <1>1 DEF NotReloading
<1>3. NetShape'
  <2>1. guard' \in BOOLEAN
    BY <1>1 DEF NetInv, NetShape, Guarded, Configs
  <2>2. forgotten' \in BOOLEAN /\ strayed' \in BOOLEAN
    BY <1>1
  <2>3. reload' \in [Reloads -> ReloadSet]
    BY <1>1 DEF ReloadSet
  <2>4. unbound' = NotStarted \/ unbound' \in NetTexts
    BY <1>1, StartedIs
  <2> QED  BY <1>1, <2>1, <2>2, <2>3, <2>4 DEF NetInv, NetShape
<1>4. TextsAreSeen'
  BY <1>1, <1>2, StartedIs DEF NetInv, TextsAreSeen, Seen, AfterRender
<1>5. OneReload' /\ RowIsSaved'
  BY <1>2 DEF OneReload, RowIsSaved, Reloading
<1>6. MarkerFollows'
  BY <1>1, StartedIs DEF MarkerFollows
<1>7. ReloadIsRight'
  BY <1>2 DEF ReloadIsRight, RowIsRendered, WrittenSoFar, AfterRender
<1>8. LastWasRight'
  <2> SUFFICES ASSUME ~ overlapped, ~ forgotten, ~ armed, \A r \in Reloads : ~ Reloading(r), status = "ok"
               PROVE  /\ unboundFile = TextOf(saved) /\ saved.range = "good" /\ ~ deps
                      /\ Started = unboundFile \/ saved.addr \notin present
    BY <1>1 DEF LastWasRight, Reloading, Guarded, TextOf
  <2>1. unboundFile = TextOf(saved) /\ saved.range = "good" /\ ~ deps
    BY DEF NetInv, LastWasRight
  <2>2. unboundFile.listen = saved.addr
    BY <2>1 DEF TextOf
  <2> QED  BY <2>1, <2>2, StartedIs
<1> QED  BY <1>3, <1>4, <1>5, <1>6, <1>7, <1>8 DEF NetInv

LEMMA NetInvStep ==
    ASSUME NetInv, [NetNext]_netVars
    PROVE  NetInv'
<1>1. CASE UNCHANGED netVars
  BY <1>1 DEF netVars, NetInv, NetShape, TextsAreSeen, Seen, OneReload, RowIsSaved, MarkerFollows,
              ReloadIsRight, RowIsRendered, WrittenSoFar, LastWasRight, Reloading, Guarded
<1>2. ASSUME NEW r \in Reloads, TimerReload(r) \/ AskedReload(r) PROVE NetInv'
  <2>1. Begins(r) /\ armed' \in BOOLEAN
    BY <1>2 DEF TimerReload, AskedReload, NetInv, NetShape
  <2> QED  BY <2>1, BeginKeeps
<1>3. ASSUME NEW r \in Reloads, ReloadStep(r) PROVE NetInv'
  BY <1>3, EnsureKeeps, RenderKeeps, WriteKeaKeeps, WriteUnboundKeeps, ReloadKeaKeeps, ReloadUnboundKeeps,
     MarkKeeps, GuardKeeps, RecordKeeps DEF ReloadStep
<1> QED
  BY <1>1, <1>2, <1>3, EditsKeep, AddressKeeps, RebootKeeps DEF NetNext

LEMMA NetInvHolds == NetInv => OkMeansServed /\ NoBlackout
<1> SUFFICES ASSUME NetInv PROVE OkMeansServed /\ NoBlackout
  OBVIOUS
<1>1. NoBlackout
  BY DEF NetInv, NetShape, TextsAreSeen, NoBlackout, NetTexts
<1>2. OkMeansServed
  BY DEF NetInv, NetShape, LastWasRight, OkMeansServed, Quiet, Reloading, TextOf
<1> QED  BY <1>1, <1>2

-----------------------------------------------------------------------------
(* Alerts of the checks *)

Health == [known : BOOLEAN, up : BOOLEAN, failCount : Nat]

\* What the checking goroutine is in: nothing, or a call about a thing.
WatcherCalls == {Idle} \cup [at : {"raise", "insert"}, thing : Things, key : AlertKeys]
                \cup [at : {"close", "announce"}, thing : Things]

HealthShape ==
    /\ watched \subseteq Things
    /\ \A t \in Things : truth[t] \in Verdicts(t)
    /\ health \in [Things -> Health]
    /\ watcher \in WatcherCalls

\* The call about an outage is about a key of its thing.
CallsAreTheirs ==
    watcher.at \in {"raise", "insert"} => watcher.key \in KeysOf(watcher.thing)

\* An outage that is known was raised, or its call is the one under way.
OutagesAreTold ==
    \A t \in Things :
      ~health[t].up /\ ~(watcher.at = "raise" /\ watcher.thing = t) => told \cap KeysOf(t) # {}

\* A recovery that is about to be announced is that of an outage raised before.
ClosesAreOfOutages ==
    watcher.at \in {"close", "announce"} =>
      health[watcher.thing].up /\ told \cap KeysOf(watcher.thing) # {}

HealthInv == HealthShape /\ CallsAreTheirs /\ OutagesAreTold /\ ClosesAreOfOutages

\* Two things never share a key.
LEMMA KeysAreTheirs ==
    ASSUME NEW t \in Things, NEW u \in Things, t # u
    PROVE  KeysOf(t) \cap KeysOf(u) = {}
  BY HealthAssumption DEF Things, KeysOf

\* A call that is not over is about one of the things.
LEMMA CallsHaveThings ==
    ASSUME NEW w \in WatcherCalls
    PROVE  /\ w.at = "idle" => w = Idle
           /\ w.at # "idle" => w.thing \in Things
           /\ w.at \in {"idle", "raise", "insert", "close", "announce"}
           /\ Idle \in WatcherCalls /\ Idle.at = "idle"
  BY DEF WatcherCalls, Idle

\* The next step of a call is about the same thing, and the same key.
LEMMA CallsMoveOn ==
    /\ \A w \in WatcherCalls : w.at = "raise" =>
         LET v == [w EXCEPT !.at = "insert"]
         IN v \in WatcherCalls /\ v.at = "insert" /\ v.thing = w.thing /\ v.key = w.key
    /\ \A w \in WatcherCalls : w.at = "close" =>
         LET v == [w EXCEPT !.at = "announce"]
         IN v \in WatcherCalls /\ v.at = "announce" /\ v.thing = w.thing
<1>1. ASSUME NEW w \in WatcherCalls, w.at = "raise"
      PROVE  LET v == [w EXCEPT !.at = "insert"]
             IN v \in WatcherCalls /\ v.at = "insert" /\ v.thing = w.thing /\ v.key = w.key
  <2>1. w \in [at : {"raise", "insert"}, thing : Things, key : AlertKeys]
    BY <1>1 DEF WatcherCalls, Idle
  <2> QED  BY <2>1 DEF WatcherCalls
<1>2. ASSUME NEW w \in WatcherCalls, w.at = "close"
      PROVE  LET v == [w EXCEPT !.at = "announce"]
             IN v \in WatcherCalls /\ v.at = "announce" /\ v.thing = w.thing
  <2>1. w \in [at : {"close", "announce"}, thing : Things]
    BY <1>2 DEF WatcherCalls, Idle
  <2> QED  BY <2>1 DEF WatcherCalls
<1> QED  BY <1>1, <1>2

LEMMA HealthStarts == HealthInit => HealthInv
<1> SUFFICES ASSUME HealthInit PROVE HealthInv
  OBVIOUS
<1>1. watcher.at = "idle" /\ \A t \in Things : health[t] = Unseen /\ health[t].up
  BY DEF HealthInit, Idle, Unseen
<1>2. HealthShape
  BY <1>1 DEF HealthInit, HealthShape, Things, Verdicts, Health, Unseen, WatcherCalls
<1> QED  BY <1>1, <1>2 DEF HealthInv, CallsAreTheirs, OutagesAreTold, ClosesAreOfOutages

\* A step that leaves readings, call and outages alone.
LEMMA AsideKeeps ==
    ASSUME HealthInv, HealthShape', UNCHANGED <<health, watcher, told>>
    PROVE  HealthInv'
  BY DEF HealthInv, CallsAreTheirs, OutagesAreTold, ClosesAreOfOutages, KeysOf

LEMMA ProbeKeeps ==
    ASSUME HealthInv, NEW t \in Things, Probe(t)
    PROVE  HealthInv'
<1> DEFINE h == health[t]
           g == Folded(t, truth[t] = "good")
           c == CallFor(t, h, g)
<1>1. h \in Health /\ truth[t] \in Verdicts(t) /\ truth[t] # "none" /\ watcher = Idle
  BY DEF HealthInv, HealthShape, Probe
<1>2. g \in Health /\ (g.up /\ g.known => TRUE) /\ (truth[t] = "good" => g.up)
  BY <1>1 DEF Health, Folded, DownConfirm
<1>3. ~g.up => KeyOf(t) \in KeysOf(t)
  BY <1>1, <1>2 DEF KeyOf, KeysOf, Verdicts
<1> HIDE DEF g
<1>4. health' = [health EXCEPT ![t] = g] /\ health'[t] = g /\ health \in [Things -> Health]
  BY DEF HealthInv, HealthShape, Probe, g
<1>5. watcher' = c
  BY <1>4 DEF Probe
<1>6. \/ h.up /\ ~g.up /\ c = [at |-> "raise", thing |-> t, key |-> KeyOf(t)]
      \/ ~h.up /\ g.up /\ c = [at |-> "close", thing |-> t]
      \/ (~g.up => ~h.up) /\ c = Idle
  BY <1>1, <1>2 DEF CallFor, Health
<1> HIDE DEF c
<1>7. UNCHANGED <<watched, truth, told>>
  BY DEF Probe
<1>8. HealthShape'
  <2>1. ~g.up => KeyOf(t) \in AlertKeys
    BY <1>3 DEF KeysOf, AlertKeys, Things
  <2>2. c \in WatcherCalls
    BY <1>6, <2>1 DEF WatcherCalls
  <2> QED  BY <1>2, <1>4, <1>5, <1>7, <2>2 DEF HealthInv, HealthShape, Verdicts, KeysOf
<1>9. CallsAreTheirs'
  BY <1>3, <1>5, <1>6 DEF CallsAreTheirs, Idle, KeysOf
<1>10. \A u \in Things : ~health[u].up => told \cap KeysOf(u) # {}
  BY <1>1 DEF HealthInv, OutagesAreTold, Idle
<1>11. OutagesAreTold'
  BY <1>4, <1>5, <1>6, <1>7, <1>10 DEF OutagesAreTold, KeysOf
<1>12. ClosesAreOfOutages'
  BY <1>4, <1>5, <1>6, <1>7, <1>10 DEF ClosesAreOfOutages, KeysOf, Idle
<1> QED  BY <1>8, <1>9, <1>11, <1>12 DEF HealthInv

LEMMA ForgetKeeps ==
    ASSUME HealthInv, NEW t \in Things, Forget(t)
    PROVE  HealthInv'
<1>1. /\ watcher = Idle /\ health' = [health EXCEPT ![t] = Unseen]
      /\ UNCHANGED <<watched, truth, watcher, told>> /\ health \in [Things -> Health]
  BY DEF HealthInv, HealthShape, Forget
<1>2. Unseen \in Health /\ Unseen.up
  BY DEF Unseen, Health
<1>3. HealthShape'
  BY <1>1, <1>2 DEF HealthInv, HealthShape, Verdicts, KeysOf
<1> QED  BY <1>1, <1>2, <1>3 DEF HealthInv, CallsAreTheirs, OutagesAreTold, ClosesAreOfOutages, KeysOf, Idle

LEMMA CreateReadsKeeps ==
    ASSUME HealthInv, CreateReads
    PROVE  HealthInv'
<1>1. /\ watcher.at = "raise" /\ watcher.thing \in Things /\ watcher.key \in KeysOf(watcher.thing)
      /\ told' = told \cup {watcher.key} /\ UNCHANGED <<watched, truth, health>>
  BY CallsHaveThings DEF CreateReads, HealthInv, HealthShape, CallsAreTheirs
<1>2. \/ watcher' = Idle
      \/ watcher' = [watcher EXCEPT !.at = "insert"]
  BY DEF CreateReads
<1>3. \/ watcher'.at = "idle"
      \/ watcher'.at = "insert" /\ watcher'.thing = watcher.thing /\ watcher'.key = watcher.key
  BY <1>1, <1>2, CallsHaveThings, CallsMoveOn DEF HealthInv, HealthShape
<1>4. HealthShape'
  <2>1. watcher' \in WatcherCalls
    BY <1>1, <1>2, CallsHaveThings, CallsMoveOn DEF HealthInv, HealthShape
  <2> QED  BY <1>1, <2>1 DEF HealthInv, HealthShape, Verdicts, KeysOf
<1>5. OutagesAreTold'
  BY <1>1, <1>3 DEF HealthInv, OutagesAreTold, KeysOf
<1>6. CallsAreTheirs' /\ ClosesAreOfOutages'
  BY <1>1, <1>3 DEF CallsAreTheirs, ClosesAreOfOutages, KeysOf
<1> QED  BY <1>4, <1>5, <1>6 DEF HealthInv

LEMMA AnnounceKeeps ==
    ASSUME HealthInv, AnnounceRecovery
    PROVE  HealthInv'
<1>1. /\ watcher.at = "announce" /\ watcher.thing \in Things /\ health[watcher.thing].up
      /\ watcher'.at = "idle" /\ UNCHANGED <<watched, truth, health>>
      /\ \A t \in Things : ~health[t].up => told \cap KeysOf(t) # {}
  BY CallsHaveThings DEF AnnounceRecovery, HealthInv, HealthShape, ClosesAreOfOutages, OutagesAreTold, Idle
<1>2. told' = told \ KeysOf(watcher.thing) \/ told' = told
  BY DEF AnnounceRecovery
<1>3. ASSUME NEW t \in Things, ~health[t].up PROVE told' \cap KeysOf(t) # {}
  BY <1>1, <1>2, <1>3, KeysAreTheirs
<1>4. HealthShape'
  BY <1>1 DEF AnnounceRecovery, HealthInv, HealthShape, Verdicts, KeysOf, WatcherCalls
<1> QED  BY <1>1, <1>3, <1>4 DEF HealthInv, CallsAreTheirs, OutagesAreTold, ClosesAreOfOutages, KeysOf

\* The call is over, or has moved on to the announcement.
LEMMA CallMoves ==
    ASSUME HealthInv, UNCHANGED <<watched, truth, health, told>>,
           \/ watcher.at \in {"insert", "close"} /\ watcher' = Idle
           \/ watcher.at = "close" /\ watcher' = [watcher EXCEPT !.at = "announce"]
    PROVE  HealthInv'
<1>1. /\ watcher.at \in {"insert", "close"}
      /\ \/ watcher'.at = "idle"
         \/ watcher.at = "close" /\ watcher'.at = "announce" /\ watcher'.thing = watcher.thing
  BY CallsHaveThings, CallsMoveOn DEF HealthInv, HealthShape
<1>2. HealthShape'
  <2>1. watcher' \in WatcherCalls
    BY CallsHaveThings, CallsMoveOn DEF HealthInv, HealthShape
  <2> QED  BY <2>1 DEF HealthInv, HealthShape, Verdicts, KeysOf
<1> QED  BY <1>1, <1>2 DEF HealthInv, CallsAreTheirs, OutagesAreTold, ClosesAreOfOutages, KeysOf

LEMMA RestartOfChecksKeeps ==
    ASSUME HealthInv, HealthRestart
    PROVE  HealthInv'
<1>1. /\ health' = [t \in Things |-> Unseen] /\ watcher'.at = "idle"
      /\ UNCHANGED <<watched, truth>> /\ Unseen \in Health
      /\ \A t \in Things : health'[t].up
  BY DEF HealthRestart, Idle, Unseen, Health
<1>2. HealthShape'
  BY <1>1 DEF HealthRestart, WatcherCalls, HealthInv, HealthShape, Verdicts, KeysOf
<1> QED  BY <1>1, <1>2 DEF HealthInv, CallsAreTheirs, OutagesAreTold, ClosesAreOfOutages, KeysOf

LEMMA HealthStep ==
    ASSUME HealthInv, [HealthNext]_healthVars
    PROVE  HealthInv'
<1>1. watched \subseteq Things
  BY DEF HealthInv, HealthShape
<1>2. CASE UNCHANGED healthVars
  <2>1. UNCHANGED <<health, watcher, told>> /\ HealthShape'
    BY <1>2 DEF healthVars, HealthInv, HealthShape, Verdicts, KeysOf
  <2> QED  BY <2>1, AsideKeeps
<1>3. CASE TruthChanges
  <2>1. PICK t \in watched : \E v \in Verdicts(t) : truth' = [truth EXCEPT ![t] = v]
    BY <1>3 DEF TruthChanges
  <2>2. UNCHANGED <<watched, health, watcher, told>>
    BY <1>3 DEF TruthChanges
  <2>3. \A u \in Things : truth'[u] \in Verdicts(u)
    BY <2>1, <1>1 DEF HealthInv, HealthShape
  <2>4. HealthShape'
    BY <2>2, <2>3 DEF HealthInv, HealthShape
  <2> QED  BY <2>2, <2>4, AsideKeeps
<1>4. CASE SwitchMonitoring \/ \E t \in watched : Dismiss(t)
  <2>1. UNCHANGED <<health, watcher, told>> /\ HealthShape'
    BY <1>4 DEF SwitchMonitoring, Dismiss, HealthInv, HealthShape, Verdicts, KeysOf
  <2> QED  BY <2>1, AsideKeeps
<1>5. CASE HealthRestart
  BY <1>5, RestartOfChecksKeeps
<1>6. ASSUME NEW t \in watched, WatcherStep(t) PROVE HealthInv'
  <2>1. CASE Probe(t) \/ Forget(t)
    BY <1>1, <2>1, ProbeKeeps, ForgetKeeps
  <2>2. CASE CreateReads \/ AnnounceRecovery
    BY <2>2, CreateReadsKeeps, AnnounceKeeps
  <2>3. CASE CreateInserts
    BY <2>3, CallMoves DEF CreateInserts
  <2>4. CASE AutoResolve
    BY <2>4, CallMoves DEF AutoResolve
  <2> QED  BY <1>6, <2>1, <2>2, <2>3, <2>4 DEF WatcherStep
<1> QED  BY <1>2, <1>3, <1>4, <1>5, <1>6 DEF HealthNext

LEMMA RecoveriesHaveOutages ==
    HealthInv => (AnnounceRecovery => told \cap KeysOf(watcher.thing) # {})
  BY DEF AnnounceRecovery, HealthInv, ClosesAreOfOutages

-----------------------------------------------------------------------------
(* From a service to the machine that follows it *)

\* A step of the machine is a step of the service it follows, and of no other.
LEMMA FollowsService ==
    ASSUME [Next]_vars
    PROVE  /\ focus' = focus
           /\ focus = "hostQuota" => [QuotaNext]_quotaVars
           /\ focus = "linkQuota" => [LinkNext]_linkVars
           /\ focus = "names" => [NameNext]_nameVars
           /\ focus = "trial" => [InterfaceNext]_trialVars
           /\ focus = "chains" => [ChainNext]_chainVars
           /\ focus = "net" => [NetNext]_netVars
           /\ focus = "health" => [HealthNext]_healthVars
           /\ focus = "queue" => [QueueNext]_queueVars
           /\ focus = "domains" => [DomainNext]_domainVars
           /\ focus = "series" => [MetricNext]_metricVars
           /\ focus # "trial" => UNCHANGED trialVars
           /\ focus # "health" => UNCHANGED healthVars
<1>1. CASE UNCHANGED vars
  BY <1>1 DEF vars
<1>2. CASE Next
  BY <1>2 DEF Next, Others
<1> QED  BY <1>1, <1>2

\* Whatever is saved, evaluated, failed and restarted, and wherever between two
\* steps of a flush: each unit of traffic of a host or of a link is in one place
\* only, a host's unit is counted in the cycle it was measured in, and between
\* flushes the open alerts are about the cycle evaluated last.
THEOREM TrafficIsAccounted == SafetySpec => []UsageIsAccounted
<1>1. Init => Of("hostQuota", QuotaInv) /\ Of("linkQuota", LinkInv)
  BY QuotaInvStarts, LinkInvStarts DEF Init, Of
<1>2. ASSUME Of("hostQuota", QuotaInv), [Next]_vars
      PROVE  Of("hostQuota", QuotaInv)'
  BY <1>2, FollowsService, QuotaInvStep DEF Of
<1>3. ASSUME Of("linkQuota", LinkInv), [Next]_vars
      PROVE  Of("linkQuota", LinkInv)'
  BY <1>3, FollowsService, LinkInvStep DEF Of
<1>4. Of("hostQuota", QuotaInv) /\ Of("linkQuota", LinkInv) => UsageIsAccounted
  BY QuotaInvHolds, LinkInvHolds DEF UsageIsAccounted, Of
<1> QED  BY <1>1, <1>2, <1>3, <1>4, PTL DEF SafetySpec

\* Whatever is saved, refused, lost and restarted between two steps of a check,
\* and wherever the link's address goes: what is shown as updated is what the
\* provider answers, unless two checks overlapped, a row was saved under one, or
\* a result or its removal was not written.
THEOREM NamesAreTrue == SafetySpec => []NameIsTrue
<1>1. Init => Of("names", NameInv)
  BY NameStarts DEF Init, Of
<1>2. ASSUME Of("names", NameInv), [Next]_vars
      PROVE  Of("names", NameInv)'
  BY <1>2, FollowsService, NameInvStep DEF Of
<1>3. Of("names", NameInv) => NameIsTrue
  BY NameInvHolds DEF NameIsTrue, Of
<1> QED  BY <1>1, <1>2, <1>3, PTL DEF SafetySpec

\* Whatever fails, is repeated or restarted between two steps of a change of
\* address, of its confirmation, its rollback or the sweep: with nothing pending
\* the interface is what the operator had or confirmed last, and a pending row
\* goes away only when the change was confirmed or what was there before is
\* loaded again, unless a change or a confirmation was cut or two calls crossed.
THEOREM TrialsAreTracked == SafetySpec => TrialIsTracked
<1>1. Init => Of("trial", TrialInv)
  BY TrialStarts DEF Init, Of
<1>2. ASSUME Of("trial", TrialInv), [Next]_vars
      PROVE  Of("trial", TrialInv)'
  BY <1>2, FollowsService, TrialInvStep DEF Of
<1>3. ASSUME Of("trial", TrialInv), Of("trial", TrialInv)', [Next]_vars
      PROVE  [(Of("trial", UndoneUnlessConfirmed))' /\ TrackIsKept]_trialVars
  <2>1. CASE focus = "trial"
    <3>1. focus' = focus /\ [InterfaceNext]_trialVars /\ TrialInv
      BY <1>3, <2>1, FollowsService DEF Of
    <3>2. TrackIsKept \/ UNCHANGED trialVars
      BY <3>1, RowsAreTracked
    <3>3. Of("trial", UndoneUnlessConfirmed)'
      BY <1>3, TrialInvHolds, PTL DEF Of
    <3> QED  BY <3>2, <3>3
  <2>2. CASE focus # "trial"
    BY <1>3, <2>2, FollowsService
  <2> QED  BY <2>1, <2>2
<1> QED  BY <1>1, <1>2, <1>3, PTL DEF SafetySpec, TrialIsTracked

\* Whatever goes down and up, is dismissed, refused by the database or restarted
\* between two steps of an alert: each recovery that is announced has an outage
\* of its own, raised since the recovery announced before it.
THEOREM RecoveriesAreEarned == SafetySpec => RecoveryFollowsOutage
<1>1. Init => Of("health", HealthInv)
  BY HealthStarts DEF Init, Of
<1>2. ASSUME Of("health", HealthInv), [Next]_vars
      PROVE  Of("health", HealthInv)'
  BY <1>2, FollowsService, HealthStep DEF Of
<1>3. ASSUME Of("health", HealthInv), [Next]_vars
      PROVE  [AnnounceRecovery => told \cap KeysOf(watcher.thing) # {}]_healthVars
  BY <1>3, FollowsService, RecoveriesHaveOutages DEF Of
<1> QED  BY <1>1, <1>2, <1>3, PTL DEF SafetySpec, RecoveryFollowsOutage

\* Whatever edits cross the passes, and at no command of one: between passes the
\* kernel and the boot file hold what the rows ask for, unless a command failed,
\* a process died or an NTP reload was overtaken; and whatever is refused, killed
\* or booted, no table drops what it forwards without the survival rules.
THEOREM ChainsStayWhole == SafetySpec => []ChainsAreWhole
<1>1. Init => Of("chains", ChainInv)
  BY ChainStarts DEF Init, Of
<1>2. ASSUME Of("chains", ChainInv), [Next]_vars
      PROVE  Of("chains", ChainInv)'
  BY <1>2, FollowsService, ChainInvStep DEF Of
<1>3. Of("chains", ChainInv) => ChainsAreWhole
  BY ChainInvHolds DEF ChainsAreWhole, Of
<1> QED  BY <1>1, <1>2, <1>3, PTL DEF SafetySpec

\* Whatever fails, overlaps or reboots between two steps of a reload: no file
\* its daemon refuses is ever on disk, the resolver runs while its address is
\* there, and a reload recorded as applied left the files, the sockets, the
\* names and the redirect rules of the row, unless reloads overlapped, a restart
\* lost one or the marker is not what unbound started on.
THEOREM DaemonsKeepServing == SafetySpec => []DaemonsServe
<1>1. Init => Of("net", NetInv)
  BY NetStarts DEF Init, Of
<1>2. ASSUME Of("net", NetInv), [Next]_vars
      PROVE  Of("net", NetInv)'
  BY <1>2, FollowsService, NetInvStep DEF Of
<1>3. Of("net", NetInv) => DaemonsServe
  BY NetInvHolds DEF DaemonsServe, Of
<1> QED  BY <1>1, <1>2, <1>3, PTL DEF SafetySpec

\* Whatever is edited, tested, refused, cut or overtaken between two commands of
\* an operation on a queue: with nobody at work the queue is what its row asks
\* for or a lease or the boot pass will put it right, a fault has its lease at
\* every instant, and the root of another program stays.
THEOREM QueuesAreExplained == SafetySpec => []QueueIsAccounted
<1>1. Init => Of("queue", QueueInv)
  BY QueueStarts DEF Init, Of
<1>2. ASSUME Of("queue", QueueInv), [Next]_vars
      PROVE  Of("queue", QueueInv)'
  BY <1>2, FollowsService, QueueSteps DEF Of
<1>3. Of("queue", QueueInv) => QueueIsAccounted
  BY QueueInvHolds DEF QueueIsAccounted, Of
<1> QED  BY <1>1, <1>2, <1>3, PTL DEF SafetySpec

\* Whatever DNS teaches and the list becomes, and whatever nft refuses, half a
\* batch takes, is lost, expires or restarts in between: about an address with
\* nothing on its way, and that is not counted astray, the kernel holds what the
\* index says, and an address the index waits for is carried by somebody.
THEOREM DomainsStayCarried == SafetySpec => []DomainsAreCarried
<1>1. Init => Of("domains", DomainKept)
  BY DomainStarts, BudgetStarts DEF Init, Of, DomainKept
<1>2. ASSUME Of("domains", DomainKept), [Next]_vars
      PROVE  Of("domains", DomainKept)'
  BY <1>2, FollowsService, DomainInvStep, BudgetStep DEF Of, DomainKept
<1>3. Of("domains", DomainKept) => DomainsAreCarried
  BY DomainInvSays DEF DomainsAreCarried, Of, DomainKept
<1> QED  BY <1>1, <1>2, <1>3, PTL DEF SafetySpec

\* Whatever the writer was doing when a window passed, a reading came, a row was
\* refused or the process ended: each reading is in the row of its window once at
\* every step, or in memory still, unless its bucket was closed before its time
\* or lost; and the interval open is that of the state observed last, unless one
\* of its writes failed or was cut.
THEOREM SeriesStayWhole == SafetySpec => []SeriesAreWhole
<1>1. Init => Of("series", SeriesInv /\ IntervalInv)
  BY SeriesStarts, IntervalStarts DEF Init, Of
<1>2. ASSUME Of("series", SeriesInv /\ IntervalInv), [Next]_vars
      PROVE  Of("series", SeriesInv /\ IntervalInv)'
  BY <1>2, FollowsService, SeriesFollow DEF Of
<1>3. Of("series", SeriesInv /\ IntervalInv) => SeriesAreWhole
  BY SeriesAreCounted DEF SeriesAreWhole, Of, IntervalInv
<1> QED  BY <1>1, <1>2, <1>3, PTL DEF SafetySpec

=============================================================================
