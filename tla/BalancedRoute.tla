---------------------------- MODULE BalancedRoute ----------------------------
(***************************************************************************)
(* The balanced default route (src/internal/balancer): the plan computed   *)
(* from the WAN links, the Rebuild that the ticker and the link monitor    *)
(* call, and the operator's Apply with its automatic rollback.             *)
(*                                                                         *)
(* A route is the set of its next hops with their weights and a tag, "by", *)
(* that says who installed it; the code keeps no such tag, the properties  *)
(* use it.  The wording of alerts, latency averages and the advisory layer *)
(* are left out; a link's quality is one number, smaller is better.        *)
(***************************************************************************)
EXTENDS Integers, FiniteSets

CONSTANTS
    Links,          \* WAN links, numbered in the order the database lists them
    InitLinks,      \* the rows the links may have at the start
    Edits,          \* the (gateway, weight) pairs the panel may save
    Applies,        \* the Apply calls of a behaviour
    OneAtATime,     \* an operator waits for one window before opening another
    MaxChanges,     \* bound on changes of status, interface, row and mode
    MaxFaults,      \* bound on commands that fail
    MaxRestarts     \* bound on restarts of the process

ASSUME BalancedRouteAssumption ==
    /\ Links \subseteq Nat \ {0} /\ IsFiniteSet(Links)
    /\ OneAtATime \in BOOLEAN
    /\ Applies \cap {"none", "nobody", "boot", "rebuild"} = {}
    /\ {MaxChanges, MaxFaults, MaxRestarts} \subseteq Nat
    /\ InitLinks \subseteq [Links -> [status : {"online", "degraded", "offline"},
                                      quality : Nat, gateway : Nat, weight : Nat]]
    /\ Edits \subseteq Nat \X Nat

VARIABLES
    row,        \* links table: what the monitor and the panel wrote
    nic,        \* the interface of a link is up
    mode,       \* setting routing_balance: "balance" or "failover"
    route,      \* the default route in the kernel
    lastSig,    \* Service.lastSig
    pending,    \* Service.pending: the Apply whose rollback is armed
    rollback,   \* the timer of each Apply and the route it restores
    call,       \* the operator's Apply and Rollback calls
    builder,    \* the two goroutines that call Rebuild
    noWan,      \* a BalancerNoWAN alert is open
    lastHand,   \* history: who last decided the route, "rebuild" or "operator"
    settled,    \* history: Applies the operator kept, or that cannot be undone
    spent       \* the bounds used up so far

routeVars == <<row, nic, mode, route, lastSig, pending, rollback, call, builder,
               noWan, lastHand, settled, spent>>

Statuses == {"online", "degraded", "offline"}
Builders == {"ticker", "monitor"}
NoApply == "none"
NoRoute == [hops |-> <<>>, by |-> "nobody"]
NoLink == 0
IspHops == [l \in {NoLink} |-> [gateway |-> 0, weight |-> 1]]
IspRoute == [hops |-> IspHops, by |-> "boot"]   \* the default found at boot
NoSig == {}                                     \* lastSig == ""
EmptySig == {<<NoLink, 0, 0>>}                  \* lastSig == emptySig

-----------------------------------------------------------------------------
\* The plan: which links become next hops and with which weight.

MaxKernelWeight == 256

Clamped(w) == IF w < 1 THEN 1 ELSE IF w > MaxKernelWeight THEN MaxKernelWeight ELSE w

\* Mutant: the division by the largest weight is left out.
NormalizedWeightRaw(raw, maxRaw) == raw * MaxKernelWeight

NormalizedWeight(raw, maxRaw) ==
    IF maxRaw <= 0 THEN 1
    ELSE Clamped((raw * MaxKernelWeight + maxRaw \div 2) \div maxRaw)

WithStatus(rows, S, st) == {l \in S : rows[l].status = st}

Healthiest(rows, S) ==
    CHOOSE l \in S : \A m \in S :
        \/ rows[l].quality < rows[m].quality
        \/ rows[l].quality = rows[m].quality /\ l <= m

Primaries(rows, S) ==
    LET healthy == WithStatus(rows, S, "online")
        degraded == WithStatus(rows, S, "degraded")
    IN  CASE healthy # {} -> healthy
          [] healthy = {} /\ degraded # {} -> {Healthiest(rows, degraded)}
          [] OTHER -> S

\* Every link whose interface is up is a next hop; only primaries carry weight.
SelectNexthops(rows, S) ==
    LET P == Primaries(rows, S)
        maxRaw == CHOOSE w \in {rows[l].weight : l \in P} :
                      \A l \in P : rows[l].weight <= w
    IN  [l \in S |-> [gateway |-> rows[l].gateway,
                      weight |-> IF l \in P THEN NormalizedWeight(rows[l].weight, maxRaw) ELSE 1]]

\* "ip link show" fails: no interface is filtered out.
UpSets == {{l \in Links : nic[l]}} \cup (IF spent.faults < MaxFaults THEN {Links} ELSE {})

RouteSignature(hops) == {<<l, hops[l].gateway, hops[l].weight>> : l \in DOMAIN hops}

HasPath == \E l \in Links : nic[l]
Desired == SelectNexthops(row, {l \in Links : nic[l]})

\* "ip route replace" refuses a next hop whose device is down.
CanInstall(hops) == \A l \in DOMAIN hops : nic[l]

-----------------------------------------------------------------------------
IdleCall == [at |-> "idle", arm |-> FALSE, hops |-> <<>>, restore |-> NoRoute]
IdleBuilder == [at |-> "idle", hops |-> <<>>]
NoTimer == [state |-> "off", restore |-> NoRoute]

RouteInit ==
    /\ row \in InitLinks
    /\ nic \in [Links -> BOOLEAN]
    /\ mode = "balance"
    /\ route = IspRoute
    /\ lastSig = NoSig
    /\ pending = NoApply
    /\ rollback = [a \in Applies |-> NoTimer]
    /\ call = [a \in Applies |-> IdleCall]
    /\ builder = [b \in Builders |-> IdleBuilder]
    /\ noWan = FALSE
    /\ lastHand = "operator"
    /\ settled = {}
    /\ spent = [changes |-> 0, faults |-> 0, restarts |-> 0, applies |-> {}]

Fault == spent.faults < MaxFaults /\ spent' = [spent EXCEPT !.faults = @ + 1]
Change == spent.changes < MaxChanges /\ spent' = [spent EXCEPT !.changes = @ + 1]

LockFree == \A b \in Builders : builder[b].at # "exec"

\* What the monitor measures, the cable and the panel change.
MonitorStores(l) ==
    /\ builder["monitor"].at = "idle"
    /\ \E st \in Statuses \ {row[l].status} : row' = [row EXCEPT ![l].status = st]
    /\ builder' = [builder EXCEPT !["monitor"].at = "look"]
    /\ Change
    /\ UNCHANGED <<nic, mode, route, lastSig, pending, rollback, call, noWan, lastHand, settled>>

InterfaceChanges(l) ==
    /\ nic' = [nic EXCEPT ![l] = ~@]
    /\ Change
    /\ UNCHANGED <<row, mode, route, lastSig, pending, rollback, call, builder, noWan, lastHand, settled>>

PanelEdits(l) ==
    /\ \E e \in Edits : row' = [row EXCEPT ![l].gateway = e[1], ![l].weight = e[2]]
    /\ row' # row
    /\ Change
    /\ UNCHANGED <<nic, mode, route, lastSig, pending, rollback, call, builder, noWan, lastHand, settled>>

-----------------------------------------------------------------------------
\* Rebuild, called by the ticker every 30 s and by the monitor's callback.

TickerFires ==
    /\ builder["ticker"].at = "idle"
    /\ builder' = [builder EXCEPT !["ticker"].at = "look"]
    /\ UNCHANGED <<row, nic, mode, route, lastSig, pending, rollback, call, noWan, lastHand, settled, spent>>

\* A schedule writes the weights before the ticker's Rebuild.
ApplySchedule(l) ==
    /\ builder["ticker"].at = "idle"
    /\ \E e \in Edits : row' = [row EXCEPT ![l].weight = e[2]]
    /\ row' # row
    /\ builder' = [builder EXCEPT !["ticker"].at = "look"]
    /\ Change
    /\ UNCHANGED <<nic, mode, route, lastSig, pending, rollback, call, noWan, lastHand, settled>>

\* The mode and the pending window are looked at before the lock is taken.
MayRebuild == mode = "balance" /\ pending = NoApply

RebuildLooks(b) ==
    /\ builder[b].at = "look"
    /\ builder' = [builder EXCEPT ![b].at = IF MayRebuild THEN "plan" ELSE "idle"]
    /\ UNCHANGED <<row, nic, mode, route, lastSig, pending, rollback, call, noWan, lastHand, settled, spent>>

NoticeNoWan ==
    /\ lastSig' = EmptySig
    /\ noWan' = (noWan \/ lastSig # EmptySig)

\* The alert closes when the plan is no longer empty after an empty one.
NoWanAfterPlan == noWan /\ lastSig # EmptySig

RebuildPlans(b) ==
    /\ builder[b].at = "plan"
    /\ LockFree
    /\ \E S \in UpSets :
         LET hops == SelectNexthops(row, S) IN
         /\ spent' = [spent EXCEPT !.faults = @ + (IF S # {l \in Links : nic[l]} THEN 1 ELSE 0)]
         /\ \/ /\ S = {}
               /\ NoticeNoWan
               /\ builder' = [builder EXCEPT ![b] = IdleBuilder]
            \/ /\ S # {}
               /\ noWan' = NoWanAfterPlan
               /\ builder' = [builder EXCEPT ![b] =
                    IF RouteSignature(hops) = lastSig THEN IdleBuilder
                    ELSE [at |-> "exec", hops |-> hops]]
               /\ UNCHANGED lastSig
    /\ UNCHANGED <<row, nic, mode, route, pending, rollback, call, lastHand, settled>>

\* A refused command leaves lastSig alone, so that the next tick tries again.
RebuildInstalls(b) ==
    /\ builder[b].at = "exec"
    /\ builder' = [builder EXCEPT ![b] = IdleBuilder]
    /\ \/ /\ CanInstall(builder[b].hops)
          /\ route' = [hops |-> builder[b].hops, by |-> "rebuild"]
          /\ lastSig' = RouteSignature(builder[b].hops)
          /\ lastHand' = "rebuild"
          /\ UNCHANGED spent
       \/ /\ ~CanInstall(builder[b].hops)
          /\ UNCHANGED <<route, lastSig, lastHand, spent>>
       \/ /\ Fault
          /\ UNCHANGED <<route, lastSig, lastHand>>
    /\ UNCHANGED <<row, nic, mode, pending, rollback, call, noWan, settled>>

-----------------------------------------------------------------------------
\* The operator's calls.

MayApply ==
    OneAtATime =>
        /\ pending = NoApply
        /\ \A a \in Applies : call[a].at = "idle" /\ rollback[a].state = "off"

AskApply(a, arm) ==
    /\ call[a].at = "idle" /\ a \notin spent.applies /\ MayApply
    /\ call' = [call EXCEPT ![a] = [IdleCall EXCEPT !.at = "plan", !.arm = arm]]
    /\ spent' = [spent EXCEPT !.applies = @ \cup {a}]

RequestApply(a) ==
    /\ \E arm \in BOOLEAN : AskApply(a, arm)
    /\ UNCHANGED <<row, nic, mode, route, lastSig, pending, rollback, builder, noWan, lastHand, settled>>

\* Entering balance mode saves it and applies the route, armed.
EnterBalance(a) ==
    /\ mode = "failover" /\ mode' = "balance"
    /\ AskApply(a, TRUE)
    /\ UNCHANGED <<row, nic, route, lastSig, pending, rollback, builder, noWan, lastHand, settled>>

\* Leaving it touches no route and no pending window.
LeaveBalance ==
    /\ mode = "balance" /\ mode' = "failover"
    /\ Change
    /\ UNCHANGED <<row, nic, route, lastSig, pending, rollback, call, builder, noWan, lastHand, settled>>

ApplyPlans(a) ==
    /\ call[a].at = "plan"
    /\ \E S \in UpSets :
         /\ spent' = [spent EXCEPT !.faults = @ + (IF S # {l \in Links : nic[l]} THEN 1 ELSE 0)]
         /\ call' = [call EXCEPT ![a] =
              IF S = {} THEN IdleCall
              ELSE [@ EXCEPT !.at = "capture", !.hops = SelectNexthops(row, S)]]
    /\ UNCHANGED <<row, nic, mode, route, lastSig, pending, rollback, builder, noWan, lastHand, settled>>

\* Mutant: what is kept for the rollback is the route about to be installed.
CapturedAfter(a) == [hops |-> call[a].hops, by |-> a]

Captured(a) == route

\* captureRestore: a failed read leaves no route to go back to.
ApplyCaptures(a) ==
    /\ call[a].at = "capture"
    /\ \/ call' = [call EXCEPT ![a].at = "exec", ![a].restore = Captured(a)] /\ UNCHANGED spent
       \/ call' = [call EXCEPT ![a].at = "exec"] /\ Fault
    /\ UNCHANGED <<row, nic, mode, route, lastSig, pending, rollback, builder, noWan, lastHand, settled>>

ApplyInstalls(a) ==
    /\ call[a].at = "exec"
    /\ \/ /\ CanInstall(call[a].hops)
          /\ route' = [hops |-> call[a].hops, by |-> a]
          /\ call' = [call EXCEPT ![a].at = "sign"]
          /\ lastHand' = "operator"
          /\ UNCHANGED spent
       \/ /\ \/ ~CanInstall(call[a].hops) /\ UNCHANGED spent
             \/ Fault
          /\ call' = [call EXCEPT ![a] = IdleCall]
          /\ UNCHANGED <<route, lastHand>>
    /\ UNCHANGED <<row, nic, mode, lastSig, pending, rollback, builder, noWan, settled>>

\* The signature is written under rebuildMu, after the command ran outside it.
ApplySigns(a) ==
    /\ call[a].at = "sign"
    /\ LockFree
    /\ lastSig' = RouteSignature(call[a].hops)
    /\ lastHand' = "operator"
    /\ call' = [call EXCEPT ![a].at = "cancel"]
    /\ UNCHANGED <<row, nic, mode, route, pending, rollback, builder, noWan, settled, spent>>

\* Stopping a timer does not stop the one that already fired.
Stopped(a) ==
    IF a # NoApply /\ rollback[a].state = "armed"
    THEN [rollback EXCEPT ![a] = NoTimer] ELSE rollback

\* cancelPending before arming again: what was pending is kept from now on.
ApplyCancels(a) ==
    /\ call[a].at = "cancel"
    /\ rollback' = Stopped(pending)
    /\ pending' = NoApply
    /\ LET arms == call[a].arm /\ call[a].restore # NoRoute IN
       /\ call' = [call EXCEPT ![a] = IF arms THEN [@ EXCEPT !.at = "arm"] ELSE IdleCall]
       /\ settled' = IF arms THEN settled ELSE settled \cup {a}
    /\ UNCHANGED <<row, nic, mode, route, lastSig, builder, noWan, lastHand, spent>>

ArmRollback(a) ==
    /\ call[a].at = "arm"
    /\ pending' = a
    /\ rollback' = [rollback EXCEPT ![a] = [state |-> "armed", restore |-> call[a].restore]]
    /\ call' = [call EXCEPT ![a] = IdleCall]
    /\ UNCHANGED <<row, nic, mode, route, lastSig, builder, noWan, lastHand, settled, spent>>

Confirm ==
    /\ pending # NoApply
    /\ settled' = settled \cup {pending}
    /\ pending' = NoApply
    /\ rollback' = Stopped(pending)
    /\ UNCHANGED <<row, nic, mode, route, lastSig, call, builder, noWan, lastHand, spent>>

Rollback ==
    /\ pending # NoApply
    /\ pending' = NoApply
    /\ rollback' = [Stopped(pending) EXCEPT ![pending] =
          [state |-> "restoring", restore |-> rollback[pending].restore]]
    /\ UNCHANGED <<row, nic, mode, route, lastSig, call, builder, noWan, lastHand, settled, spent>>

-----------------------------------------------------------------------------
\* The timer: it takes whatever is pending and restores its own route.

TimerFires(a) ==
    /\ rollback[a].state = "armed"
    /\ rollback' = [rollback EXCEPT ![a].state = "fired"]
    /\ UNCHANGED <<row, nic, mode, route, lastSig, pending, call, builder, noWan, lastHand, settled, spent>>

\* Mutant: a timer that finds its window taken leaves it.
TimerTakesOwn(a) ==
    /\ rollback[a].state = "fired"
    /\ rollback' = [rollback EXCEPT ![a].state = "restoring"]
    /\ UNCHANGED <<row, nic, mode, route, lastSig, pending, call, builder, noWan, lastHand, settled, spent>>

TimerTakes(a) ==
    /\ rollback[a].state = "fired"
    /\ pending' = NoApply
    /\ rollback' = [rollback EXCEPT ![a] =
          IF pending = NoApply THEN NoTimer ELSE [@ EXCEPT !.state = "restoring"]]
    /\ UNCHANGED <<row, nic, mode, route, lastSig, call, builder, noWan, lastHand, settled, spent>>

Restores(a) ==
    /\ rollback[a].state = "restoring"
    /\ rollback' = [rollback EXCEPT ![a] = NoTimer]
    /\ \/ /\ route' = rollback[a].restore
          /\ lastHand' = "operator"
          /\ UNCHANGED <<settled, spent>>
       \/ /\ Fault
          /\ settled' = settled \cup {a}
          /\ UNCHANGED <<route, lastHand>>
    /\ UNCHANGED <<row, nic, mode, lastSig, pending, call, builder, noWan>>

\* The timers and the signature live in memory only; the kernel keeps the route.
RouteRestart ==
    /\ spent.restarts < MaxRestarts
    /\ spent' = [spent EXCEPT !.restarts = @ + 1]
    /\ lastSig' = NoSig
    /\ pending' = NoApply
    /\ rollback' = [a \in Applies |-> NoTimer]
    /\ call' = [a \in Applies |-> IdleCall]
    /\ builder' = [b \in Builders |-> IdleBuilder]
    /\ noWan' = FALSE
    /\ settled' = Applies
    /\ UNCHANGED <<row, nic, mode, route, lastHand>>

-----------------------------------------------------------------------------
RebuildStep(b) == RebuildLooks(b) \/ RebuildPlans(b) \/ RebuildInstalls(b)

ApplyStep(a) ==
    \/ ApplyPlans(a) \/ ApplyCaptures(a) \/ ApplyInstalls(a)
    \/ ApplySigns(a) \/ ApplyCancels(a) \/ ArmRollback(a)

TimerStep(a) == TimerFires(a) \/ TimerTakes(a) \/ Restores(a)

RouteNext ==
    \/ \E l \in Links : MonitorStores(l) \/ InterfaceChanges(l) \/ PanelEdits(l) \/ ApplySchedule(l)
    \/ TickerFires
    \/ \E b \in Builders : RebuildStep(b)
    \/ \E a \in Applies : RequestApply(a) \/ EnterBalance(a) \/ ApplyStep(a) \/ TimerStep(a)
    \/ LeaveBalance \/ Confirm \/ Rollback
    \/ RouteRestart

RouteSpec == RouteInit /\ [][RouteNext]_routeVars

-----------------------------------------------------------------------------
NexthopShape == [gateway : Nat, weight : 1..MaxKernelWeight]
IsHops(h) == \E S \in SUBSET Links : h \in [S -> NexthopShape]
IsRoute(r) ==
    /\ r = [hops |-> r.hops, by |-> r.by]
    /\ r.by \in Applies \cup {"rebuild", "boot", "nobody"}
    /\ IsHops(r.hops) \/ r.hops = IspHops

\* Type invariant of the balancer: rows, routes, windows and calls keep their
\* shape, and the Rebuild that runs "ip" is alone (rebuildMu).
RouteTypeOK ==
    /\ row \in [Links -> [status : Statuses, quality : Nat, gateway : Nat, weight : Nat]]
    /\ nic \in [Links -> BOOLEAN]
    /\ mode \in {"balance", "failover"}
    /\ IsRoute(route)
    /\ lastSig \subseteq (Links \cup {NoLink}) \X Nat \X Nat
    /\ pending \in Applies \cup {NoApply}
    /\ \A a \in Applies :
         /\ rollback[a].state \in {"off", "armed", "fired", "restoring"}
         /\ call[a].at \in {"idle", "plan", "capture", "exec", "sign", "cancel", "arm"}
         /\ IsRoute(rollback[a].restore) /\ IsRoute(call[a].restore) /\ IsHops(call[a].hops)
    /\ \A b \in Builders : builder[b].at \in {"idle", "look", "plan", "exec"} /\ IsHops(builder[b].hops)
    /\ noWan \in BOOLEAN
    /\ lastHand \in {"rebuild", "operator"}
    /\ settled \subseteq Applies
    /\ \A b, c \in Builders : builder[b].at = "exec" /\ builder[c].at = "exec" => b = c

\* selectNexthops: every link that is up stays in the plan, with a weight the
\* kernel accepts, and no degraded link outweighs a healthy one beside it.
DegradedNeverOutweighs ==
    \A S \in SUBSET Links :
        LET hops == SelectNexthops(row, S) IN
        /\ DOMAIN hops = S
        /\ \A l \in S : hops[l].weight \in 1..MaxKernelWeight
        /\ \A l, m \in S : row[l].status = "online" /\ row[m].status # "online"
                           => hops[m].weight <= hops[l].weight

\* "A bad change can never permanently cut internet access" (package comment):
\* once no window, call or timer is left, the route is not that of an Apply
\* that was armed and never kept.
UnconfirmedNeverStays ==
    /\ pending = NoApply
    /\ \A a \in Applies : call[a].at = "idle" /\ rollback[a].state = "off"
    => route.by \notin Applies \ settled

\* Every armed window ends, by the operator or by its timer, whatever the
\* interleaving of calls and timers: the reconcile waits for it (Rebuild).
WindowEnds == pending # NoApply ~> pending = NoApply

\* With a WAN up and the mode unchanged the ticker brings the kernel to the
\* plan, unless an operator's Apply or rollback had the last word (Rebuild).
RouteConverges ==
    <>[](mode = "balance" /\ HasPath) => <>[](route.hops = Desired \/ lastHand = "operator")

\* The alert of "no WAN to balance" closes once there is one again, unless an
\* operator's Apply wrote over the memory of the empty plan (Rebuild).
NoWanCloses ==
    <>[](mode = "balance" /\ HasPath) => <>[](~noWan \/ lastHand = "operator")
=============================================================================
