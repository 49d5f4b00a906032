------------------------------ MODULE WanHealth ------------------------------
(***************************************************************************)
(* What a WAN going up or down does in failover mode: the monitor's tick   *)
(* checks every enabled link in a goroutine of its own, stores the verdict *)
(* and calls back; the callback withdraws or publishes the marks of the    *)
(* domain targets and removes or restores the default route of the link's  *)
(* own table. Around it run the provisioning of the boot, an administrator *)
(* who saves the form of a link, and restarts of the process (the kernel's *)
(* routes survive those, the memory does not).                             *)
(***************************************************************************)
EXTENDS LinkHealth, FiniteSets

CONSTANTS Links,        \* the WANs
          MaxEdits,     \* forms the administrator saves
          MaxRestarts,  \* restarts of the process
          MaxPasses,    \* further provisioning passes, once the base is installed
          MaxFaults     \* failures of a database call or of ip route

ASSUME BoundAssumption ==
    /\ MaxEdits \in Nat
    /\ MaxRestarts \in Nat
    /\ MaxPasses \in Nat
    /\ MaxFaults \in Nat

VARIABLES
    row,       \* the links table: enabled and status of each link
    memory,    \* the monitor's map of link states, NoState where it has none
    check,     \* the goroutine that checks each link
    route,     \* links whose own table has a default route
    intent,    \* links whose domain mark is published as active
    ready,     \* the gate of the domain coordinator
    boot,      \* the provisioning pass
    cooling,   \* links whose failover cooldown has not passed
    form,      \* the administrator's open form
    used,      \* how much of each bound has been used
    streak,    \* history: kind and length of each link's last run of samples
    alarms     \* history: sustained alarms in the run of degraded samples

vars == <<row, memory, check, route, intent, ready, boot, cooling, form, used,
          streak, alarms>>

-----------------------------------------------------------------------------
(* Shapes.                                                                 *)

Row == [enabled : BOOLEAN, status : Stored]

NoState == [last |-> "none"]

Idle == [pc |-> "idle"]

\* prev is the status of the row the tick read; old and new are the states
\* the callback is told about; fire is the sustained alarm.
Check ==
    [pc : {"probe"}, prev : Stored]
      \union [pc : {"store", "withdraw", "failover", "publish"},
              old : Stored, new : Statuses, fire : BOOLEAN]
      \union [pc : {"alarm"}]

Form == [pc : {"open"}, link : Links, row : Row]
          \union [pc : {"routes", "publish"}]

Boot == [pc : {"load", "prepare", "hold", "done"}]
          \union [pc : {"routes"}, links : SUBSET Links]

MaxStreak ==
    LET largest == {n \in {FailThreshold, RecoverThreshold, Sustain} :
                      \A m \in {FailThreshold, RecoverThreshold, Sustain} : m <= n}
    IN  CHOOSE n \in largest : TRUE

TypeOK ==
    /\ row \in [Links -> Row]
    /\ memory \in [Links -> LinkState \union {NoState}]
    /\ check \in [Links -> Check \union {Idle}]
    /\ route \in SUBSET Links
    /\ intent \in SUBSET Links
    /\ ready \in BOOLEAN
    /\ boot \in Boot
    /\ cooling \in SUBSET Links
    /\ form \in Form \union {Idle}
    /\ used \in [edits : 0 .. MaxEdits, restarts : 0 .. MaxRestarts,
                 passes : 0 .. MaxPasses, faults : 0 .. MaxFaults]
    /\ streak \in [Links -> [kind : Samples \union {"none"}, n : 0 .. MaxStreak]]
    /\ alarms \in [Links -> 0 .. 2]

NoSample == [kind |-> "none", n |-> 0]

Resting == \A l \in Links : check[l] = Idle

-----------------------------------------------------------------------------
(* The coordinator: one mutex around a consistent read of the links and the *)
(* publication of the whole list.                                          *)

Usable(r) == r.enabled /\ r.status \in {"online", "degraded"}

Reconciled(rows, open) == {l \in Links : open /\ Usable(rows[l])}

Reconcile == intent' = Reconciled(row, ready)

Fault == used.faults < MaxFaults /\ used' = [used EXCEPT !.faults = @ + 1]

-----------------------------------------------------------------------------
(* The monitor.                                                            *)

Checked(r) == r.enabled

\* checkAll reads the links and starts one goroutine per enabled link; it
\* waits for all of them, so no tick starts before the last one has ended.
Tick ==
    /\ Resting
    /\ check' = [l \in Links |-> IF Checked(row[l])
                                   THEN [pc |-> "probe", prev |-> row[l].status]
                                   ELSE Idle]
    /\ UNCHANGED <<row, memory, route, intent, ready, boot, cooling, form, used,
                   streak, alarms>>

\* The probes are over: under the monitor's mutex the sample moves the state
\* machine, and the verdict is in memory before it is in the database.
Probe(l, sample) ==
    /\ check[l].pc = "probe"
    /\ LET st  == IF memory[l] = NoState THEN FreshState(check[l].prev)
                                         ELSE memory[l]
           adv == Advance(st, sample, check[l].prev)
       IN  /\ memory' = [memory EXCEPT ![l] = adv.state]
           /\ check' = [check EXCEPT ![l] =
                 [pc |-> "store", old |-> st.last, new |-> adv.status,
                  fire |-> adv.fire]]
    /\ streak' = [streak EXCEPT ![l] =
                     [kind |-> sample,
                      n |-> IF @.kind = sample THEN UpTo(@.n, MaxStreak) ELSE 1]]
    /\ alarms' = IF sample = "degraded" THEN alarms
                                        ELSE [alarms EXCEPT ![l] = 0]
    /\ UNCHANGED <<row, route, intent, ready, boot, cooling, form, used>>

\* What follows the callback of a change, or the lack of one.
AfterChange(c) == IF c.fire THEN [pc |-> "alarm"] ELSE Idle

\* Mutant: the route goes first.
AfterStoreRouteFirst(c) ==
    IF c.new = c.old THEN AfterChange(c) ELSE [c EXCEPT !.pc = "failover"]

\* The start of the callback: a link that went offline loses its mark first,
\* any other change starts with the failover.
AfterStore(c) ==
    IF c.new = c.old
      THEN AfterChange(c)
      ELSE [c EXCEPT !.pc = IF c.new = "offline" THEN "withdraw" ELSE "failover"]

\* Mutant: only a change is written.
WithVerdictIfNew(r, c) == IF c.new = c.old THEN r ELSE [r EXCEPT !.status = c.new]

WithVerdict(r, c) == [r EXCEPT !.status = c.new]

\* UpdateStatus writes the verdict of every check.
Store(l) ==
    /\ check[l].pc = "store"
    /\ row' = [row EXCEPT ![l] = WithVerdict(@, check[l])]
    /\ check' = [check EXCEPT ![l] = AfterStore(@)]
    /\ UNCHANGED <<memory, route, intent, ready, boot, cooling, form, used,
                   streak, alarms>>

\* The write failed: the check ends, and nobody is told of the change.
StoreFails(l) ==
    /\ check[l].pc = "store"
    /\ Fault
    /\ check' = [check EXCEPT ![l] = Idle]
    /\ UNCHANGED <<row, memory, route, intent, ready, boot, cooling, form,
                   streak, alarms>>

Withdraw(l) ==
    /\ check[l].pc = "withdraw"
    /\ Reconcile
    /\ check' = [check EXCEPT ![l].pc = "failover"]
    /\ UNCHANGED <<row, memory, route, ready, boot, cooling, form, used,
                   streak, alarms>>

\* The coordinator could not read its snapshot: the published list stays as it
\* was, and the callback goes on.
WithdrawFails(l) ==
    /\ check[l].pc = "withdraw"
    /\ Fault
    /\ check' = [check EXCEPT ![l].pc = "failover"]
    /\ UNCHANGED <<row, memory, route, intent, ready, boot, cooling, form,
                   streak, alarms>>

\* Mutant: only a link back online is published.
AfterFailoverOnline(c) ==
    IF c.new = "online" THEN [c EXCEPT !.pc = "publish"] ELSE AfterChange(c)

\* Where the callback goes after the failover.
AfterFailover(c) ==
    IF c.new = "offline" THEN AfterChange(c) ELSE [c EXCEPT !.pc = "publish"]

\* HandleStatusChange inside the cooldown of the link: the whole change is
\* skipped, route and alert alike.
FailoverSkipped(l) ==
    /\ check[l].pc = "failover"
    /\ l \in cooling
    /\ check' = [check EXCEPT ![l] = AfterFailover(@)]
    /\ UNCHANGED <<row, memory, route, intent, ready, boot, cooling, form, used,
                   streak, alarms>>

\* HandleStatusChange: offline deletes the default of the link's table, online
\* adds it (ip route add, which refuses a route that is there), degraded only
\* raises an alert; then the cooldown starts.
Failover(l) ==
    /\ check[l].pc = "failover"
    /\ l \notin cooling
    /\ route' = CASE check[l].new = "offline" -> route \ {l}
                  [] check[l].new = "online"  -> route \union {l}
                  [] OTHER                    -> route
    /\ cooling' = cooling \union {l}
    /\ check' = [check EXCEPT ![l] = AfterFailover(@)]
    /\ UNCHANGED <<row, memory, intent, ready, boot, form, used, streak, alarms>>

\* ip route fails: a failed delete is only logged, a failed add raises an
\* alert, and the cooldown starts all the same.
FailoverFails(l) ==
    /\ check[l].pc = "failover"
    /\ l \notin cooling
    /\ check[l].new \in {"offline", "online"}
    /\ Fault
    /\ cooling' = cooling \union {l}
    /\ check' = [check EXCEPT ![l] = AfterFailover(@)]
    /\ UNCHANGED <<row, memory, route, intent, ready, boot, form, streak, alarms>>

Publish(l) ==
    /\ check[l].pc = "publish"
    /\ Reconcile
    /\ check' = [check EXCEPT ![l] = AfterChange(@)]
    /\ UNCHANGED <<row, memory, route, ready, boot, cooling, form, used,
                   streak, alarms>>

PublishFails(l) ==
    /\ check[l].pc = "publish"
    /\ Fault
    /\ check' = [check EXCEPT ![l] = AfterChange(@)]
    /\ UNCHANGED <<row, memory, route, intent, ready, boot, cooling, form,
                   streak, alarms>>

\* The sustained alarm: in failover mode its callback evicts nothing.
Alarm(l) ==
    /\ check[l].pc = "alarm"
    /\ alarms' = [alarms EXCEPT ![l] = UpTo(@, 2)]
    /\ check' = [check EXCEPT ![l] = Idle]
    /\ UNCHANGED <<row, memory, route, intent, ready, boot, cooling, form, used,
                   streak>>

CooldownEnds(l) ==
    /\ l \in cooling
    /\ cooling' = cooling \ {l}
    /\ UNCHANGED <<row, memory, check, route, intent, ready, boot, form, used,
                   streak, alarms>>

-----------------------------------------------------------------------------
(* Boot.                                                                   *)

Enabled(rows) == {l \in Links : rows[l].enabled}

\* The provisioning pass reads the links once; the return routes of every
\* enabled link (ip route replace) and the gate follow from that reading.
BootLoad ==
    /\ boot.pc = "load"
    /\ boot' = [pc |-> "routes", links |-> Enabled(row)]
    /\ UNCHANGED <<row, memory, check, route, intent, ready, cooling, form, used,
                   streak, alarms>>

BootRoutes ==
    /\ boot.pc = "routes"
    /\ route' = route \union boot.links
    /\ boot' = [pc |-> "prepare"]
    /\ UNCHANGED <<row, memory, check, intent, ready, cooling, form, used,
                   streak, alarms>>

\* Prepare opens the gate and publishes in one critical section.
BootPrepare ==
    /\ boot.pc = "prepare"
    /\ ready' = TRUE
    /\ intent' = Reconciled(row, TRUE)
    /\ boot' = [pc |-> "done"]
    /\ UNCHANGED <<row, memory, check, route, cooling, form, used, streak, alarms>>

\* Reading the links failed, or some step of the base or of the routes did:
\* the routes that could be written are there, and the pass will end by
\* holding the gate.
BootFails ==
    /\ Fault
    /\ \/ boot.pc = "load" /\ UNCHANGED route
       \/ /\ boot.pc = "routes"
          /\ \E written \in SUBSET boot.links : route' = route \union written
    /\ boot' = [pc |-> "hold"]
    /\ UNCHANGED <<row, memory, check, intent, ready, cooling, form, streak, alarms>>

\* Hold closes the gate and withdraws everything.
BootHolds ==
    /\ boot.pc = "hold"
    /\ ready' = FALSE
    /\ intent' = Reconciled(row, FALSE)
    /\ boot' = [pc |-> "done"]
    /\ UNCHANGED <<row, memory, check, route, cooling, form, used, streak, alarms>>

\* Prepare or Hold could not read the snapshot: the gate closes, the list stays.
BootPublishFails ==
    /\ boot.pc \in {"prepare", "hold"}
    /\ Fault
    /\ ready' = FALSE
    /\ boot' = [pc |-> "done"]
    /\ UNCHANGED <<row, memory, check, route, intent, cooling, form, streak,
                   alarms>>

\* The first pass ran on an incomplete base; the installation has succeeded
\* since, and the provisioning runs again over a live system.
BootAgain ==
    /\ boot.pc = "done"
    /\ used.passes < MaxPasses
    /\ used' = [used EXCEPT !.passes = @ + 1]
    /\ boot' = [pc |-> "load"]
    /\ UNCHANGED <<row, memory, check, route, intent, ready, cooling, form,
                   streak, alarms>>

Restart ==
    /\ used.restarts < MaxRestarts
    /\ used' = [used EXCEPT !.restarts = @ + 1]
    /\ memory' = [l \in Links |-> NoState]
    /\ check' = [l \in Links |-> Idle]
    /\ intent' = {}
    /\ ready' = FALSE
    /\ boot' = [pc |-> "load"]
    /\ cooling' = {}
    /\ form' = IF form.pc = "open" THEN form ELSE Idle
    /\ streak' = [l \in Links |-> NoSample]
    /\ alarms' = [l \in Links |-> 0]
    /\ UNCHANGED <<row, route>>

-----------------------------------------------------------------------------
(* The administrator: the panel sends the whole row back, status included. *)

OpenForm(l) ==
    /\ form = Idle
    /\ used.edits < MaxEdits
    /\ used' = [used EXCEPT !.edits = @ + 1]
    /\ form' = [pc |-> "open", link |-> l, row |-> row[l]]
    /\ UNCHANGED <<row, memory, check, route, intent, ready, boot, cooling,
                   streak, alarms>>

\* A client of the API may leave the status out.
SaveForm(enabled, status) ==
    /\ form.pc = "open"
    /\ status \in {form.row.status, ""}
    /\ row' = [row EXCEPT ![form.link] = [enabled |-> enabled, status |-> status]]
    /\ form' = [pc |-> "routes"]
    /\ UNCHANGED <<memory, check, route, intent, ready, boot, cooling, used,
                   streak, alarms>>

\* The write of the row failed: the request ends with an error.
SaveFails ==
    /\ form.pc = "open"
    /\ Fault
    /\ form' = Idle
    /\ UNCHANGED <<row, memory, check, route, intent, ready, boot, cooling,
                   streak, alarms>>

\* reconcileWANDerived: the return route of every enabled link, then the marks.
FormRoutes ==
    /\ form.pc = "routes"
    /\ route' = route \union Enabled(row)
    /\ form' = [pc |-> "publish"]
    /\ UNCHANGED <<row, memory, check, intent, ready, boot, cooling, used,
                   streak, alarms>>

\* The links could not be read, or some route not written: the failure is only
\* logged, and the marks are published all the same.
FormRoutesFail ==
    /\ form.pc = "routes"
    /\ Fault
    /\ \E written \in SUBSET Enabled(row) : route' = route \union written
    /\ form' = [pc |-> "publish"]
    /\ UNCHANGED <<row, memory, check, intent, ready, boot, cooling, streak, alarms>>

FormPublish ==
    /\ form.pc = "publish"
    /\ Reconcile
    /\ form' = Idle
    /\ UNCHANGED <<row, memory, check, route, ready, boot, cooling, used,
                   streak, alarms>>

FormPublishFails ==
    /\ form.pc = "publish"
    /\ Fault
    /\ form' = Idle
    /\ UNCHANGED <<row, memory, check, route, intent, ready, boot, cooling,
                   streak, alarms>>

-----------------------------------------------------------------------------
\* Whoever creates, changes or deletes a domain target, or switches the blocking
\* group, publishes the whole list as well.
TargetsChange ==
    /\ Reconcile
    /\ UNCHANGED <<row, memory, check, route, ready, boot, cooling, form, used,
                   streak, alarms>>

-----------------------------------------------------------------------------
Init ==
    /\ row \in [Links -> [enabled : {TRUE}, status : Statuses]]
    /\ memory = [l \in Links |-> NoState]
    /\ check = [l \in Links |-> Idle]
    /\ route = {}
    /\ intent = {}
    /\ ready = FALSE
    /\ boot = [pc |-> "load"]
    /\ cooling = {}
    /\ form = Idle
    /\ used = [edits |-> 0, restarts |-> 0, passes |-> 0, faults |-> 0]
    /\ streak = [l \in Links |-> NoSample]
    /\ alarms = [l \in Links |-> 0]

CheckStep(l) ==
    \/ \E sample \in Samples : Probe(l, sample)
    \/ Store(l)
    \/ StoreFails(l)
    \/ Withdraw(l)
    \/ WithdrawFails(l)
    \/ FailoverSkipped(l)
    \/ Failover(l)
    \/ FailoverFails(l)
    \/ Publish(l)
    \/ PublishFails(l)
    \/ Alarm(l)

BootStep ==
    BootLoad \/ BootRoutes \/ BootPrepare \/ BootFails \/ BootHolds \/ BootPublishFails

FormStep == FormRoutes \/ FormRoutesFail \/ FormPublish \/ FormPublishFails

Next ==
    \/ Tick
    \/ \E l \in Links : CheckStep(l) \/ CooldownEnds(l) \/ OpenForm(l)
    \/ BootStep
    \/ BootAgain
    \/ \E enabled \in BOOLEAN, status \in Stored : SaveForm(enabled, status)
    \/ SaveFails
    \/ FormStep
    \/ TargetsChange
    \/ Restart

Spec == Init /\ [][Next]_vars

\* The ticker fires for ever, every probe has a time limit and every callback
\* a deadline, so a check always ends; provisioning and a request in the
\* middle of its work go on by themselves; a cooldown passes. Nobody has to
\* open or save a form.
Fairness ==
    /\ WF_vars(Tick)
    /\ \A l \in Links : WF_vars(CheckStep(l)) /\ WF_vars(CooldownEnds(l))
    /\ WF_vars(BootStep)
    /\ WF_vars(FormStep)

FairSpec == Spec /\ Fairness
=============================================================================
