----------------------------- MODULE HealthAlerts -----------------------------
(***************************************************************************)
(* What is wrong with the machine and what the panel says about it: the    *)
(* checks of monitoring (systemd units, drifts of NAT, resolver and boot   *)
(* file, the journal, pending security updates) fold their readings into   *)
(* an in-memory verdict; each change of verdict opens or closes a row of   *)
(* the alerts table, which outlives the process.  A reading is a verdict,  *)
(* or none when the check could not look.  Numbers, texts and the channels *)
(* a notification takes are left out.                                      *)
(***************************************************************************)
EXTENDS Naturals, FiniteSets

CONSTANTS
    Services,        \* systemd units the operator asked to watch
    MaxHealthEvents, \* bound on changes of the truth, of the switch, on dismissals
    MaxHealthFaults  \* bound on restarts and on failures of the database

\* No unit is taken for another check: the type of an alert tells them apart.
ASSUME HealthAssumption ==
    /\ Services \cap {"drift", "outside", "noModule", "security", "resolution"} = {}
    /\ MaxHealthEvents \in Nat /\ MaxHealthFaults \in Nat

VARIABLES
    watched,      \* the things this behaviour watches
    truth,        \* what a reading of each thing would say
    monitoring,   \* setting "monitoring".enabled
    health,       \* Collector.health; Unseen when the thing is not in the map
    openRows,     \* open rows of the alerts table, by (type, linkID)
    watcher,      \* the alert call the checking goroutine is in
    told,         \* keys with an outage raised and no recovery announced since
    mishap,       \* what made the alert of a thing untrue, if anything did
    healthEvents, healthFaults

healthVars == <<watched, truth, monitoring, health, openRows, watcher, told, mishap,
                healthEvents, healthFaults>>

Things == Services \cup {"drift", "resolution", "security"}
AlertKeys == Services \cup {"drift", "outside", "noModule", "security"}

\* The keys under which a thing raises its alerts: name resolution has two.
KeysOf(t) == IF t = "resolution" THEN {"outside", "noModule"} ELSE {t}
Verdicts(t) == {"good", "none"} \cup (IF t = "resolution" THEN KeysOf(t) ELSE {"bad"})
KeyOf(t) == IF t = "resolution" THEN truth[t] ELSE t

Unseen == [known |-> FALSE, up |-> TRUE, failCount |-> 0]
Idle == [at |-> "idle"]

IsOpen(t) == \E k \in KeysOf(t) : openRows[k] > 0

HealthInit ==
    /\ watched \in {Services, {"drift"}, {"resolution"}, {"security"}}
    /\ truth = [t \in Things |-> "good"]
    /\ monitoring = TRUE
    /\ health = [t \in Things |-> Unseen]
    /\ openRows = [k \in AlertKeys |-> 0]
    /\ watcher = Idle
    /\ told = {}
    /\ mishap = [t \in Things |-> "none"]
    /\ healthEvents = 0 /\ healthFaults = 0

HealthEvent == healthEvents < MaxHealthEvents /\ healthEvents' = healthEvents + 1
HealthFault == healthFaults < MaxHealthFaults /\ healthFaults' = healthFaults + 1

TruthChanges ==
    /\ HealthEvent
    /\ \E t \in watched : \E v \in Verdicts(t) \ {truth[t]} : truth' = [truth EXCEPT ![t] = v]
    /\ UNCHANGED <<watched, monitoring, health, openRows, watcher, told, mishap, healthFaults>>

SwitchMonitoring ==
    /\ HealthEvent
    /\ monitoring' = ~monitoring
    /\ UNCHANGED <<watched, truth, health, openRows, watcher, told, mishap, healthFaults>>

\* The operator marks an alert as resolved on the panel.
Dismiss(t) ==
    /\ IsOpen(t)
    /\ HealthEvent
    /\ openRows' = [k \in AlertKeys |-> IF k \in KeysOf(t) THEN 0 ELSE openRows[k]]
    /\ mishap' = [mishap EXCEPT ![t] = "dismissed"]
    /\ UNCHANGED <<watched, truth, monitoring, health, watcher, told, healthFaults>>

-----------------------------------------------------------------------------
(* The readings.                                                           *)

\* Two bad readings in a row make an outage; pending updates do not flap.
DownConfirm(t) == IF t = "security" THEN 1 ELSE 2

\* Mutant: the outage is recognised one reading too late.
FoldedLate(t, up) ==
    LET fails == IF up THEN 0 ELSE health[t].failCount + 1
    IN [known |-> TRUE, up |-> up \/ (health[t].up /\ fails <= DownConfirm(t)), failCount |-> fails]

Folded(t, up) ==
    LET h == health[t]
        fails == IF up THEN 0 ELSE h.failCount + 1
    IN IF up THEN [known |-> TRUE, up |-> TRUE, failCount |-> 0]
       ELSE IF ~h.up \/ fails >= DownConfirm(t)
            THEN [known |-> TRUE, up |-> FALSE, failCount |-> 0]
            ELSE [known |-> TRUE, up |-> TRUE, failCount |-> fails]

\* Mutant: the first good reading of a process closes what was left open.
CallForFirst(t, h, g) ==
    CASE h.up /\ ~g.up -> [at |-> "raise", thing |-> t, key |-> KeyOf(t)]
      [] g.up /\ ~(h.known /\ h.up) -> [at |-> "close", thing |-> t]
      [] OTHER -> Idle

\* What the goroutine does next about a thing that went from h to g.
CallFor(t, h, g) ==
    CASE h.up /\ ~g.up -> [at |-> "raise", thing |-> t, key |-> KeyOf(t)]
      [] h.known /\ ~h.up /\ g.up -> [at |-> "close", thing |-> t]
      [] OTHER -> Idle

\* The updates are looked at once at start, whatever the switch says.
MayProbe(t) == monitoring \/ (t = "security" /\ ~health[t].known)

Probe(t) ==
    /\ watcher = Idle
    /\ MayProbe(t)
    /\ truth[t] # "none"
    /\ health' = [health EXCEPT ![t] = Folded(t, truth[t] = "good")]
    /\ watcher' = CallFor(t, health[t], health'[t])
    /\ UNCHANGED <<watched, truth, monitoring, openRows, told, mishap, healthEvents, healthFaults>>

\* A unit that is absent, masked or could not be asked about leaves the map,
\* and the alert it may have open stays: nobody will see it come back.
Forget(t) ==
    /\ watcher = Idle
    /\ monitoring
    /\ t \in Services
    /\ truth[t] = "none"
    /\ health[t].known
    /\ health' = [health EXCEPT ![t] = Unseen]
    /\ mishap' = IF IsOpen(t) THEN [mishap EXCEPT ![t] = "forgotten"] ELSE mishap
    /\ UNCHANGED <<watched, truth, monitoring, openRows, watcher, told, healthEvents, healthFaults>>

-----------------------------------------------------------------------------
(* The alerts.                                                             *)

\* Create reads the open rows: one of the same key is enough.
CreateReads ==
    /\ watcher.at = "raise"
    /\ told' = told \cup {watcher.key}
    /\ \/ /\ openRows[watcher.key] > 0
          /\ watcher' = Idle
          /\ mishap' = [mishap EXCEPT ![watcher.thing] = "none"]
          /\ UNCHANGED healthFaults
       \/ /\ openRows[watcher.key] = 0
          /\ watcher' = [watcher EXCEPT !.at = "insert"]
          /\ UNCHANGED <<mishap, healthFaults>>
       \/ /\ HealthFault
          /\ watcher' = Idle
          /\ mishap' = [mishap EXCEPT ![watcher.thing] = "lost"]
    /\ UNCHANGED <<watched, truth, monitoring, health, openRows, healthEvents>>

\* The row is inserted and announced; a failure is returned, and dropped.
CreateInserts ==
    /\ watcher.at = "insert"
    /\ \/ /\ openRows' = [openRows EXCEPT ![watcher.key] = @ + 1]
          /\ mishap' = [mishap EXCEPT ![watcher.thing] = "none"]
          /\ UNCHANGED healthFaults
       \/ /\ HealthFault
          /\ mishap' = [mishap EXCEPT ![watcher.thing] = "lost"]
          /\ UNCHANGED openRows
    /\ watcher' = Idle
    /\ UNCHANGED <<watched, truth, monitoring, health, told, healthEvents>>

\* Mutant: of the two alerts about name resolution only the milder is closed.
AutoResolveOutside ==
    /\ watcher.at = "close"
    /\ LET t == watcher.thing IN
         /\ openRows' = [k \in AlertKeys |->
                           IF k \in KeysOf(t) \ {"noModule"} THEN 0 ELSE openRows[k]]
         /\ mishap' = [mishap EXCEPT ![t] = "none"]
         /\ watcher' = [watcher EXCEPT !.at = "announce"]
    /\ UNCHANGED <<watched, truth, monitoring, health, told, healthEvents, healthFaults>>

\* The check of name resolution says nothing when it finds no alert open.
NothingToClose(t) == t = "resolution" /\ ~IsOpen(t)

\* Every open row of the thing's keys is resolved, errors ignored.
AutoResolve ==
    /\ watcher.at = "close"
    /\ LET t == watcher.thing IN
         \/ /\ openRows' = [k \in AlertKeys |-> IF k \in KeysOf(t) THEN 0 ELSE openRows[k]]
            /\ mishap' = [mishap EXCEPT ![t] = "none"]
            /\ watcher' = IF NothingToClose(t) THEN Idle
                          ELSE [watcher EXCEPT !.at = "announce"]
            /\ UNCHANGED healthFaults
         \/ /\ HealthFault
            /\ mishap' = [mishap EXCEPT ![t] = IF IsOpen(t) THEN "stuck" ELSE "none"]
            /\ watcher' = IF t = "resolution" THEN Idle ELSE [watcher EXCEPT !.at = "announce"]
            /\ UNCHANGED openRows
    /\ UNCHANGED <<watched, truth, monitoring, health, told, healthEvents>>

\* createRecovery stores a row that is already resolved, and announces it.
AnnounceRecovery ==
    /\ watcher.at = "announce"
    /\ watcher' = Idle
    /\ \/ told' = told \ KeysOf(watcher.thing) /\ UNCHANGED healthFaults
       \/ HealthFault /\ UNCHANGED told
    /\ UNCHANGED <<watched, truth, monitoring, health, openRows, mishap, healthEvents>>

\* A restart forgets the health, and first closes every alert a watcher can
\* raise again (ResolveStaleOnStartup), unless it cannot read the table.
HealthRestart ==
    /\ HealthFault
    /\ health' = [t \in Things |-> Unseen]
    /\ watcher' = Idle
    /\ \/ /\ openRows' = [k \in AlertKeys |-> 0]
          /\ mishap' = [t \in Things |-> "none"]
       \/ /\ UNCHANGED openRows
          /\ mishap' = [t \in Things |-> IF IsOpen(t) THEN "stuck" ELSE "none"]
    /\ UNCHANGED <<watched, truth, monitoring, told, healthEvents>>

WatcherStep(t) ==
    \/ Probe(t) \/ Forget(t)
    \/ watcher.at # "idle" /\ watcher.thing = t
       /\ (CreateReads \/ CreateInserts \/ AutoResolve \/ AnnounceRecovery)

HealthNext ==
    \/ \E t \in watched : WatcherStep(t) \/ Dismiss(t)
    \/ TruthChanges \/ SwitchMonitoring \/ HealthRestart

HealthSpec == HealthInit /\ [][HealthNext]_healthVars

-----------------------------------------------------------------------------
\* Type invariant of the checks and of their alerts.
HealthTypeOK ==
    /\ watched \subseteq Things
    /\ \A t \in Things :
         /\ truth[t] \in Verdicts(t)
         /\ health[t].known \in BOOLEAN /\ health[t].up \in BOOLEAN
         /\ health[t].failCount < DownConfirm(t)
         /\ mishap[t] \in {"none", "lost", "dismissed", "stuck", "forgotten"}
    /\ monitoring \in BOOLEAN
    /\ \A k \in AlertKeys : openRows[k] \in 0..1
    /\ watcher.at \in {"idle", "raise", "insert", "close", "announce"}
    /\ told \subseteq AlertKeys
    /\ healthEvents \in 0..MaxHealthEvents /\ healthFaults \in 0..MaxHealthFaults

\* Create, observe, ResolveStaleOnStartup: what stays wrong ends up with an
\* alert open, unless the database refused the row or somebody dismissed it.
WrongIsShown ==
    \A t \in Things :
      <>[](t \in watched /\ monitoring /\ truth[t] \notin {"good", "none"})
        => <>[](IsOpen(t) \/ mishap[t] \in {"lost", "dismissed"})

\* AutoResolve: what stays right ends up with no alert open, across restarts,
\* unless the row could not be closed or the unit was forgotten meanwhile.
RightIsShown ==
    \A t \in Things :
      <>[](t \in watched /\ monitoring /\ truth[t] = "good")
        => <>[](~IsOpen(t) \/ mishap[t] \in {"stuck", "forgotten"})

\* NotifyRecovery: each recovery that is announced has an outage of its own,
\* raised since the recovery before it.
RecoveryFollowsOutage ==
    [][ AnnounceRecovery => told \cap KeysOf(watcher.thing) # {} ]_healthVars
=============================================================================
