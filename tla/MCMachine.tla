------------------------------ MODULE MCMachine ------------------------------
(* The services of the machine that the program configures, watches and     *)
(* accounts for, side by side: a behaviour follows one, named by focus, and *)
(* the others stay parked at an initial state, because they share no state  *)
(* that this level of detail keeps.                                         *)
EXTENDS HealthAlerts, NetServices, InterfaceTrial, ChainReconcile, HostQuota, LinkQuota, DomainTargets,
        QueueControl, DynamicName, MetricStore

CONSTANT Parts  \* the services a run follows

VARIABLE focus

Init ==
    /\ focus \in Parts
    /\ HealthInit /\ (focus # "health" => watched = {"drift"})
    /\ NetInit /\ present = {"lan"}
    /\ InterfaceInit /\ ifaceFile = Absent
    /\ ChainInit
    /\ QuotaInit /\ (focus # "hostQuota" => quota.period = "daily")
    /\ LinkInit /\ (focus # "linkQuota" => linkQuota.day = 0)
    /\ DomainInit /\ (focus # "domains" => budget = CHOOSE b \in Scenarios : TRUE)
    /\ QueueInit /\ (focus # "queue" => Effective = Off /\ link.on /\ link.qos = Off)
    /\ NameInit
    /\ (focus # "names" => nameRow.host = (CHOOSE h \in Hostnames : TRUE) /\ wanAddr = CHOOSE a \in PublicAddrs : TRUE)
    /\ MetricInit

\* The services the step does not follow stay as they are.
Others(p) ==
    /\ UNCHANGED focus
    /\ IF p = "health" THEN TRUE ELSE UNCHANGED healthVars
    /\ IF p = "net" THEN TRUE ELSE UNCHANGED netVars
    /\ IF p = "trial" THEN TRUE ELSE UNCHANGED trialVars
    /\ IF p = "chains" THEN TRUE ELSE UNCHANGED chainVars
    /\ IF p = "hostQuota" THEN TRUE ELSE UNCHANGED quotaVars
    /\ IF p = "linkQuota" THEN TRUE ELSE UNCHANGED linkVars
    /\ IF p = "domains" THEN TRUE ELSE UNCHANGED domainVars
    /\ IF p = "queue" THEN TRUE ELSE UNCHANGED queueVars
    /\ IF p = "names" THEN TRUE ELSE UNCHANGED nameVars
    /\ IF p = "series" THEN TRUE ELSE UNCHANGED metricVars

Next ==
    \/ focus = "health" /\ HealthNext /\ Others("health")
    \/ focus = "net" /\ NetNext /\ Others("net")
    \/ focus = "trial" /\ InterfaceNext /\ Others("trial")
    \/ focus = "chains" /\ ChainNext /\ Others("chains")
    \/ focus = "hostQuota" /\ QuotaNext /\ Others("hostQuota")
    \/ focus = "linkQuota" /\ LinkNext /\ Others("linkQuota")
    \/ focus = "domains" /\ DomainNext /\ Others("domains")
    \/ focus = "queue" /\ QueueNext /\ Others("queue")
    \/ focus = "names" /\ NameNext /\ Others("names")
    \/ focus = "series" /\ MetricNext /\ Others("series")

vars == <<focus, healthVars, netVars, trialVars, chainVars, quotaVars, linkVars, domainVars,
          queueVars, nameVars, metricVars>>

SafetySpec == Init /\ [][Next]_vars

\* The collector ticks every 30 s and runs each check to its end.
HealthFairness ==
    \A t \in Things : SF_healthVars(focus = "health" /\ t \in watched /\ WatcherStep(t))

\* An armed debounce timer fires, and a reload that began runs to its end.
NetFairness ==
    \A r \in Reloads : /\ WF_netVars(focus = "net" /\ TimerReload(r))
                       /\ WF_netVars(focus = "net" /\ ReloadStep(r))

\* Time passes, the sweep ticks every 5 s, and a call runs to its end.
TrialFairness ==
    /\ WF_trialVars(focus = "trial" /\ DeadlinePasses)
    /\ WF_trialVars(focus = "trial" /\ Takes("sweep"))
    /\ \A r \in Resolvers : WF_trialVars(focus = "trial" /\ ResolveStep(r))

\* An armed debounce timer fires; reconcileMu serves everyone, and whoever
\* holds it runs to its end.
ChainFairness ==
    /\ WF_chainVars(focus = "chains" /\ NtpReloads)
    /\ WF_chainVars(focus = "chains" /\ TurnStep)
    /\ \A c \in Calls : WF_chainVars(focus = "chains" /\ TakeTurn(c))

\* The loop wakes for what is waiting, the writer for a batch, and time passes.
DomainFairness ==
    /\ WF_domainVars(focus = "domains" /\ DrenaAjustes)
    /\ WF_domainVars(focus = "domains" /\ RecolocaRemocoes)
    /\ WF_domainVars(focus = "domains" /\ Descarrega)
    /\ WF_domainVars(focus = "domains" /\ AplicaLote)
    /\ WF_domainVars(focus = "domains" /\ LoteVolta)
    /\ \A a \in Addrs : WF_domainVars(focus = "domains" /\ Passa(a))

\* Whoever holds the lock of the interface runs to its end, the boot pass and
\* the stress test go on, and the watchdog's deadline passes.
QueueFairness ==
    /\ WF_queueVars(focus = "queue" /\ BootStep)
    /\ WF_queueVars(focus = "queue" /\ LockStep)
    /\ WF_queueVars(focus = "queue" /\ TestStep)
    /\ WF_queueVars(focus = "queue" /\ Restore("watchdog"))

\* The ticker of five minutes begins a check, which runs to its end, and so
\* does a save.
NameFairness ==
    /\ WF_nameVars(focus = "names" /\ ChecksName("ticker"))
    /\ WF_nameVars(focus = "names" /\ ClearsState)
    /\ \A c \in Checkers : WF_nameVars(focus = "names" /\ NameStep(c))

Spec ==
    /\ SafetySpec
    /\ HealthFairness /\ NetFairness /\ TrialFairness /\ ChainFairness /\ DomainFairness
    /\ QueueFairness /\ NameFairness

Scenario(rs, as, e, f) == [rows |-> rs, addrs |-> as, edits |-> e, faults |-> f]
MCScenarios ==
    {Scenario(<<"block", "m1">>, {1, 2}, 1, 0), Scenario(<<"block", "m1">>, {1}, 2, 0),
     Scenario(<<"block", "m1">>, {1}, 0, 1), Scenario(<<"block", "absent">>, {1}, 1, 1)}
MCSteers == {Scenario(<<"m1">>, {1}, 1, 0)}

\* A parked service is at an initial state, which a run that follows it checks.
Of(p, invariant) == focus = p => invariant

\* Type invariant of the machine's services.
MachineTypeOK ==
    /\ Of("health", HealthTypeOK) /\ Of("net", NetTypeOK) /\ Of("trial", InterfaceTypeOK)
    /\ Of("chains", ChainTypeOK) /\ Of("hostQuota", QuotaTypeOK) /\ Of("linkQuota", LinkQuotaTypeOK)
    /\ Of("domains", DomainTypeOK) /\ Of("queue", QueueTypeOK) /\ Of("names", NameTypeOK)
    /\ Of("series", MetricTypeOK)

\* Each unit of traffic measured, of a host or of a link, is in one place only
\* (waiting, being written, counted in one cycle, or lost with a process), a
\* host's unit is counted in the cycle it was measured in, and between flushes
\* the open quota alerts are about the cycle evaluated last.
UsageIsAccounted ==
    /\ Of("hostQuota", EachUnitOnce) /\ Of("linkQuota", LinkUnitOnce) /\ Of("hostQuota", CountedInItsCycle)
    /\ Of("hostQuota", AlertsTurn) /\ Of("linkQuota", LinkAlertsTurn)

\* A reading is in the row of its window once at every step, or in memory still,
\* and the open interval of a state is that of the state observed last.
SeriesAreWhole == Of("series", ReadingsAreCounted) /\ Of("series", IntervalFollowsState)

\* The daemons serve what the panel marked as served, and what is on disk keeps
\* them serving, at no failure, crash or boot cut off.
DaemonsServe == Of("net", OkMeansServed) /\ Of("net", NoBlackout)

\* Between passes the chains hold what the rows ask for, and at no command,
\* failure, crash or boot does the one that forwards drop all it should pass.
ChainsAreWhole == Of("chains", ChainsFollowRows) /\ Of("chains", ForwardNeverCut)

\* The provider answers the address a name is shown to have been updated to.
NameIsTrue == Of("names", UpdatedIsPublished)

\* What the rows ask for reaches the services, the kernel and the provider of
\* the name in the end, and what they no longer ask for leaves it.
RowsReachTheMachine ==
    /\ DnsIsNotFrozen /\ RowsReachChains /\ OffIsOff /\ QueueSettles
    /\ focus = "names" => NameReachesAddress

\* A change of address on trial is undone unless it was confirmed, and its row
\* goes only when it is one or the other.
TrialIsTracked == [][(Of("trial", UndoneUnlessConfirmed))' /\ TrackIsKept]_trialVars

\* The index of domains holds what the kernel has, and what it has not written
\* yet is carried by somebody.
DomainsAreCarried ==
    /\ Of("domains", MirrorIsRight) /\ Of("domains", PendingIsCarried)

\* A queue is what its row asks for or a lease says how to get there, a fault
\* on the interface has its lease, and what is another program's is left alone.
QueueIsAccounted ==
    /\ Of("queue", MidwayIsRecorded) /\ Of("queue", FaultHasLease) /\ Of("queue", ForeignIsKept)

\* What is put on trial, a change of address or a fault, does not stay there.
TrialsEnd == TrialEnds /\ FaultEnds

\* The open alerts end up being the ones that hold.
AlertsTellTheTruth == WrongIsShown /\ RightIsShown
=============================================================================
