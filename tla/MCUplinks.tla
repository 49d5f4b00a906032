------------------------------ MODULE MCUplinks ------------------------------
(* The parts that steer traffic between WANs, side by side. They share no   *)
(* state that this level of detail keeps, so that a behaviour follows one   *)
(* of them, named by focus, and the others stay parked at an initial state. *)
EXTENDS BalancedRoute, SteerRouting

VARIABLE focus

RouteParked ==
    /\ RouteInit
    /\ nic = [l \in Links |-> TRUE]

SteerParked == SteerInit /\ steer = NoSteer /\ known = {} /\ pinned = {}

MCInitLinks == {[l \in Links |-> [status |-> "online", quality |-> l, gateway |-> 1,
                                  weight |-> IF l = 1 THEN 3 ELSE 0]]}
MCEdits == {<<2, 1>>, <<1, 0>>}

Init ==
    \/ focus = "route" /\ RouteInit /\ SteerParked
    \/ focus = "steer" /\ SteerInit /\ RouteParked

Next ==
    \/ focus = "route" /\ RouteNext /\ UNCHANGED <<focus, steerVars>>
    \/ focus = "steer" /\ SteerNext /\ UNCHANGED <<focus, routeVars>>

vars == <<focus, routeVars, steerVars>>

\* The balancer's ticker ticks every 30 s, a Rebuild that waits for its mutex
\* gets it, a call that began runs to its end, an armed timer fires.
RouteFairness ==
    /\ WF_routeVars(focus = "route" /\ TickerFires)
    /\ \A b \in Builders : SF_routeVars(focus = "route" /\ RebuildStep(b))
    /\ \A a \in Applies : /\ SF_routeVars(focus = "route" /\ ApplyStep(a))
                         /\ WF_routeVars(focus = "route" /\ TimerStep(a))

\* The same ticker calls EnsureSteerRouting; the boot pass runs to its end.
SteerFairness ==
    /\ WF_steerVars(focus = "steer" /\ EnsureStep("ticker"))
    /\ WF_steerVars(focus = "steer" /\ (EnsureAddsRule("boot") \/ EnsureChecks("boot")))

Spec == Init /\ [][Next]_vars /\ RouteFairness /\ SteerFairness

\* Type invariant of the parts that steer traffic.
UplinksTypeOK == RouteTypeOK /\ SteerTypeOK

\* No plan prefers a worse link, and no route stays that nobody kept.
RouteIsSound == DegradedNeverOutweighs /\ UnconfirmedNeverStays

\* A window of the balanced route ends, the kernel comes to the plan once
\* nothing changes, and the alert that no WAN is left closes again.
RouteSettles == WindowEnds /\ RouteConverges /\ NoWanCloses

\* What steers traffic ends up as the rows ask, and the alerts as it is.
UplinksSettle == RouteSettles /\ SteerAlertTruthful
=============================================================================
