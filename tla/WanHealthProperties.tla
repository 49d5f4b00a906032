------------------------- MODULE WanHealthProperties -------------------------
(***************************************************************************)
(* What links, their marks and their routes must do, whatever the order of *)
(* the checks, the callbacks, the boot and the administrator.              *)
(***************************************************************************)
EXTENDS WanHealth

\* No call has failed and nobody has opened a form since the process began.
Undisturbed == used.faults = 0 /\ used.edits = 0

\* The last n samples of l, at least, were of this kind.
Lately(l, kind, n) == streak[l].kind = kind /\ streak[l].n >= n

\* A verdict that says something the row did not say rests on an unbroken run of
\* samples of its own kind: no mixture of losses and timeouts takes a link
\* down or brings it back, across restarts and saved forms (linkState.advance).
VerdictNeedsEvidence ==
    [][\A l \in Links :
         check[l].pc = "probe" /\ check'[l].pc = "store"
           /\ check'[l].new \notin {check[l].prev, "unknown"}
           => \/ check'[l].new = "offline" /\ Lately(l, "down", FailThreshold)'
              \/ check'[l].new = "online" /\ Lately(l, "good", RecoverThreshold)'
              \/ check'[l].new = "degraded" /\ Lately(l, "degraded", Sustain)']_vars

\* One sustained alarm at most for each unbroken run of degraded samples, and
\* none before the run is long enough: an alarm resets connections.
OneAlarmPerEpisode ==
    \A l \in Links :
      /\ alarms[l] <= 1
      /\ check[l].pc = "alarm" => Lately(l, "degraded", Sustain)

\* Between checks the published marks are those of the links the database
\* calls usable: whichever callback, pass or link published last, the answer
\* is the same (wireCallbacks, Coordinator.Reconcile).
MarkFollowsStatus ==
    Undisturbed =>
      \A l \in Links : check[l] = Idle => (l \in intent <=> ready /\ Usable(row[l]))

\* The default route leaves a link's table only after its mark has been
\* withdrawn and the verdict stored, as long as nothing failed or was saved:
\* no new flow is marked into a table that is being emptied ("Na queda, tirar
\* a mark vem primeiro", wireCallbacks).
MarkLeavesBeforeRoute ==
    [][\A l \in route \ route' :
          Undisturbed => l \notin intent /\ row[l].status = "offline"]_vars

\* From some point on l stays enabled and every sample it gives is of a kind.
Settles(l, kind) ==
    /\ <>[](row[l].enabled)
    /\ <>[][check[l].pc = "probe" /\ check'[l].pc = "store"
             => streak'[l].kind = kind]_vars

\* A link that is down for good ends up offline in the database, and one that
\* is good for good online, whatever failed or was saved on the way; as long as
\* nothing was, its mark is withdrawn, and published once the gate is open.
LinksSettle ==
    \A l \in Links :
      /\ Settles(l, "down") => /\ <>[](row[l].status = "offline")
                               /\ []Undisturbed => <>[](l \notin intent)
      /\ Settles(l, "good") => /\ <>[](row[l].status = "online")
                               /\ []Undisturbed => <>[](l \in intent)

\* A mark is active only while the link's table has a route to send it to
\* ("Na recuperação, a ordem se inverte: a rota volta antes de a intenção ser
\* reabilitada", wireCallbacks).
MarkHasRoute ==
    Undisturbed /\ Resting => intent \subseteq route
=============================================================================
