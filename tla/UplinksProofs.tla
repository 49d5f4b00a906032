---------------------------- MODULE UplinksProofs ----------------------------
(***************************************************************************)
(* What holds of the balanced route and of the steering for every set of   *)
(* links, rows, calls and rules, and for every bound: the shape of their   *)
(* state, the weights of the plan, and, when an operator waits for one     *)
(* window before opening another, that no route stays that nobody kept.    *)
(***************************************************************************)
EXTENDS MCUplinks, FiniteNumbers

-----------------------------------------------------------------------------
(* The plan *)

Rows == [Links -> [status : Statuses, quality : Nat, gateway : Nat, weight : Nat]]
HopSet == UNION {[S -> NexthopShape] : S \in SUBSET Links}

LEMMA HopsAreHops == \A h : IsHops(h) <=> h \in HopSet
BY DEF IsHops, HopSet

\* Whatever the weights, the kernel is given one between 1 and 256.
LEMMA WeightInRange ==
    ASSUME NEW raw \in Nat, NEW maxRaw \in Nat
    PROVE  NormalizedWeight(raw, maxRaw) \in 1 .. MaxKernelWeight
<1>1. \A w \in Int : Clamped(w) \in 1 .. MaxKernelWeight
  BY DEF Clamped, MaxKernelWeight
<1>2. 1 \in 1 .. MaxKernelWeight
  BY DEF MaxKernelWeight
<1>3. CASE maxRaw > 0
  <2>1. raw * MaxKernelWeight + maxRaw \div 2 \in Int
    BY DEF MaxKernelWeight
  <2> DEFINE n == raw * MaxKernelWeight + maxRaw \div 2
  <2>2. n \in Int
    BY <2>1
  <2> HIDE DEF n
  <2>3. n \div maxRaw \in Int
    BY <1>3, <2>2
  <2> QED  BY <1>1, <1>3, <2>3 DEF NormalizedWeight, n
<1> QED  BY <1>2, <1>3 DEF NormalizedWeight

\* The largest weight of the links that carry weight, where there is one.
MaxRaw(rows, P) ==
    CHOOSE w \in {rows[l].weight : l \in P} : \A l \in P : rows[l].weight <= w

LEMMA MaxRawType ==
    ASSUME NEW rows \in Rows, NEW P \in SUBSET Links, P # {}, IsFiniteSet(P)
    PROVE  MaxRaw(rows, P) \in Nat
<1> DEFINE W == {rows[l].weight : l \in P}
<1>1. W \subseteq Nat /\ W # {}
  BY DEF Rows
<1>2. IsFiniteSet(W)
  <2> DEFINE f == [l \in P |-> rows[l].weight]
  <2>1. f \in Surjection(P, W)
    BY DEF Surjection
  <2> HIDE DEF f, W
  <2> QED  BY <2>1, FS_Surjection
<1>3. \E w \in W : \A v \in W : v <= w
  <2> HIDE DEF W
  <2> QED  BY <1>1, <1>2, FiniteMax
<1>4. \E w \in W : \A l \in P : rows[l].weight <= w
  BY <1>3
<1>5. MaxRaw(rows, P) \in W
  BY <1>4 DEF MaxRaw
<1> QED  BY <1>1, <1>5

LEMMA PlanShape ==
    ASSUME NEW rows \in Rows, NEW S \in SUBSET Links
    PROVE  SelectNexthops(rows, S) \in [S -> NexthopShape]
<1> DEFINE P == Primaries(rows, S)
           maxRaw == MaxRaw(rows, P)
           healthy == WithStatus(rows, S, "online")
           degraded == WithStatus(rows, S, "degraded")
<1>1. ASSUME NEW l \in S, l \in P
      PROVE  maxRaw \in Nat
  <2>1. IsFiniteSet(S)
    BY FS_Subset, BalancedRouteAssumption
  <2>2. P \in SUBSET S
    <3>1. CASE healthy # {}
      BY <3>1 DEF Primaries, WithStatus
    <3>2. CASE healthy = {} /\ degraded # {}
      BY <1>1, <3>2 DEF Primaries
    <3>3. CASE healthy = {} /\ degraded = {}
      BY <3>3 DEF Primaries
    <3> QED  BY <3>1, <3>2, <3>3
  <2> HIDE DEF P
  <2>3. IsFiniteSet(P) /\ P \in SUBSET Links /\ P # {}
    BY <1>1, <2>1, <2>2, FS_Subset
  <2> QED  BY <2>3, MaxRawType
<1>2. ASSUME NEW l \in S
      PROVE  /\ rows[l].gateway \in Nat
             /\ (IF l \in P THEN NormalizedWeight(rows[l].weight, maxRaw) ELSE 1) \in 1 .. MaxKernelWeight
  <2>1. rows[l].gateway \in Nat /\ rows[l].weight \in Nat
    BY DEF Rows
  <2>2. 1 \in 1 .. MaxKernelWeight
    BY DEF MaxKernelWeight
  <2> HIDE DEF P, maxRaw
  <2> QED  BY <1>1, <2>1, <2>2, WeightInRange
<1>3. SelectNexthops(rows, S) =
        [l \in S |-> [gateway |-> rows[l].gateway,
                      weight |-> IF l \in P THEN NormalizedWeight(rows[l].weight, maxRaw) ELSE 1]]
  BY DEF SelectNexthops, MaxRaw
<1> HIDE DEF P, maxRaw
<1> QED  BY <1>2, <1>3 DEF NexthopShape

\* With a healthy link in the plan, the others carry the least weight.
LEMMA PlanIsFair == row \in Rows => DegradedNeverOutweighs
<1> SUFFICES ASSUME row \in Rows, NEW S \in SUBSET Links
             PROVE  LET hops == SelectNexthops(row, S) IN
                    /\ DOMAIN hops = S
                    /\ \A l \in S : hops[l].weight \in 1..MaxKernelWeight
                    /\ \A l, m \in S : row[l].status = "online" /\ row[m].status # "online"
                                       => hops[m].weight <= hops[l].weight
  BY DEF DegradedNeverOutweighs
<1> DEFINE hops == SelectNexthops(row, S)
<1>1. hops \in [S -> NexthopShape]
  BY PlanShape
<1>2. ASSUME NEW l \in S, NEW m \in S, row[l].status = "online", row[m].status # "online"
      PROVE  hops[m].weight = 1
  <2>1. WithStatus(row, S, "online") # {} /\ m \notin WithStatus(row, S, "online")
    BY <1>2 DEF WithStatus
  <2>2. m \notin Primaries(row, S)
    BY <2>1 DEF Primaries
  <2> QED  BY <2>2 DEF SelectNexthops
<1> HIDE DEF hops
<1>3. \A l \in S : hops[l].weight \in 1 .. MaxKernelWeight
  BY <1>1 DEF NexthopShape
<1>4. ASSUME NEW l \in S, NEW m \in S, row[l].status = "online", row[m].status # "online"
      PROVE  hops[m].weight <= hops[l].weight
  BY <1>2, <1>3, <1>4
<1> QED  BY <1>1, <1>3, <1>4 DEF hops
-----------------------------------------------------------------------------
(* The shape of the balancer's state *)

RouteTags == Applies \cup {"rebuild", "boot", "nobody"}
RouteSet == [hops : HopSet \cup {IspHops}, by : RouteTags]
TimerSet == [state : {"off", "armed", "fired", "restoring"}, restore : RouteSet]
CallSet  == [at : {"idle", "plan", "capture", "exec", "sign", "cancel", "arm"},
             arm : BOOLEAN, hops : HopSet, restore : RouteSet]
BuilderSet == [at : {"idle", "look", "plan", "exec"}, hops : HopSet]
SpentSet == [changes : Nat, faults : Nat, restarts : Nat, applies : SUBSET Applies]

RouteShape ==
    /\ row \in Rows
    /\ nic \in [Links -> BOOLEAN]
    /\ mode \in {"balance", "failover"}
    /\ route \in RouteSet
    /\ lastSig \subseteq (Links \cup {NoLink}) \X Nat \X Nat
    /\ pending \in Applies \cup {NoApply}
    /\ rollback \in [Applies -> TimerSet]
    /\ call \in [Applies -> CallSet]
    /\ builder \in [Builders -> BuilderSet]
    /\ noWan \in BOOLEAN
    /\ lastHand \in {"rebuild", "operator"}
    /\ settled \subseteq Applies
    /\ spent \in SpentSet
    /\ \A b, c \in Builders : builder[b].at = "exec" /\ builder[c].at = "exec" => b = c

LEMMA EmptyHops == <<>> \in HopSet
<1>1. <<>> \in [{} -> NexthopShape]
  OBVIOUS
<1>2. {} \in SUBSET Links
  OBVIOUS
<1> QED  BY <1>1, <1>2 DEF HopSet

LEMMA RouteValues ==
    /\ NoRoute \in RouteSet /\ IspRoute \in RouteSet
    /\ NoTimer \in TimerSet /\ IdleCall \in CallSet /\ IdleBuilder \in BuilderSet
    /\ NoApply \notin Applies
<1>1. NoRoute \in RouteSet
  BY EmptyHops DEF NoRoute, RouteSet, RouteTags
<1>2. IspRoute \in RouteSet
  BY DEF IspRoute, RouteSet, RouteTags
<1>3. NoTimer \in TimerSet
  BY <1>1 DEF NoTimer, TimerSet
<1>4. IdleCall \in CallSet
  BY <1>1, EmptyHops DEF IdleCall, CallSet
<1>5. IdleBuilder \in BuilderSet
  BY EmptyHops DEF IdleBuilder, BuilderSet
<1> QED  BY <1>1, <1>2, <1>3, <1>4, <1>5, BalancedRouteAssumption DEF NoApply

\* A route in the kernel is written down as what it sends where.
LEMMA SignatureShape ==
    \A hops \in HopSet : RouteSignature(hops) \subseteq (Links \cup {NoLink}) \X Nat \X Nat
<1> SUFFICES ASSUME NEW hops \in HopSet
             PROVE  RouteSignature(hops) \subseteq (Links \cup {NoLink}) \X Nat \X Nat
  OBVIOUS
<1>1. PICK S \in SUBSET Links : hops \in [S -> NexthopShape]
  BY DEF HopSet
<1>2. \A l \in S : l \in Links /\ hops[l].gateway \in Nat /\ hops[l].weight \in Nat
  BY <1>1 DEF NexthopShape, MaxKernelWeight
<1> QED  BY <1>1, <1>2 DEF RouteSignature

LEMMA PlanIsHops ==
    ASSUME row \in Rows, NEW S \in UpSets
    PROVE  SelectNexthops(row, S) \in HopSet
<1>1. S \in SUBSET Links
  BY DEF UpSets
<1> QED  BY <1>1, PlanShape DEF HopSet

LEMMA RouteStarts == RouteInit => RouteShape
<1> SUFFICES ASSUME RouteInit PROVE RouteShape
  OBVIOUS
<1>1. row \in Rows
  BY BalancedRouteAssumption DEF RouteInit, Rows, Statuses
<1>2. spent \in SpentSet
  BY DEF RouteInit, SpentSet
<1>3. rollback \in [Applies -> TimerSet] /\ call \in [Applies -> CallSet] /\ builder \in [Builders -> BuilderSet]
  BY RouteValues DEF RouteInit
<1>4. \A b \in Builders : builder[b].at # "exec"
  BY DEF RouteInit, IdleBuilder
<1> QED  BY <1>1, <1>2, <1>3, <1>4, RouteValues DEF RouteInit, RouteShape, NoSig

\* The bounds that a fault or a change uses up.
LEMMA SpentStays ==
    ASSUME spent \in SpentSet
    PROVE  /\ Fault => spent' \in SpentSet
           /\ Change => spent' \in SpentSet
<1>1. \A n \in Nat : n + 1 \in Nat
  OBVIOUS
<1> QED  BY <1>1 DEF Fault, Change, SpentSet

\* One process goes on, the others stay where they are.
LEMMA CallMoves ==
    ASSUME RouteShape, NEW a \in Applies, NEW c \in CallSet, call' = [call EXCEPT ![a] = c]
    PROVE  call' \in [Applies -> CallSet] /\ call'[a] = c /\ \A b \in Applies \ {a} : call'[b] = call[b]
BY DEF RouteShape

LEMMA TimerMoves ==
    ASSUME RouteShape, NEW a \in Applies, NEW t \in TimerSet, rollback' = [rollback EXCEPT ![a] = t]
    PROVE  /\ rollback' \in [Applies -> TimerSet] /\ rollback'[a] = t
           /\ \A b \in Applies \ {a} : rollback'[b] = rollback[b]
BY DEF RouteShape

LEMMA BuilderMoves ==
    ASSUME RouteShape, NEW b \in Builders, NEW r \in BuilderSet, builder' = [builder EXCEPT ![b] = r],
           r.at = "exec" => LockFree
    PROVE  /\ builder' \in [Builders -> BuilderSet]
           /\ \A c, d \in Builders : builder'[c].at = "exec" /\ builder'[d].at = "exec" => c = d
BY DEF RouteShape, LockFree

LEMMA StoppedShape ==
    RouteShape => \A a \in Applies \cup {NoApply} : Stopped(a) \in [Applies -> TimerSet]
BY RouteValues DEF RouteShape, Stopped

LEMMA RouteShapeStep ==
    ASSUME RouteShape, [RouteNext]_routeVars
    PROVE  RouteShape'
<1> USE DEF RouteShape
<1>1. ASSUME NEW l \in Links, MonitorStores(l)
      PROVE  RouteShape'
  <2>1. row' \in Rows
    BY <1>1 DEF MonitorStores, Rows
  <2>2. builder' \in [Builders -> BuilderSet] /\ \A b \in Builders : builder'[b].at = "exec" => builder[b].at = "exec"
    BY <1>1 DEF MonitorStores, BuilderSet
  <2> QED  BY <1>1, <2>1, <2>2, SpentStays DEF MonitorStores
<1>2. ASSUME NEW l \in Links, InterfaceChanges(l)
      PROVE  RouteShape'
  BY <1>2, SpentStays DEF InterfaceChanges
<1>3. ASSUME NEW l \in Links, NEW e \in Edits, row' = [row EXCEPT ![l].gateway = e[1], ![l].weight = e[2]]
                                               \/ row' = [row EXCEPT ![l].weight = e[2]]
      PROVE  row' \in Rows
  <2>1. e[1] \in Nat /\ e[2] \in Nat
    BY BalancedRouteAssumption
  <2>2. row[l] \in [status : Statuses, quality : Nat, gateway : Nat, weight : Nat]
    BY DEF Rows
  <2>3. [[row[l] EXCEPT !.gateway = e[1]] EXCEPT !.weight = e[2]] \in [status : Statuses, quality : Nat, gateway : Nat, weight : Nat]
    BY <2>1, <2>2
  <2>4. [row[l] EXCEPT !.weight = e[2]] \in [status : Statuses, quality : Nat, gateway : Nat, weight : Nat]
    BY <2>1, <2>2
  <2> QED  BY <1>3, <2>3, <2>4 DEF Rows
<1>4. ASSUME NEW l \in Links, PanelEdits(l)
      PROVE  RouteShape'
  <2>1. row' \in Rows
    BY <1>3, <1>4 DEF PanelEdits
  <2> QED  BY <1>4, <2>1, SpentStays DEF PanelEdits
<1>5. ASSUME NEW l \in Links, ApplySchedule(l)
      PROVE  RouteShape'
  <2>1. row' \in Rows
    BY <1>3, <1>5 DEF ApplySchedule
  <2>2. builder' \in [Builders -> BuilderSet] /\ \A b \in Builders : builder'[b].at = "exec" => builder[b].at = "exec"
    BY <1>5 DEF ApplySchedule, BuilderSet
  <2> QED  BY <1>5, <2>1, <2>2, SpentStays DEF ApplySchedule
<1>6. CASE TickerFires
  <2>1. builder' \in [Builders -> BuilderSet] /\ \A b \in Builders : builder'[b].at = "exec" => builder[b].at = "exec"
    BY <1>6 DEF TickerFires, BuilderSet
  <2> QED  BY <1>6, <2>1 DEF TickerFires
<1>7. ASSUME NEW b \in Builders, RebuildLooks(b)
      PROVE  RouteShape'
  <2>1. builder' \in [Builders -> BuilderSet] /\ \A c \in Builders : builder'[c].at = "exec" => builder[c].at = "exec"
    BY <1>7 DEF RebuildLooks, BuilderSet
  <2> QED  BY <1>7, <2>1 DEF RebuildLooks
<1>8. ASSUME NEW n \in {0, 1}
      PROVE  [spent EXCEPT !.faults = @ + n] \in SpentSet
  <2>1. spent.faults \in Nat /\ spent.faults + n \in Nat
    BY DEF SpentSet
  <2> QED  BY <2>1 DEF SpentSet
<1>9. ASSUME NEW b \in Builders, RebuildPlans(b)
      PROVE  RouteShape'
  <2>1. PICK S \in UpSets :
          /\ spent' = [spent EXCEPT !.faults = @ + (IF S # {l \in Links : nic[l]} THEN 1 ELSE 0)]
          /\ \/ /\ S = {} /\ NoticeNoWan
                /\ builder' = [builder EXCEPT ![b] = IdleBuilder]
             \/ /\ noWan' = NoWanAfterPlan
                /\ builder' = [builder EXCEPT ![b] =
                     IF RouteSignature(SelectNexthops(row, S)) = lastSig THEN IdleBuilder
                     ELSE [at |-> "exec", hops |-> SelectNexthops(row, S)]]
                /\ UNCHANGED lastSig
    BY <1>9 DEF RebuildPlans
  <2>2. spent' \in SpentSet
    <3> DEFINE n == IF S # {l \in Links : nic[l]} THEN 1 ELSE 0
    <3>1. n \in {0, 1} /\ spent' = [spent EXCEPT !.faults = @ + n]
      BY <2>1
    <3> HIDE DEF n
    <3> QED  BY <1>8, <3>1
  <2>3. [at |-> "exec", hops |-> SelectNexthops(row, S)] \in BuilderSet
    BY PlanIsHops DEF BuilderSet
  <2>4. LockFree /\ UNCHANGED <<row, nic, mode, route, pending, rollback, call, lastHand, settled>>
    BY <1>9 DEF RebuildPlans
  <2>5. lastSig' \subseteq (Links \cup {NoLink}) \X Nat \X Nat /\ noWan' \in BOOLEAN
    <3>1. {<<NoLink, 0, 0>>} \subseteq (Links \cup {NoLink}) \X Nat \X Nat
      OBVIOUS
    <3>2. lastSig' = {<<NoLink, 0, 0>>} \/ lastSig' = lastSig
      BY <2>1 DEF NoticeNoWan, EmptySig
    <3>3. noWan' \in BOOLEAN
      BY Zenon, <2>1 DEF NoticeNoWan, NoWanAfterPlan
    <3> QED  BY <3>1, <3>2, <3>3
  <2>6. PICK r \in BuilderSet : builder' = [builder EXCEPT ![b] = r]
    BY <2>1, <2>3, RouteValues
  <2> QED  BY <2>2, <2>4, <2>5, <2>6, BuilderMoves
<1>10. ASSUME NEW b \in Builders, RebuildInstalls(b)
       PROVE  RouteShape'
  <2>1. /\ builder[b].hops \in HopSet /\ builder' = [builder EXCEPT ![b] = IdleBuilder]
        /\ UNCHANGED <<row, nic, mode, pending, rollback, call, noWan, settled>>
    BY <1>10 DEF RebuildInstalls, BuilderSet
  <2>2. IdleBuilder \in BuilderSet /\ IdleBuilder.at # "exec"
    BY RouteValues DEF IdleBuilder
  <2>3. /\ builder' \in [Builders -> BuilderSet]
        /\ \A c, d \in Builders : builder'[c].at = "exec" /\ builder'[d].at = "exec" => c = d
    BY <2>1, <2>2, BuilderMoves
  <2>4. [hops |-> builder[b].hops, by |-> "rebuild"] \in RouteSet
    BY <2>1 DEF RouteSet, RouteTags
  <2>5. RouteSignature(builder[b].hops) \subseteq (Links \cup {NoLink}) \X Nat \X Nat
    BY <2>1, SignatureShape
  <2> QED  BY <1>10, <2>1, <2>3, <2>4, <2>5, SpentStays DEF RebuildInstalls
<1>11. ASSUME NEW a \in Applies, NEW arm \in BOOLEAN, AskApply(a, arm)
       PROVE  call' \in [Applies -> CallSet] /\ spent' \in SpentSet
  <2>1. [IdleCall EXCEPT !.at = "plan", !.arm = arm] \in CallSet
    BY RouteValues DEF CallSet
  <2> QED  BY <1>11, <2>1 DEF AskApply, SpentSet
<1>12. ASSUME NEW a \in Applies, RequestApply(a)
       PROVE  RouteShape'
  BY <1>11, <1>12 DEF RequestApply
<1>13. ASSUME NEW a \in Applies, EnterBalance(a)
       PROVE  RouteShape'
  BY <1>11, <1>13 DEF EnterBalance
<1>14. ASSUME NEW a \in Applies, ApplyPlans(a)
       PROVE  RouteShape'
  <2>1. PICK S \in UpSets :
         /\ spent' = [spent EXCEPT !.faults = @ + (IF S # {l \in Links : nic[l]} THEN 1 ELSE 0)]
         /\ call' = [call EXCEPT ![a] =
              IF S = {} THEN IdleCall
              ELSE [@ EXCEPT !.at = "capture", !.hops = SelectNexthops(row, S)]]
    BY <1>14 DEF ApplyPlans
  <2>2. [call[a] EXCEPT !.at = "capture", !.hops = SelectNexthops(row, S)] \in CallSet
    BY PlanIsHops DEF CallSet
  <2>3. call' \in [Applies -> CallSet]
    BY <2>1, <2>2, RouteValues
  <2> QED  BY <1>8, <1>14, <2>1, <2>3 DEF ApplyPlans
<1>15. ASSUME NEW a \in Applies, ApplyCaptures(a)
       PROVE  RouteShape'
  <2>1. call' \in [Applies -> CallSet]
    BY <1>15 DEF ApplyCaptures, Captured, CallSet
  <2> QED  BY <1>15, <2>1, SpentStays DEF ApplyCaptures
<1>16. ASSUME NEW a \in Applies, ApplyInstalls(a)
       PROVE  RouteShape'
  <2>1. call' \in [Applies -> CallSet] /\ [hops |-> call[a].hops, by |-> a] \in RouteSet
    BY <1>16, RouteValues DEF ApplyInstalls, CallSet, RouteSet, RouteTags
  <2> QED  BY <1>16, <2>1, SpentStays DEF ApplyInstalls
<1>17. ASSUME NEW a \in Applies, ApplySigns(a)
       PROVE  RouteShape'
  <2>1. call' \in [Applies -> CallSet] /\ call[a].hops \in HopSet
    BY <1>17 DEF ApplySigns, CallSet
  <2> QED  BY <1>17, <2>1, SignatureShape DEF ApplySigns
<1>18. ASSUME NEW a \in Applies, ApplyCancels(a)
       PROVE  RouteShape'
  <2>1. call' \in [Applies -> CallSet]
    <3>1. [call[a] EXCEPT !.at = "arm"] \in CallSet
      BY DEF CallSet
    <3> QED  BY <1>18, <3>1, RouteValues DEF ApplyCancels
  <2>2. rollback' \in [Applies -> TimerSet]
    BY <1>18, StoppedShape DEF ApplyCancels
  <2> QED  BY <1>18, <2>1, <2>2 DEF ApplyCancels
<1>19. ASSUME NEW a \in Applies, ArmRollback(a)
       PROVE  RouteShape'
  <2>1. [state |-> "armed", restore |-> call[a].restore] \in TimerSet
    BY DEF CallSet, TimerSet
  <2> QED  BY <1>19, <2>1, RouteValues DEF ArmRollback
<1>20. CASE Confirm
  BY <1>20, StoppedShape DEF Confirm
<1>21. CASE Rollback
  <2>1. [state |-> "restoring", restore |-> rollback[pending].restore] \in TimerSet
    BY <1>21 DEF Rollback, TimerSet
  <2>2. Stopped(pending) \in [Applies -> TimerSet]
    BY StoppedShape
  <2> QED  BY <1>21, <2>1, <2>2 DEF Rollback
<1>22. ASSUME NEW a \in Applies, TimerFires(a)
       PROVE  RouteShape'
  <2>1. rollback' \in [Applies -> TimerSet]
    BY <1>22 DEF TimerFires, TimerSet
  <2> QED  BY <1>22, <2>1 DEF TimerFires
<1>23. ASSUME NEW a \in Applies, TimerTakes(a)
       PROVE  RouteShape'
  <2>1. [rollback[a] EXCEPT !.state = "restoring"] \in TimerSet
    BY DEF TimerSet
  <2>2. rollback' \in [Applies -> TimerSet]
    BY <1>23, <2>1, RouteValues DEF TimerTakes
  <2> QED  BY <1>23, <2>2 DEF TimerTakes
<1>24. ASSUME NEW a \in Applies, Restores(a)
       PROVE  RouteShape'
  <2>1. rollback' \in [Applies -> TimerSet] /\ rollback[a].restore \in RouteSet
    BY <1>24, RouteValues DEF Restores, TimerSet
  <2> QED  BY <1>24, <2>1, SpentStays DEF Restores
<1>25. CASE LeaveBalance
  BY <1>25, SpentStays DEF LeaveBalance
<1>26. CASE RouteRestart
  <2>1. spent' \in SpentSet
    BY <1>26 DEF RouteRestart, SpentSet
  <2>2. \A b \in Builders : builder'[b].at # "exec"
    BY <1>26 DEF RouteRestart, IdleBuilder
  <2> QED  BY <1>26, <2>1, <2>2, RouteValues DEF RouteRestart, NoSig
<1>27. CASE UNCHANGED routeVars
  BY <1>27 DEF routeVars
<1> QED
  BY <1>1, <1>2, <1>4, <1>5, <1>6, <1>7, <1>9, <1>10, <1>12, <1>13, <1>14, <1>15, <1>16, <1>17, <1>18,
     <1>19, <1>20, <1>21, <1>22, <1>23, <1>24, <1>25, <1>26, <1>27
     DEF RouteNext, RebuildStep, ApplyStep, TimerStep
-----------------------------------------------------------------------------
(* The shape of the steering's state *)

SteerShape ==
    /\ SteerTypeOK
    /\ ensure \in [Callers -> [at : {"idle", "rule", "check"}, steer : Steers \cup {NoSteer}]]

LEMMA SteerStarts == SteerInit => SteerShape
<1> SUFFICES ASSUME SteerInit PROVE SteerShape
  OBVIOUS
<1>1. rules \subseteq Steers /\ steerSpent \in 0 .. MaxSteerEvents
  BY SteerAssumption DEF SteerInit, Steers
<1>2. \A c \in Callers : ensure[c] = [at |-> "idle", steer |-> NoSteer]
  BY DEF SteerInit, IdleEnsure
<1>3. ensure \in [Callers -> [at : {"idle", "rule", "check"}, steer : Steers \cup {NoSteer}]]
  BY DEF SteerInit, IdleEnsure
<1>4. \A c \in Callers :
        /\ ensure[c].at \in {"idle", "rule", "check"}
        /\ ensure[c].steer \in Steers \cup {NoSteer}
        /\ ensure[c].at # "idle" => ensure[c].steer # NoSteer
  BY <1>2
<1>5. /\ steer \in Steers \cup {NoSteer} /\ known \subseteq Tables /\ pinned \subseteq Marks
      /\ steerAlert \in BOOLEAN
  BY DEF SteerInit
<1> QED  BY <1>1, <1>3, <1>4, <1>5 DEF SteerShape, SteerTypeOK

LEMMA SteerSpentStays ==
    ASSUME steerSpent \in 0 .. MaxSteerEvents
    PROVE  SteerEvent => steerSpent' \in 0 .. MaxSteerEvents
BY SteerAssumption DEF SteerEvent

LEMMA SteerShapeStep ==
    ASSUME SteerShape, [SteerNext]_steerVars
    PROVE  SteerShape'
<1> USE DEF SteerShape, SteerTypeOK
<1>1. ASSUME NEW c \in Callers, EnsureLoads(c)
      PROVE  SteerShape'
  <2>1. CASE steer = NoSteer
    BY <1>1, <2>1 DEF EnsureLoads
  <2>2. CASE steer # NoSteer
    <3>1. ensure' = [ensure EXCEPT ![c] = [at |-> "rule", steer |-> steer]]
      BY <1>1, <2>2 DEF EnsureLoads
    <3>2. ensure' \in [Callers -> [at : {"idle", "rule", "check"}, steer : Steers \cup {NoSteer}]]
      BY <3>1
    <3>3. \A d \in Callers : ensure'[d].at # "idle" => ensure'[d].steer # NoSteer
      BY <2>2, <3>1
    <3> QED  BY <1>1, <2>2, <3>2, <3>3 DEF EnsureLoads
  <2> QED  BY <2>1, <2>2
<1>2. ASSUME NEW c \in Callers, EnsureAddsRule(c)
      PROVE  SteerShape'
  <2>1. ensure[c].steer \in Steers
    BY <1>2 DEF EnsureAddsRule
  <2>2. rules' \subseteq Steers
    BY <1>2, <2>1 DEF EnsureAddsRule
  <2> QED  BY <1>2, <2>2, SteerSpentStays DEF EnsureAddsRule
<1>3. ASSUME NEW c \in Callers, EnsureChecks(c)
      PROVE  SteerShape'
  <2>1. steerAlert' \in BOOLEAN
    BY <1>3 DEF EnsureChecks, AlertAfter, RuleSeen
  <2> QED  BY <1>3, <2>1, SteerSpentStays DEF EnsureChecks, IdleEnsure
<1>4. CASE SaveSteer
  BY <1>4, SteerSpentStays DEF SaveSteer
<1>5. CASE RuleLost
  BY <1>5, SteerSpentStays DEF RuleLost
<1>6. CASE PinsChange
  BY <1>6, SteerSpentStays DEF PinsChange
<1>7. CASE TableAppears
  BY <1>7, SteerSpentStays DEF TableAppears
<1>8. CASE SteerRestart
  BY <1>8, SteerSpentStays DEF SteerRestart, IdleEnsure
<1>9. CASE UNCHANGED steerVars
  BY <1>9 DEF steerVars
<1> QED
  BY <1>1, <1>2, <1>3, <1>4, <1>5, <1>6, <1>7, <1>8, <1>9 DEF SteerNext, EnsureStep

-----------------------------------------------------------------------------
(* A behaviour follows one of the parts, the other one stays as it was. *)

LEMMA UplinksStart == Init => RouteInit /\ SteerInit
BY DEF Init, RouteParked, SteerParked

LEMMA UplinksStep == [Next]_vars => [RouteNext]_routeVars /\ [SteerNext]_steerVars
BY DEF Next, vars

LEMMA RouteKeepsShape == Spec => []RouteShape
<1>1. Init => RouteShape
  BY UplinksStart, RouteStarts
<1>2. RouteShape /\ [Next]_vars => RouteShape'
  BY UplinksStep, RouteShapeStep
<1> QED  BY <1>1, <1>2, PTL DEF Spec

LEMMA SteerKeepsShape == Spec => []SteerShape
<1>1. Init => SteerShape
  BY UplinksStart, SteerStarts
<1>2. SteerShape /\ [Next]_vars => SteerShape'
  BY UplinksStep, SteerShapeStep
<1> QED  BY <1>1, <1>2, PTL DEF Spec

LEMMA RouteShapeTypes == RouteShape => RouteTypeOK
<1> SUFFICES ASSUME RouteShape PROVE RouteTypeOK
  OBVIOUS
<1>1. \A r \in RouteSet : IsRoute(r)
  BY HopsAreHops DEF IsRoute, RouteSet, RouteTags
<1>2. \A a \in Applies :
        /\ rollback[a] \in TimerSet /\ call[a] \in CallSet
  BY DEF RouteShape
<1>3. \A a \in Applies :
        /\ rollback[a].state \in {"off", "armed", "fired", "restoring"}
        /\ call[a].at \in {"idle", "plan", "capture", "exec", "sign", "cancel", "arm"}
        /\ rollback[a].restore \in RouteSet /\ call[a].restore \in RouteSet /\ call[a].hops \in HopSet
  BY <1>2 DEF TimerSet, CallSet
<1>4. \A b \in Builders : builder[b].at \in {"idle", "look", "plan", "exec"} /\ builder[b].hops \in HopSet
  BY DEF RouteShape, BuilderSet
<1> QED  BY <1>1, <1>3, <1>4, HopsAreHops DEF RouteShape, RouteTypeOK, Rows

\* Rows, routes, timers, calls and rules keep their shape, and at most one
\* Rebuild is at its "ip route replace" (rebuildMu), whatever the schedule.
THEOREM UplinksTypeCorrect == Spec => []UplinksTypeOK
<1>1. RouteShape /\ SteerShape => UplinksTypeOK
  BY RouteShapeTypes DEF UplinksTypeOK, SteerShape
<1> QED  BY <1>1, RouteKeepsShape, SteerKeepsShape, PTL
-----------------------------------------------------------------------------
(* No route stays that nobody kept *)

\* An Apply whose call, window or timer is still to have its effect.
Active(a) == call[a].at # "idle" \/ rollback[a].state # "off" \/ pending = a

\* A route of an Apply that may still be taken back.
Undecided(r) == r.by \in Applies \ settled

\* What one Apply holds: a route to go back to that nobody has to take back,
\* and the means to go back as long as its own route is not kept.
ApplySafe(a) ==
    /\ ~ Undecided(call[a].restore) /\ ~ Undecided(rollback[a].restore)
    /\ call[a].at \in {"plan", "capture", "exec"} => ~ Undecided(route)
    /\ call[a].at # "idle" => rollback[a].state = "off" /\ pending = NoApply
    /\ route.by = a => a \in settled \/ Active(a)
    /\ pending = a => rollback[a].state \in {"armed", "fired"}
    /\ rollback[a].state = "armed" => pending = a
    /\ rollback[a].state = "fired" /\ pending = NoApply => a \in settled

OneActive == \A a, b \in Applies : Active(a) /\ Active(b) => a = b

RouteSafe == OneActive /\ \A a \in Applies : ApplySafe(a)

LEMMA RouteStartsSafe == RouteInit => RouteSafe
<1> SUFFICES ASSUME RouteInit PROVE RouteSafe
  OBVIOUS
<1>1. \A a \in Applies : call[a] = IdleCall /\ rollback[a] = NoTimer /\ pending # a
  BY RouteValues DEF RouteInit
<1>2. ~ Undecided(NoRoute)
  BY BalancedRouteAssumption DEF Undecided, NoRoute
<1>3. route.by \notin Applies
  BY BalancedRouteAssumption DEF RouteInit, IspRoute
<1> QED
  BY <1>1, <1>2, <1>3 DEF RouteSafe, OneActive, ApplySafe, Active, IdleCall, NoTimer, RouteInit

\* A step of one Apply leaves the others as safe as they were.
LEMMA OneMoves ==
    ASSUME RouteShape, RouteSafe, NEW a \in Applies,
           \A b \in Applies \ {a} : ~ Active(b) /\ call'[b] = call[b] /\ rollback'[b] = rollback[b],
           pending' \in {pending, a, NoApply},
           settled \subseteq settled',
           \A b \in Applies \ {a} : route'.by = b => b \in settled',
           ApplySafe(a)'
    PROVE  RouteSafe'
<1>1. ASSUME NEW b \in Applies \ {a}
      PROVE  call'[b].at = "idle" /\ rollback'[b].state = "off" /\ pending' # b
  BY RouteValues DEF Active
<1>2. ASSUME NEW b \in Applies \ {a}
      PROVE  ApplySafe(b)'
  <2>1. ~ Undecided(call[b].restore)' /\ ~ Undecided(rollback[b].restore)'
    BY DEF RouteSafe, ApplySafe, Undecided
  <2> QED  BY <1>1, <2>1 DEF ApplySafe
<1>3. OneActive'
  BY <1>1 DEF OneActive, Active
<1> QED  BY <1>2, <1>3 DEF RouteSafe

\* Where one Apply is active no other is, and no other is the one to undo.
LEMMA OthersRest ==
    ASSUME RouteShape, RouteSafe, NEW a \in Applies, Active(a)
    PROVE  \A b \in Applies \ {a} :
             /\ ~ Active(b) /\ (route.by = b => b \in settled) /\ pending # b
BY DEF RouteSafe, OneActive, ApplySafe, Active

LEMMA NothingMoves ==
    ASSUME RouteSafe, UNCHANGED <<call, rollback, pending, settled>>,
           route' = route \/ route'.by \notin Applies
    PROVE  RouteSafe'
<1>1. \A a \in Applies : Active(a)' <=> Active(a)
  BY DEF Active
<1>2. \A a \in Applies : /\ Undecided(call[a].restore)' <=> Undecided(call[a].restore)
                         /\ Undecided(rollback[a].restore)' <=> Undecided(rollback[a].restore)
  BY DEF Undecided
<1>3. Undecided(route)' => Undecided(route)
  BY DEF Undecided
<1>4. \A a \in Applies : ApplySafe(a)'
  BY <1>1, <1>2, <1>3 DEF RouteSafe, ApplySafe
<1> QED  BY <1>1, <1>4 DEF RouteSafe, OneActive

LEMMA ApplyAsked ==
    ASSUME RouteShape, RouteSafe, OneAtATime, NEW a \in Applies, NEW arm \in BOOLEAN, AskApply(a, arm),
           UNCHANGED <<rollback, pending, settled, route>>
    PROVE  RouteSafe'
<1>1. \A b \in Applies : ~ Active(b)
  BY RouteValues DEF AskApply, MayApply, Active
<1>2. ~ Undecided(route)
  BY <1>1 DEF RouteSafe, ApplySafe, Undecided
<1>3. [IdleCall EXCEPT !.at = "plan", !.arm = arm] \in CallSet
  BY RouteValues DEF CallSet
<1>4. /\ call'[a].at = "plan" /\ call'[a].restore = NoRoute
      /\ \A b \in Applies \ {a} : call'[b] = call[b]
  BY <1>3, CallMoves DEF AskApply, IdleCall
<1>5. ~ Undecided(NoRoute)'
  BY BalancedRouteAssumption DEF Undecided, NoRoute
<1>6. rollback[a].state = "off" /\ pending = NoApply
  BY DEF AskApply, MayApply
<1>7. ~ Undecided(rollback[a].restore)' /\ ~ Undecided(route)'
  BY <1>2 DEF RouteSafe, ApplySafe, Undecided
<1>8. ApplySafe(a)'
  BY <1>4, <1>5, <1>6, <1>7, RouteValues DEF ApplySafe, Active
<1>9. \A b \in Applies \ {a} : route'.by = b => b \in settled'
  BY <1>2 DEF Undecided
<1> QED
  BY <1>1, <1>4, <1>8, <1>9, OneMoves

\* A step of the Apply's own goroutine.
LEMMA CallGoesOn ==
    ASSUME RouteShape, RouteSafe, NEW a \in Applies, call[a].at # "idle",
           \A b \in Applies \ {a} : call'[b] = call[b],
           UNCHANGED <<rollback, pending, settled>>,
           route' = route \/ route'.by = a,
           \/ call'[a].restore \in {call[a].restore, NoRoute}
           \/ call'[a].restore = route /\ ~ Undecided(route),
           call'[a].at \in {"plan", "capture", "exec"} => route' = route /\ ~ Undecided(route),
           call'[a].at = "idle" => route' = route /\ ~ Undecided(route)
    PROVE  RouteSafe'
<1>1. Active(a)
  BY DEF Active
<1>2. rollback[a].state = "off" /\ pending = NoApply
  BY DEF RouteSafe, ApplySafe
<1>3. ~ Undecided(NoRoute)
  BY BalancedRouteAssumption DEF Undecided, NoRoute
<1>4. ~ Undecided(call'[a].restore)
  BY <1>3 DEF RouteSafe, ApplySafe
<1>5. ~ Undecided(call[a].restore)' /\ ~ Undecided(rollback[a].restore)'
  BY <1>4 DEF RouteSafe, ApplySafe, Undecided
<1>6. call'[a].at \in {"plan", "capture", "exec", "idle"} => ~ Undecided(route)'
  BY DEF Undecided
<1>7. ApplySafe(a)'
  <2>1. route'.by = a => a \in settled' \/ Active(a)'
    BY <1>6 DEF Active, Undecided
  <2> QED  BY <1>2, <1>5, <1>6, <2>1, RouteValues DEF ApplySafe
<1>8. \A b \in Applies \ {a} : route'.by = b => b \in settled'
  BY <1>1, OthersRest
<1> QED
  BY <1>1, <1>7, <1>8, OthersRest, OneMoves

LEMMA ApplyCancelsSafe ==
    ASSUME RouteShape, RouteSafe, NEW a \in Applies, ApplyCancels(a)
    PROVE  RouteSafe'
<1> DEFINE arms == call[a].arm /\ call[a].restore # NoRoute
<1>1. Active(a) /\ rollback[a].state = "off" /\ pending = NoApply
  BY DEF Active, ApplyCancels, RouteSafe, ApplySafe
<1>2. UNCHANGED <<rollback, pending, route>>
  BY <1>1 DEF ApplyCancels, Stopped
<1>3. settled' = (IF arms THEN settled ELSE settled \cup {a})
  BY DEF ApplyCancels
<1>4. PICK c \in CallSet :
        /\ call' = [call EXCEPT ![a] = c]
        /\ c.restore \in {call[a].restore, NoRoute}
        /\ c.at = IF arms THEN "arm" ELSE "idle"
  <2>1. [call[a] EXCEPT !.at = "arm"] \in CallSet
    BY DEF RouteShape, CallSet
  <2>2. [call[a] EXCEPT !.at = "arm"].at = "arm" /\ [call[a] EXCEPT !.at = "arm"].restore = call[a].restore
    BY DEF RouteShape, CallSet
  <2>3. IdleCall \in CallSet /\ IdleCall.restore = NoRoute /\ IdleCall.at = "idle"
    BY RouteValues DEF IdleCall
  <2>4. call' = [call EXCEPT ![a] = IF arms THEN [call[a] EXCEPT !.at = "arm"] ELSE IdleCall]
    BY DEF ApplyCancels, RouteShape
  <2> HIDE DEF arms
  <2> QED  BY <2>1, <2>2, <2>3, <2>4
<1> HIDE DEF arms
<1>5. call'[a] = c /\ \A b \in Applies \ {a} : call'[b] = call[b]
  BY <1>4, CallMoves
<1>6. settled \subseteq settled' /\ (~ arms => a \in settled')
  BY <1>3
<1>7. ~ Undecided(call[a].restore)' /\ ~ Undecided(rollback[a].restore)'
  <2>1. ~ Undecided(NoRoute)
    BY BalancedRouteAssumption DEF Undecided, NoRoute
  <2> QED  BY <1>2, <1>4, <1>5, <1>6, <2>1 DEF RouteSafe, ApplySafe, Undecided
<1>8. ApplySafe(a)'
  BY <1>1, <1>2, <1>4, <1>5, <1>6, <1>7, RouteValues DEF ApplySafe, Active
<1>9. \A b \in Applies \ {a} : route'.by = b => b \in settled'
  BY <1>1, <1>2, <1>6, OthersRest
<1> QED
  BY <1>1, <1>2, <1>5, <1>6, <1>8, <1>9, OthersRest, OneMoves

LEMMA ArmRollbackSafe ==
    ASSUME RouteShape, RouteSafe, NEW a \in Applies, ArmRollback(a)
    PROVE  RouteSafe'
<1>1. Active(a)
  BY DEF Active, ArmRollback
<1>2. call[a].restore \in RouteSet
  BY DEF RouteShape, CallSet
<1>3. /\ rollback'[a] = [state |-> "armed", restore |-> call[a].restore] /\ call'[a] = IdleCall
      /\ \A b \in Applies \ {a} : rollback'[b] = rollback[b] /\ call'[b] = call[b]
  BY DEF ArmRollback, RouteShape
<1>4. ~ Undecided(NoRoute)
  BY BalancedRouteAssumption DEF Undecided, NoRoute
<1>5. ~ Undecided(call[a].restore)' /\ ~ Undecided(rollback[a].restore)'
  BY <1>3, <1>4 DEF RouteSafe, ApplySafe, Undecided, IdleCall, ArmRollback
<1>6. ApplySafe(a)'
  BY <1>3, <1>5, RouteValues DEF ApplySafe, Active, ArmRollback, IdleCall
<1>7. \A b \in Applies \ {a} : route'.by = b => b \in settled'
  BY <1>1, OthersRest DEF ArmRollback
<1> QED
  BY <1>1, <1>3, <1>6, <1>7, OthersRest, OneMoves DEF ArmRollback

LEMMA ConfirmSafe ==
    ASSUME RouteShape, RouteSafe, Confirm
    PROVE  RouteSafe'
<1>0. PICK a \in Applies : a = pending
  BY RouteValues DEF Confirm, RouteShape
<1>1. Active(a) /\ rollback[a].state \in {"armed", "fired"} /\ call[a].at = "idle"
  BY <1>0, RouteValues DEF Confirm, RouteShape, RouteSafe, ApplySafe, Active
<1>2. /\ rollback'[a] \in {NoTimer, rollback[a]}
      /\ rollback[a].state = "armed" => rollback'[a] = NoTimer
      /\ \A b \in Applies \ {a} : rollback'[b] = rollback[b]
  BY <1>0, <1>1, RouteValues DEF Confirm, Stopped, RouteShape
<1>3. ~ Undecided(call[a].restore)' /\ ~ Undecided(rollback[a].restore)'
  <2>1. ~ Undecided(NoRoute)
    BY BalancedRouteAssumption DEF Undecided, NoRoute
  <2> QED  BY <1>0, <1>1, <1>2, <2>1 DEF Confirm, RouteSafe, ApplySafe, Undecided, NoTimer
<1>4. a \in settled' /\ settled \subseteq settled' /\ UNCHANGED <<call, route>> /\ pending' = NoApply
  BY <1>0 DEF Confirm
<1>5. rollback'[a].state \in {"off", "fired"}
  BY <1>0, <1>1, <1>2 DEF NoTimer
<1>6. ApplySafe(a)'
  BY <1>0, <1>1, <1>3, <1>4, <1>5, RouteValues DEF ApplySafe, Active
<1>7. \A b \in Applies \ {a} : route'.by = b => b \in settled'
  BY <1>0, <1>1, <1>4, OthersRest
<1> QED
  BY <1>0, <1>1, <1>2, <1>4, <1>6, <1>7, OthersRest, OneMoves

LEMMA RollbackSafe ==
    ASSUME RouteShape, RouteSafe, Rollback
    PROVE  RouteSafe'
<1>0. PICK a \in Applies : a = pending
  BY RouteValues DEF Rollback, RouteShape
<1>1. Active(a) /\ call[a].at = "idle"
  BY <1>0, RouteValues DEF Rollback, RouteShape, RouteSafe, ApplySafe, Active
<1>2. /\ rollback'[a] = [state |-> "restoring", restore |-> rollback[a].restore]
      /\ \A b \in Applies \ {a} : rollback'[b] = rollback[b]
  BY <1>0, <1>1, StoppedShape DEF Rollback, Stopped, RouteShape
<1>3. UNCHANGED <<call, route, settled>> /\ pending' = NoApply
  BY <1>0 DEF Rollback
<1>4. ~ Undecided(call[a].restore)' /\ ~ Undecided(rollback[a].restore)'
  BY <1>0, <1>1, <1>2, <1>3 DEF RouteSafe, ApplySafe, Undecided
<1>5. ApplySafe(a)'
  BY <1>0, <1>1, <1>2, <1>3, <1>4, RouteValues DEF ApplySafe, Active
<1>6. \A b \in Applies \ {a} : route'.by = b => b \in settled'
  BY <1>0, <1>1, <1>3, OthersRest
<1> QED
  BY <1>0, <1>1, <1>2, <1>3, <1>5, <1>6, OthersRest, OneMoves

LEMMA TimerFiresSafe ==
    ASSUME RouteShape, RouteSafe, NEW a \in Applies, TimerFires(a)
    PROVE  RouteSafe'
<1>1. Active(a) /\ pending = a /\ call[a].at = "idle"
  BY RouteValues DEF TimerFires, Active, RouteSafe, ApplySafe
<1>2. /\ rollback'[a].state = "fired" /\ rollback'[a].restore = rollback[a].restore
      /\ \A b \in Applies \ {a} : rollback'[b] = rollback[b]
  BY DEF TimerFires, RouteShape, TimerSet
<1>3. UNCHANGED <<call, route, settled, pending>>
  BY DEF TimerFires
<1>4. ~ Undecided(call[a].restore)' /\ ~ Undecided(rollback[a].restore)'
  BY <1>2, <1>3 DEF RouteSafe, ApplySafe, Undecided
<1>5. ApplySafe(a)'
  BY <1>1, <1>2, <1>3, <1>4, RouteValues DEF ApplySafe, Active
<1>6. \A b \in Applies \ {a} : route'.by = b => b \in settled'
  BY <1>1, <1>3, OthersRest
<1> QED
  BY <1>1, <1>2, <1>3, <1>5, <1>6, OthersRest, OneMoves

\* The window a timer takes is its own: with one window at a time no other
\* Apply can be pending by then.
LEMMA TimerTakesSafe ==
    ASSUME RouteShape, RouteSafe, NEW a \in Applies, TimerTakes(a)
    PROVE  RouteSafe'
<1>1. Active(a) /\ pending \in {a, NoApply} /\ call[a].at = "idle"
  BY RouteValues, OthersRest DEF TimerTakes, Active, RouteSafe, ApplySafe, RouteShape
<1>2. /\ \A b \in Applies \ {a} : rollback'[b] = rollback[b]
      /\ pending = NoApply => rollback'[a] = NoTimer /\ a \in settled
      /\ pending = a => rollback'[a].state = "restoring" /\ rollback'[a].restore = rollback[a].restore
  <2>1. a # NoApply
    BY RouteValues
  <2> QED  BY <2>1 DEF TimerTakes, RouteShape, TimerSet, RouteSafe, ApplySafe
<1>3. UNCHANGED <<call, route, settled>> /\ pending' = NoApply
  BY DEF TimerTakes
<1>4. ~ Undecided(call[a].restore)' /\ ~ Undecided(rollback[a].restore)'
  <2>1. ~ Undecided(NoRoute)
    BY BalancedRouteAssumption DEF Undecided, NoRoute
  <2> QED  BY <1>1, <1>2, <1>3, <2>1 DEF RouteSafe, ApplySafe, Undecided, NoTimer
<1>5. ApplySafe(a)'
  BY <1>1, <1>2, <1>3, <1>4, RouteValues DEF ApplySafe, Active, NoTimer
<1>6. \A b \in Applies \ {a} : route'.by = b => b \in settled'
  BY <1>1, <1>3, OthersRest
<1> QED
  BY <1>1, <1>2, <1>3, <1>5, <1>6, OthersRest, OneMoves

LEMMA RestoresSafe ==
    ASSUME RouteShape, RouteSafe, NEW a \in Applies, Restores(a)
    PROVE  RouteSafe'
<1>1. Active(a) /\ pending # a /\ call[a].at = "idle"
  BY RouteValues DEF Restores, Active, RouteSafe, ApplySafe
<1>2. rollback'[a] = NoTimer /\ \A b \in Applies \ {a} : rollback'[b] = rollback[b]
  BY DEF Restores, RouteShape
<1>3. /\ UNCHANGED <<call, pending>> /\ settled \subseteq settled'
      /\ \/ route' = rollback[a].restore /\ ~ Undecided(rollback[a].restore) /\ settled' = settled
         \/ route' = route /\ a \in settled'
  BY DEF Restores, RouteSafe, ApplySafe
<1>4. ~ Undecided(call[a].restore)' /\ ~ Undecided(rollback[a].restore)'
  <2>1. ~ Undecided(NoRoute)
    BY BalancedRouteAssumption DEF Undecided, NoRoute
  <2> QED  BY <1>2, <1>3, <2>1 DEF RouteSafe, ApplySafe, Undecided, NoTimer
<1>5. \A b \in Applies : route'.by = b => b \in settled'
  BY <1>1, <1>3, OthersRest DEF Undecided
<1>6. ApplySafe(a)'
  BY <1>1, <1>2, <1>3, <1>4, <1>5, RouteValues DEF ApplySafe, Active, NoTimer
<1> QED
  BY <1>1, <1>2, <1>3, <1>5, <1>6, OthersRest, OneMoves

LEMMA RouteRestartSafe ==
    ASSUME RouteShape, RouteRestart
    PROVE  RouteSafe'
<1>1. /\ settled' = Applies /\ pending' = NoApply
      /\ \A a \in Applies : call'[a].at = "idle" /\ rollback'[a].state = "off"
  BY DEF RouteRestart, IdleCall, NoTimer
<1>2. \A r : ~ Undecided(r)'
  BY <1>1 DEF Undecided
<1> QED  BY <1>1, <1>2, RouteValues DEF RouteSafe, OneActive, ApplySafe, Active

\* The invariant, step by step: one window at a time.
LEMMA RouteSafeStep ==
    ASSUME RouteShape, RouteSafe, OneAtATime, [RouteNext]_routeVars
    PROVE  RouteSafe'
<1>1. ASSUME NEW l \in Links, MonitorStores(l) \/ InterfaceChanges(l) \/ PanelEdits(l) \/ ApplySchedule(l)
      PROVE  RouteSafe'
  BY <1>1, NothingMoves DEF MonitorStores, InterfaceChanges, PanelEdits, ApplySchedule
<1>2. CASE TickerFires \/ LeaveBalance \/ UNCHANGED routeVars
  BY <1>2, NothingMoves DEF TickerFires, LeaveBalance, routeVars
<1>3. ASSUME NEW b \in Builders, RebuildStep(b)
      PROVE  RouteSafe'
  <2>1. UNCHANGED <<call, rollback, pending, settled>>
    BY <1>3 DEF RebuildStep, RebuildLooks, RebuildPlans, RebuildInstalls
  <2>2. route' = route \/ route'.by = "rebuild"
    BY <1>3 DEF RebuildStep, RebuildLooks, RebuildPlans, RebuildInstalls
  <2> QED  BY <2>1, <2>2, BalancedRouteAssumption, NothingMoves
<1>4. ASSUME NEW a \in Applies, RequestApply(a) \/ EnterBalance(a)
      PROVE  RouteSafe'
  BY <1>4, ApplyAsked DEF RequestApply, EnterBalance
<1>5. ASSUME NEW a \in Applies, ApplyPlans(a)
      PROVE  RouteSafe'
  <2>1. ~ Undecided(route) /\ call[a].at = "plan" /\ UNCHANGED <<rollback, pending, settled, route>>
    BY <1>5 DEF ApplyPlans, RouteSafe, ApplySafe
  <2>2. PICK c \in CallSet : /\ call' = [call EXCEPT ![a] = c]
                             /\ c.restore \in {call[a].restore, NoRoute}
    <3>1. PICK S \in UpSets :
            call' = [call EXCEPT ![a] = IF S = {} THEN IdleCall
                        ELSE [@ EXCEPT !.at = "capture", !.hops = SelectNexthops(row, S)]]
      BY <1>5 DEF ApplyPlans
    <3>2. /\ [call[a] EXCEPT !.at = "capture", !.hops = SelectNexthops(row, S)] \in CallSet
          /\ [call[a] EXCEPT !.at = "capture", !.hops = SelectNexthops(row, S)].restore = call[a].restore
      BY PlanIsHops DEF RouteShape, CallSet
    <3>3. IdleCall \in CallSet /\ IdleCall.restore = NoRoute
      BY RouteValues DEF IdleCall
    <3> QED  BY <3>1, <3>2, <3>3
  <2> QED  BY <2>1, <2>2, CallMoves, CallGoesOn
<1>6. ASSUME NEW a \in Applies, ApplyCaptures(a)
      PROVE  RouteSafe'
  <2>1. ~ Undecided(route) /\ call[a].at = "capture" /\ UNCHANGED <<rollback, pending, settled, route>>
    BY <1>6 DEF ApplyCaptures, RouteSafe, ApplySafe
  <2>2. /\ call'[a].restore \in {call[a].restore, route}
        /\ \A b \in Applies \ {a} : call'[b] = call[b]
    BY <1>6 DEF ApplyCaptures, Captured, RouteShape, CallSet
  <2> QED  BY <2>1, <2>2, CallGoesOn
<1>7. ASSUME NEW a \in Applies, ApplyInstalls(a)
      PROVE  RouteSafe'
  <2>1. ~ Undecided(route) /\ call[a].at = "exec" /\ UNCHANGED <<rollback, pending, settled>>
    BY <1>7 DEF ApplyInstalls, RouteSafe, ApplySafe
  <2>2. \A b \in Applies \ {a} : call'[b] = call[b]
    BY <1>7 DEF ApplyInstalls, RouteShape
  <2>3. \/ route'.by = a /\ call'[a].at = "sign" /\ call'[a].restore = call[a].restore
        \/ route' = route /\ call'[a].restore = NoRoute
    BY <1>7 DEF ApplyInstalls, RouteShape, CallSet, IdleCall
  <2> QED  BY <2>1, <2>2, <2>3, CallGoesOn
<1>8. ASSUME NEW a \in Applies, ApplySigns(a)
      PROVE  RouteSafe'
  <2>1. call[a].at # "idle" /\ UNCHANGED <<rollback, pending, settled>> /\ route' = route
    BY <1>8 DEF ApplySigns
  <2>2. \A b \in Applies \ {a} : call'[b] = call[b]
    BY <1>8 DEF ApplySigns, RouteShape
  <2>3. call'[a].at = "cancel" /\ call'[a].restore \in {call[a].restore, NoRoute}
    BY <1>8 DEF ApplySigns, RouteShape, CallSet
  <2>4. ~ (call'[a].at \in {"plan", "capture", "exec"}) /\ call'[a].at # "idle"
    BY <2>3
  <2> QED  BY <2>1, <2>2, <2>3, <2>4, CallGoesOn
<1>9. ASSUME NEW a \in Applies, ApplyStep(a)
      PROVE  RouteSafe'
  BY <1>5, <1>6, <1>7, <1>8, <1>9, ApplyCancelsSafe, ArmRollbackSafe DEF ApplyStep
<1>10. ASSUME NEW a \in Applies, TimerStep(a)
       PROVE  RouteSafe'
  BY <1>10, TimerFiresSafe, TimerTakesSafe, RestoresSafe DEF TimerStep
<1> QED
  BY <1>1, <1>2, <1>3, <1>4, <1>9, <1>10, ConfirmSafe, RollbackSafe, RouteRestartSafe DEF RouteNext

\* No plan gives a degraded link more than a healthy one beside it, and, as
\* long as an operator waits for one window before opening another, no route
\* stays of an Apply that was armed and never kept (balancer, package comment).
THEOREM RouteSound == ASSUME OneAtATime PROVE Spec => []RouteIsSound
<1>1. Init => RouteSafe
  BY UplinksStart, RouteStartsSafe
<1>2. RouteShape /\ RouteSafe /\ [Next]_vars => RouteSafe'
  BY UplinksStep, RouteSafeStep
<1>3. RouteShape /\ RouteSafe => RouteIsSound
  <2> SUFFICES ASSUME RouteShape, RouteSafe PROVE RouteIsSound
    OBVIOUS
  <2>1. DegradedNeverOutweighs
    BY PlanIsFair DEF RouteShape
  <2>2. ASSUME pending = NoApply, \A a \in Applies : call[a].at = "idle" /\ rollback[a].state = "off"
        PROVE  route.by \notin Applies \ settled
    BY <2>2, RouteValues DEF RouteSafe, ApplySafe, Active
  <2> QED  BY <2>1, <2>2 DEF RouteIsSound, UnconfirmedNeverStays
<1> QED  BY <1>1, <1>2, <1>3, RouteKeepsShape, PTL DEF Spec

=============================================================================
