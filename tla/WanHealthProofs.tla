--------------------------- MODULE WanHealthProofs ---------------------------
(***************************************************************************)
(* What WanHealth guarantees for every set of links, all thresholds and    *)
(* every bound.                                                             *)
(***************************************************************************)
EXTENDS WanHealthProperties, TLAPS

-----------------------------------------------------------------------------
(* The state machine of one link *)

LEMMA UpToTyped ==
    ASSUME NEW threshold \in Nat \ {0}, NEW n \in 0 .. threshold
    PROVE  UpTo(n, threshold) \in 1 .. threshold
BY DEF UpTo

LEMMA MaxStreakBounds ==
    /\ MaxStreak \in Nat \ {0}
    /\ FailThreshold <= MaxStreak
    /\ RecoverThreshold <= MaxStreak
    /\ Sustain <= MaxStreak
<1> DEFINE T == {FailThreshold, RecoverThreshold, Sustain}
           largest == {n \in T : \A m \in T : m <= n}
<1>1. \E n \in T : n \in largest
  BY ThresholdAssumption
<1>2. MaxStreak \in largest
  BY <1>1 DEF MaxStreak
<1> QED  BY <1>2, ThresholdAssumption

LEMMA NoStateIsNone == NoState \notin LinkState
BY DEF NoState, LinkState, Stored, Statuses

LEMMA FreshTyped ==
    ASSUME NEW status \in Stored
    PROVE  FreshState(status) \in LinkState
BY ThresholdAssumption DEF FreshState, LinkState

LEMMA CountsTyped ==
    ASSUME NEW st \in LinkState, NEW sample \in Samples
    PROVE  /\ CountFails(st, sample) \in 0 .. FailThreshold
           /\ CountSuccesses(st, sample) \in 0 .. RecoverThreshold
           /\ CountDegraded(st, sample) \in 0 .. Sustain
BY ThresholdAssumption, UpToTyped DEF LinkState, CountFails, CountSuccesses,
       CountDegraded

\* What a sample makes of the state of a link.
LEMMA AdvanceTyped ==
    ASSUME NEW st \in LinkState, NEW sample \in Samples, NEW prev \in Stored
    PROVE  /\ Advance(st, sample, prev).state \in LinkState
           /\ Advance(st, sample, prev).status \in Statuses
           /\ Advance(st, sample, prev).fire \in BOOLEAN
           /\ Advance(st, sample, prev).state.last = Advance(st, sample, prev).status
<1> DEFINE fails == CountFails(st, sample)
           successes == CountSuccesses(st, sample)
           degraded == CountDegraded(st, sample)
           fire == degraded >= Sustain /\ ~ st.episodeFired
           status == CASE fails >= FailThreshold        -> "offline"
                       [] degraded >= Sustain           -> "degraded"
                       [] successes >= RecoverThreshold -> "online"
                       [] OTHER                         -> Kept(prev)
<1>1. status \in Statuses
  <2> HIDE DEF fails, successes, degraded
  <2> QED  BY DEF Kept, Stored, Statuses
<1>2. EpisodeFired(st, sample, fire) \in BOOLEAN
  BY DEF EpisodeFired, LinkState
<1> HIDE DEF status
<1>3. [fails |-> fails, successes |-> successes, degraded |-> degraded,
       episodeFired |-> EpisodeFired(st, sample, fire), last |-> status] \in LinkState
  BY <1>1, <1>2, CountsTyped DEF LinkState, Stored
<1> QED  BY <1>1, <1>3 DEF Advance, status

-----------------------------------------------------------------------------
(* Types *)

LEMMA IdleIsNoCheck == Idle \notin Check
BY DEF Idle, Check

\* The fields a check has depend on how far it is.
LEMMA CheckFields ==
    ASSUME TypeOK, NEW l \in Links
    PROVE  /\ check[l].pc \in {"store", "withdraw", "failover", "publish"}
                => check[l] \in [pc : {"store", "withdraw", "failover", "publish"},
                                old : Stored, new : Statuses, fire : BOOLEAN]
           /\ check[l].pc = "probe" => check[l] \in [pc : {"probe"}, prev : Stored]
           /\ check[l].pc = "alarm" => check[l] \in [pc : {"alarm"}]
           /\ check[l].pc = "idle" => check[l] = Idle
BY DEF TypeOK, Check, Idle

\* The steps that follow a stored verdict.
LEMMA NextCheckTyped ==
    ASSUME NEW c \in [pc : {"store", "withdraw", "failover", "publish"},
                      old : Stored, new : Statuses, fire : BOOLEAN]
    PROVE  /\ AfterChange(c) \in Check \union {Idle}
           /\ AfterStore(c) \in Check \union {Idle}
           /\ AfterFailover(c) \in Check \union {Idle}
           /\ [c EXCEPT !.pc = "failover"] \in Check
<1>1. AfterChange(c) \in Check \union {Idle}
  BY DEF AfterChange, Check
<1>2. [c EXCEPT !.pc = "failover"] \in Check
  BY DEF Check
<1>3. [c EXCEPT !.pc = "withdraw"] \in Check /\ [c EXCEPT !.pc = "publish"] \in Check
  BY DEF Check
<1>4. AfterStore(c) \in {AfterChange(c), [c EXCEPT !.pc = "withdraw"],
                         [c EXCEPT !.pc = "failover"]}
  BY DEF AfterStore
<1> QED  BY <1>1, <1>2, <1>3, <1>4 DEF AfterFailover

LEMMA FaultTyped ==
    ASSUME TypeOK, Fault
    PROVE  used' \in [edits : 0 .. MaxEdits, restarts : 0 .. MaxRestarts,
                      passes : 0 .. MaxPasses, faults : 0 .. MaxFaults]
BY BoundAssumption DEF TypeOK, Fault

LEMMA ReconciledTyped ==
    ASSUME NEW rows, NEW open
    PROVE  Reconciled(rows, open) \in SUBSET Links
BY DEF Reconciled

LEMMA InitTyped == Init => TypeOK
<1> SUFFICES ASSUME Init PROVE TypeOK
  OBVIOUS
<1> USE MaxStreakBounds, BoundAssumption
<1>1. row \in [Links -> Row]
  BY DEF Init, Row, Stored
<1>2. /\ memory \in [Links -> LinkState \union {NoState}]
      /\ check \in [Links -> Check \union {Idle}]
  BY DEF Init
<1>3. boot \in Boot
  BY DEF Init, Boot
<1>4. streak \in [Links -> [kind : Samples \union {"none"}, n : 0 .. MaxStreak]]
  BY DEF Init, NoSample
<1>5. used \in [edits : 0 .. MaxEdits, restarts : 0 .. MaxRestarts,
               passes : 0 .. MaxPasses, faults : 0 .. MaxFaults]
  BY DEF Init
<1>6. alarms \in [Links -> 0 .. 2] /\ form \in Form \union {Idle}
  BY DEF Init
<1>7. /\ route \in SUBSET Links /\ intent \in SUBSET Links
      /\ cooling \in SUBSET Links /\ ready \in BOOLEAN
  BY DEF Init
<1> QED  BY <1>1, <1>2, <1>3, <1>4, <1>5, <1>6, <1>7 DEF TypeOK

LEMMA ProbeTyped ==
    ASSUME TypeOK, NEW l \in Links, NEW sample \in Samples, Probe(l, sample)
    PROVE  TypeOK'
<1> DEFINE st == IF memory[l] = NoState THEN FreshState(check[l].prev) ELSE memory[l]
           adv == Advance(st, sample, check[l].prev)
<1>1. check[l].prev \in Stored
  BY CheckFields DEF Probe
<1>2. st \in LinkState
  BY <1>1, FreshTyped DEF TypeOK
<1>3. /\ adv.state \in LinkState
      /\ adv.status \in Statuses
      /\ adv.fire \in BOOLEAN
  BY <1>1, <1>2, AdvanceTyped
<1> HIDE DEF adv
<1>4. memory' \in [Links -> LinkState \union {NoState}]
  BY <1>3 DEF Probe, TypeOK, adv, st
<1>5. [pc |-> "store", old |-> st.last, new |-> adv.status, fire |-> adv.fire] \in Check
  <2>1. st.last \in Stored
    BY <1>2 DEF LinkState
  <2> QED  BY <2>1, <1>3 DEF Check
<1>6. check' \in [Links -> Check \union {Idle}]
  BY <1>5 DEF Probe, TypeOK, adv, st
<1>7. streak' \in [Links -> [kind : Samples \union {"none"}, n : 0 .. MaxStreak]]
  <2>1. UpTo(streak[l].n, MaxStreak) \in 1 .. MaxStreak
    BY UpToTyped, MaxStreakBounds DEF TypeOK
  <2> QED  BY <2>1, MaxStreakBounds DEF Probe, TypeOK
<1>8. alarms' \in [Links -> 0 .. 2]
  BY DEF Probe, TypeOK
<1> QED  BY <1>4, <1>6, <1>7, <1>8 DEF Probe, TypeOK

LEMMA CheckStepTyped ==
    ASSUME TypeOK, NEW l \in Links, CheckStep(l)
    PROVE  TypeOK'
<1>1. ASSUME NEW sample \in Samples, Probe(l, sample) PROVE TypeOK'
  BY <1>1, ProbeTyped
<1>2. CASE Store(l)
  <2>1. check[l].new \in Statuses /\ AfterStore(check[l]) \in Check \union {Idle}
    BY <1>2, CheckFields, NextCheckTyped DEF Store
  <2>2. row[l] \in Row
    BY DEF TypeOK
  <2>3. WithVerdict(row[l], check[l]) \in Row
    BY <2>1, <2>2 DEF WithVerdict, Row, Stored
  <2> QED  BY <1>2, <2>1, <2>3 DEF Store, TypeOK
<1>3. CASE StoreFails(l)
  BY <1>3, FaultTyped DEF StoreFails, TypeOK
<1>4. CASE Withdraw(l)
  <2>1. [check[l] EXCEPT !.pc = "failover"] \in Check
    BY <1>4, CheckFields, NextCheckTyped DEF Withdraw
  <2> QED  BY <1>4, <2>1, ReconciledTyped DEF Withdraw, Reconcile, TypeOK
<1>5. CASE WithdrawFails(l)
  <2>1. [check[l] EXCEPT !.pc = "failover"] \in Check
    BY <1>5, CheckFields, NextCheckTyped DEF WithdrawFails
  <2> QED  BY <1>5, <2>1, FaultTyped DEF WithdrawFails, TypeOK
<1>6. ASSUME check[l].pc = "failover" PROVE AfterFailover(check[l]) \in Check \union {Idle}
  BY <1>6, CheckFields, NextCheckTyped
<1>7. CASE FailoverSkipped(l)
  BY <1>7, <1>6 DEF FailoverSkipped, TypeOK
<1>8. CASE Failover(l)
  <2>1. route' \in SUBSET Links
    BY <1>8 DEF Failover, TypeOK
  <2> QED  BY <1>8, <1>6, <2>1 DEF Failover, TypeOK
<1>9. CASE FailoverFails(l)
  BY <1>9, <1>6, FaultTyped DEF FailoverFails, TypeOK
<1>10. ASSUME check[l].pc = "publish" PROVE AfterChange(check[l]) \in Check \union {Idle}
  BY <1>10, CheckFields, NextCheckTyped
<1>11. CASE Publish(l)
  BY <1>11, <1>10, ReconciledTyped DEF Publish, Reconcile, TypeOK
<1>12. CASE PublishFails(l)
  BY <1>12, <1>10, FaultTyped DEF PublishFails, TypeOK
<1>13. CASE Alarm(l)
  BY <1>13 DEF Alarm, TypeOK, UpTo
<1> QED
  BY <1>1, <1>2, <1>3, <1>4, <1>5, <1>7, <1>8, <1>9, <1>11, <1>12, <1>13 DEF CheckStep

LEMMA StepTyped == TypeOK /\ [Next]_vars => TypeOK'
<1> SUFFICES ASSUME TypeOK, [Next]_vars PROVE TypeOK'
  OBVIOUS
<1> USE BoundAssumption
<1>1. CASE Tick
  BY <1>1 DEF Tick, TypeOK, Check, Row
<1>2. ASSUME NEW l \in Links, CheckStep(l) PROVE TypeOK'
  BY <1>2, CheckStepTyped
<1>3. ASSUME NEW l \in Links, CooldownEnds(l) PROVE TypeOK'
  BY <1>3 DEF CooldownEnds, TypeOK
<1>4. ASSUME NEW l \in Links, OpenForm(l) PROVE TypeOK'
  <2>1. [pc |-> "open", link |-> l, row |-> row[l]] \in Form
    BY DEF Form, TypeOK
  <2> QED  BY <1>4, <2>1 DEF OpenForm, TypeOK
<1>5. CASE BootStep
  <2>1. CASE BootLoad
    BY <1>5, <2>1 DEF BootLoad, TypeOK, Boot, Enabled
  <2>2. CASE BootRoutes
    <3>1. boot.links \in SUBSET Links
      BY <2>2 DEF BootRoutes, TypeOK, Boot
    <3>2. [pc |-> "prepare"] \in Boot
      BY DEF Boot
    <3> QED  BY <2>2, <3>1, <3>2 DEF BootRoutes, TypeOK
  <2> [pc |-> "done"] \in Boot
    BY DEF Boot
  <2>3. CASE BootPrepare
    BY <2>3, ReconciledTyped DEF BootPrepare, TypeOK
  <2>4. CASE BootHolds
    BY <2>4, ReconciledTyped DEF BootHolds, TypeOK
  <2>5. CASE BootPublishFails
    BY <2>5, FaultTyped DEF BootPublishFails, TypeOK
  <2>6. CASE BootFails
    <3>1. [pc |-> "hold"] \in Boot
      BY DEF Boot
    <3>2. route' \in SUBSET Links
      BY <2>6 DEF BootFails, TypeOK, Boot
    <3> QED  BY <2>6, <3>1, <3>2, FaultTyped DEF BootFails, TypeOK
  <2> QED  BY <1>5, <2>1, <2>2, <2>3, <2>4, <2>5, <2>6 DEF BootStep
<1>6. [pc |-> "load"] \in Boot
  BY DEF Boot
<1>7. CASE BootAgain
  BY <1>6, <1>7 DEF BootAgain, TypeOK
<1>8. ASSUME NEW enabled \in BOOLEAN, NEW status \in Stored, SaveForm(enabled, status)
      PROVE  TypeOK'
  <2>1. [pc |-> "routes"] \in Form
    BY DEF Form
  <2>2. [enabled |-> enabled, status |-> status] \in Row
    BY DEF Row
  <2> QED  BY <1>8, <2>1, <2>2 DEF SaveForm, TypeOK
<1>9. CASE FormStep
  <2>1. [pc |-> "publish"] \in Form
    BY DEF Form
  <2>2. ASSUME FormRoutes \/ FormPublish PROVE TypeOK'
    BY <2>1, <2>2, ReconciledTyped DEF FormRoutes, FormPublish, Reconcile, Enabled,
           TypeOK
  <2>3. CASE FormRoutesFail
    <3>1. route' \in SUBSET Links
      BY <2>3 DEF FormRoutesFail, Enabled, TypeOK
    <3> QED  BY <2>1, <2>3, <3>1, FaultTyped DEF FormRoutesFail, TypeOK
  <2>4. CASE FormPublishFails
    BY <2>4, FaultTyped DEF FormPublishFails, TypeOK
  <2> QED  BY <1>9, <2>2, <2>3, <2>4 DEF FormStep
<1>10. CASE Restart
  <2>1. form' \in Form \union {Idle}
    BY <1>10 DEF Restart, TypeOK
  <2>2. streak' \in [Links -> [kind : Samples \union {"none"}, n : 0 .. MaxStreak]]
    BY <1>10, MaxStreakBounds DEF Restart, NoSample
  <2>3. /\ memory' \in [Links -> LinkState \union {NoState}]
        /\ check' \in [Links -> Check \union {Idle}]
        /\ alarms' \in [Links -> 0 .. 2]
    BY <1>10 DEF Restart
  <2>4. used' \in [edits : 0 .. MaxEdits, restarts : 0 .. MaxRestarts,
                   passes : 0 .. MaxPasses, faults : 0 .. MaxFaults]
    BY <1>10 DEF Restart, TypeOK
  <2>5. /\ row' \in [Links -> Row] /\ boot' \in Boot
        /\ route' \in SUBSET Links /\ intent' \in SUBSET Links
        /\ cooling' \in SUBSET Links /\ ready' \in BOOLEAN
    BY <1>6, <1>10 DEF Restart, TypeOK
  <2> QED  BY <2>1, <2>2, <2>3, <2>4, <2>5 DEF TypeOK
<1>11. CASE UNCHANGED vars
  BY <1>11 DEF vars, TypeOK
<1>12. CASE TargetsChange
  BY <1>12, ReconciledTyped DEF TargetsChange, Reconcile, TypeOK
<1>13. CASE SaveFails
  BY <1>13, FaultTyped DEF SaveFails, TypeOK
<1> QED
  BY <1>1, <1>2, <1>3, <1>4, <1>5, <1>7, <1>8, <1>9, <1>10, <1>11, <1>12, <1>13
     DEF Next

-----------------------------------------------------------------------------
(* The inductive invariant.                                                *)

\* The counters of a link count what was sampled: a counter that is not zero
\* is the tail of the last run.
Backed(st, run) ==
    /\ st.fails > 0 => run.kind = "down" /\ run.n >= st.fails
    /\ st.successes > 0 => run.kind = "good" /\ run.n >= st.successes
    /\ st.degraded > 0 => run.kind = "degraded" /\ run.n >= st.degraded

EvidenceInv == \A l \in Links : memory[l] # NoState => Backed(memory[l], streak[l])

\* An alarm is on its way.
Raised(c) ==
    c.pc = "alarm" \/ (c.pc \in {"store", "withdraw", "failover", "publish"} /\ c.fire)

\* An alarm that is on its way is the first of an episode that has lasted, and
\* the episode remembers both it and the one that was given.
AlarmInv ==
    \A l \in Links :
      /\ Raised(check[l]) \/ alarms[l] > 0
           => /\ memory[l] # NoState
              /\ memory[l].episodeFired
              /\ Lately(l, "degraded", Sustain)
      /\ Raised(check[l]) => alarms[l] = 0
      /\ alarms[l] <= 1

\* What one link's check, its row, its memory and its mark have to do with
\* each other while nothing has failed and no form was opened.
InStep(l) ==
    /\ check[l].pc \in {"idle", "probe", "store", "alarm"}
         => (l \in intent <=> ready /\ Usable(row[l]))
    /\ check[l].pc = "withdraw" => check[l].new = "offline"
    /\ check[l].pc \in {"withdraw", "failover"} /\ check[l].new = "offline"
         => row[l].status = "offline"
    /\ check[l].pc = "failover" /\ check[l].new = "offline" => l \notin intent
    /\ check[l].pc = "probe" => check[l].prev = row[l].status
    /\ check[l].pc = "store"
         => /\ check[l].old = row[l].status
            /\ memory[l] # NoState
            /\ memory[l].last = check[l].new
    /\ check[l].pc # "store" /\ memory[l] # NoState
         => memory[l].last = row[l].status

MarkInv ==
    /\ form # Idle => used.edits > 0
    /\ Undisturbed => \A l \in Links : InStep(l)

-----------------------------------------------------------------------------
(* A sample and the evidence it leaves *)

NextRun(run, sample) ==
    [kind |-> sample,
     n |-> IF run.kind = sample THEN UpTo(run.n, MaxStreak) ELSE 1]

LEMMA AdvanceFields ==
    ASSUME NEW st \in LinkState, NEW sample \in Samples, NEW prev \in Stored
    PROVE  LET adv == Advance(st, sample, prev)
           IN  /\ adv.state.fails = CountFails(st, sample)
               /\ adv.state.successes = CountSuccesses(st, sample)
               /\ adv.state.degraded = CountDegraded(st, sample)
               /\ adv.fire = (CountDegraded(st, sample) >= Sustain /\ ~st.episodeFired)
               /\ adv.state.episodeFired = EpisodeFired(st, sample, adv.fire)
               /\ adv.state.last = adv.status
BY DEF Advance

\* The counters stay behind the run they count.
LEMMA AdvanceBacked ==
    ASSUME NEW st \in LinkState, NEW sample \in Samples, NEW prev \in Stored,
           NEW run \in [kind : Samples \union {"none"}, n : 0 .. MaxStreak],
           Backed(st, run)
    PROVE  Backed(Advance(st, sample, prev).state, NextRun(run, sample))
<1> DEFINE next == Advance(st, sample, prev).state
<1>1. /\ next.fails = CountFails(st, sample)
      /\ next.successes = CountSuccesses(st, sample)
      /\ next.degraded = CountDegraded(st, sample)
  BY AdvanceFields
<1> HIDE DEF next
<1>2. /\ st.fails \in 0 .. FailThreshold
      /\ st.successes \in 0 .. RecoverThreshold
      /\ st.degraded \in 0 .. Sustain
      /\ run.n \in 0 .. MaxStreak
  BY DEF LinkState
<1>3. NextRun(run, sample).kind = sample
  BY DEF NextRun
<1>4. NextRun(run, sample).n = IF run.kind = sample THEN UpTo(run.n, MaxStreak) ELSE 1
  BY DEF NextRun
<1> USE ThresholdAssumption, MaxStreakBounds
<1>5. CASE sample = "down"
  <2>1. /\ next.successes = 0 /\ next.degraded = 0
        /\ next.fails = UpTo(st.fails, FailThreshold)
    BY <1>1, <1>5 DEF CountFails, CountSuccesses, CountDegraded
  <2> QED  BY <1>2, <1>3, <1>4, <1>5, <2>1 DEF Backed, UpTo, next
<1>6. CASE sample = "good"
  <2>1. /\ next.fails = 0 /\ next.degraded = 0
        /\ next.successes = UpTo(st.successes, RecoverThreshold)
    BY <1>1, <1>6 DEF CountFails, CountSuccesses, CountDegraded
  <2> QED  BY <1>2, <1>3, <1>4, <1>6, <2>1 DEF Backed, UpTo, next
<1>7. CASE sample = "degraded"
  <2>1. /\ next.fails = 0 /\ next.successes = 0
        /\ next.degraded = UpTo(st.degraded, Sustain)
    BY <1>1, <1>7 DEF CountFails, CountSuccesses, CountDegraded
  <2> QED  BY <1>2, <1>3, <1>4, <1>7, <2>1 DEF Backed, UpTo, next
<1> QED  BY <1>5, <1>6, <1>7 DEF Samples

\* A verdict other than the status that was there has met its threshold.
LEMMA AdvanceVerdict ==
    ASSUME NEW st \in LinkState, NEW sample \in Samples, NEW prev \in Stored,
           Advance(st, sample, prev).status \notin {prev, "unknown"}
    PROVE  LET adv == Advance(st, sample, prev)
           IN  \/ adv.status = "offline" /\ adv.state.fails >= FailThreshold
               \/ adv.status = "online" /\ adv.state.successes >= RecoverThreshold
               \/ adv.status = "degraded" /\ adv.state.degraded >= Sustain
<1> DEFINE fails == CountFails(st, sample)
           successes == CountSuccesses(st, sample)
           degraded == CountDegraded(st, sample)
           status == CASE fails >= FailThreshold        -> "offline"
                       [] degraded >= Sustain           -> "degraded"
                       [] successes >= RecoverThreshold -> "online"
                       [] OTHER                         -> Kept(prev)
<1>1. Advance(st, sample, prev).status = status
  BY DEF Advance
<1>2. status \notin {prev, "unknown"}
  BY <1>1
<1>3. \/ status = "offline" /\ fails >= FailThreshold
      \/ status = "online" /\ successes >= RecoverThreshold
      \/ status = "degraded" /\ degraded >= Sustain
  <2> HIDE DEF fails, successes, degraded
  <2>1. CASE ~(fails >= FailThreshold \/ degraded >= Sustain
                 \/ successes >= RecoverThreshold)
    <3>1. status = Kept(prev)
      BY <2>1
    <3> QED  BY <1>2, <3>1 DEF Kept
  <2>2. CASE fails >= FailThreshold \/ degraded >= Sustain
               \/ successes >= RecoverThreshold
    BY <2>2
  <2> QED  BY <2>1, <2>2
<1> HIDE DEF status
<1> QED  BY <1>1, <1>3, AdvanceFields

\* An alarm is raised by the sample that makes the episode last, once.
LEMMA AdvanceAlarm ==
    ASSUME NEW st \in LinkState, NEW sample \in Samples, NEW prev \in Stored
    PROVE  LET adv == Advance(st, sample, prev)
           IN  /\ adv.fire => /\ sample = "degraded"
                              /\ ~st.episodeFired
                              /\ adv.state.episodeFired
                              /\ adv.state.degraded >= Sustain
               /\ sample = "degraded" /\ st.episodeFired => adv.state.episodeFired
<1> DEFINE adv == Advance(st, sample, prev)
<1>1. CountDegraded(st, sample) >= Sustain => sample = "degraded"
  BY ThresholdAssumption DEF CountDegraded
<1>2. /\ adv.fire <=> CountDegraded(st, sample) >= Sustain /\ ~st.episodeFired
      /\ adv.state.episodeFired <=> adv.fire \/ (st.episodeFired /\ sample = "degraded")
      /\ adv.state.degraded = CountDegraded(st, sample)
  <2>1. adv.fire <=> CountDegraded(st, sample) >= Sustain /\ ~st.episodeFired
    BY DEF Advance
  <2>2. adv.state.episodeFired <=> EpisodeFired(st, sample, adv.fire)
    BY DEF Advance
  <2>3. adv.state.degraded = CountDegraded(st, sample)
    BY DEF Advance
  <2> HIDE DEF adv
  <2> QED  BY <2>1, <2>2, <2>3 DEF EpisodeFired
<1> HIDE DEF adv
<1>3. /\ adv.fire => /\ sample = "degraded"
                     /\ ~st.episodeFired
                     /\ adv.state.episodeFired
                     /\ adv.state.degraded >= Sustain
      /\ sample = "degraded" /\ st.episodeFired => adv.state.episodeFired
  BY <1>1, <1>2
<1> QED  BY <1>3 DEF adv

\* The state a check's sample is applied to.
Before(l) == IF memory[l] = NoState THEN FreshState(check[l].prev) ELSE memory[l]

LEMMA ProbeEffect ==
    ASSUME TypeOK, NEW l \in Links, NEW sample \in Samples, Probe(l, sample)
    PROVE  /\ Before(l) \in LinkState
           /\ check[l].prev \in Stored
           /\ memory' = [memory EXCEPT ![l] =
                            Advance(Before(l), sample, check[l].prev).state]
           /\ check' = [check EXCEPT ![l] =
                 [pc |-> "store", old |-> Before(l).last,
                  new |-> Advance(Before(l), sample, check[l].prev).status,
                  fire |-> Advance(Before(l), sample, check[l].prev).fire]]
           /\ streak' = [streak EXCEPT ![l] = NextRun(streak[l], sample)]
<1>1. check[l].prev \in Stored
  BY CheckFields DEF Probe
<1>2. Before(l) \in LinkState
  BY <1>1, FreshTyped DEF TypeOK, Before
<1> QED  BY <1>1, <1>2 DEF Probe, Before, NextRun

\* The steps of a check after its sample leave the history of samples alone.
LEMMA AfterSampleEffect ==
    ASSUME TypeOK, NEW l \in Links, CheckStep(l),
           \A sample \in Samples : ~Probe(l, sample)
    PROVE  /\ memory' = memory
           /\ streak' = streak
           /\ \A k \in Links \ {l} : check'[k] = check[k]
           /\ \/ /\ alarms' = alarms
                 /\ Raised(check'[l]) => Raised(check[l])
              \/ /\ check[l].pc = "alarm"
                 /\ check'[l] = Idle
                 /\ alarms' = [alarms EXCEPT ![l] = UpTo(@, 2)]
<1> DEFINE c == check[l]
<1>1. c \in Check \union {Idle} /\ check \in [Links -> Check \union {Idle}]
  BY DEF TypeOK
<1> USE <1>1
<1>2. /\ Raised(AfterChange(c)) => c.fire
      /\ c.pc \in {"store", "withdraw", "failover", "publish"} /\ c.fire => Raised(c)
      /\ ~Raised(Idle)
  BY DEF AfterChange, Raised, Idle
<1>3. ASSUME c.pc \in {"store", "withdraw", "failover", "publish"}
      PROVE  \A pc \in {"withdraw", "failover", "publish"} :
               Raised([c EXCEPT !.pc = pc]) => Raised(c)
  <2>1. c \in [pc : {"store", "withdraw", "failover", "publish"},
               old : Stored, new : Statuses, fire : BOOLEAN]
    BY <1>3, CheckFields
  <2> QED  BY <1>3, <2>1 DEF Raised
<1>4. CASE Store(l)
  <2>1. AfterStore(c) \in {AfterChange(c), [c EXCEPT !.pc = "withdraw"],
                           [c EXCEPT !.pc = "failover"]}
    BY DEF AfterStore
  <2>2. check'[l] = AfterStore(c) /\ c.pc = "store"
    BY <1>4 DEF Store
  <2>3. Raised(check'[l]) => Raised(c)
    BY <1>2, <1>3, <2>1, <2>2
  <2> QED  BY <1>4, <2>3 DEF Store
<1>5. ASSUME Withdraw(l) \/ WithdrawFails(l) PROVE
        /\ memory' = memory /\ streak' = streak /\ alarms' = alarms
        /\ \A k \in Links \ {l} : check'[k] = check[k]
        /\ Raised(check'[l]) => Raised(c)
  <2>1. check'[l] = [c EXCEPT !.pc = "failover"] /\ c.pc = "withdraw"
    BY <1>5 DEF Withdraw, WithdrawFails
  <2>2. Raised(check'[l]) => Raised(c)
    BY <1>3, <2>1
  <2> QED  BY <1>5, <2>2 DEF Withdraw, WithdrawFails
<1>6. ASSUME FailoverSkipped(l) \/ Failover(l) \/ FailoverFails(l) PROVE
        /\ memory' = memory /\ streak' = streak /\ alarms' = alarms
        /\ \A k \in Links \ {l} : check'[k] = check[k]
        /\ Raised(check'[l]) => Raised(c)
  <2>1. check'[l] = AfterFailover(c) /\ c.pc = "failover"
    BY <1>6 DEF FailoverSkipped, Failover, FailoverFails
  <2>2. AfterFailover(c) \in {AfterChange(c), [c EXCEPT !.pc = "publish"]}
    BY DEF AfterFailover
  <2>3. Raised(check'[l]) => Raised(c)
    BY <1>2, <1>3, <2>1, <2>2
  <2> QED  BY <1>6, <2>3 DEF FailoverSkipped, Failover, FailoverFails
<1>7. ASSUME Publish(l) \/ PublishFails(l) PROVE
        /\ memory' = memory /\ streak' = streak /\ alarms' = alarms
        /\ \A k \in Links \ {l} : check'[k] = check[k]
        /\ Raised(check'[l]) => Raised(c)
  <2>1. check'[l] = AfterChange(c) /\ c.pc = "publish"
    BY <1>7 DEF Publish, PublishFails
  <2>2. Raised(check'[l]) => Raised(c)
    BY <1>2, <2>1
  <2> QED  BY <1>7, <2>2 DEF Publish, PublishFails
<1>8. CASE StoreFails(l)
  BY <1>2, <1>8 DEF StoreFails
<1>9. CASE Alarm(l)
  BY <1>9 DEF Alarm
<1> QED  BY <1>4, <1>5, <1>6, <1>7, <1>8, <1>9 DEF CheckStep

LEMMA EvidenceKept == TypeOK /\ EvidenceInv /\ [Next]_vars => EvidenceInv'
<1> SUFFICES ASSUME TypeOK, EvidenceInv, [Next]_vars PROVE EvidenceInv'
  OBVIOUS
<1>1. ASSUME NEW l \in Links, NEW sample \in Samples, Probe(l, sample)
      PROVE  EvidenceInv'
  <2> DEFINE next == Advance(Before(l), sample, check[l].prev).state
  <2>1. Backed(Before(l), streak[l])
    BY <1>1, FreshTyped DEF Before, EvidenceInv, Backed, FreshState
  <2>2. Backed(next, NextRun(streak[l], sample))
    BY <1>1, <2>1, ProbeEffect, AdvanceBacked DEF TypeOK
  <2>3. memory' = [memory EXCEPT ![l] = next]
    BY <1>1, ProbeEffect
  <2>4. streak' = [streak EXCEPT ![l] = NextRun(streak[l], sample)]
    BY <1>1, ProbeEffect
  <2> HIDE DEF next
  <2> QED  BY <2>2, <2>3, <2>4 DEF EvidenceInv, TypeOK
<1>2. ASSUME NEW l \in Links, CheckStep(l) PROVE EvidenceInv'
  <2>1. CASE \A sample \in Samples : ~Probe(l, sample)
    BY <1>2, <2>1, AfterSampleEffect DEF EvidenceInv
  <2> QED  BY <1>1, <2>1
<1>3. CASE Restart
  BY <1>3 DEF Restart, EvidenceInv
<1>4. ASSUME UNCHANGED <<memory, streak>> PROVE EvidenceInv'
  BY <1>4 DEF EvidenceInv
<1>5. Tick \/ BootStep \/ BootAgain \/ FormStep \/ SaveFails \/ TargetsChange
        => UNCHANGED <<memory, streak>>
  BY DEF Tick, TargetsChange, SaveFails, BootStep, BootLoad, BootRoutes, BootPrepare,
         BootFails,
         BootHolds, BootPublishFails, BootAgain, FormStep, FormRoutes,
         FormRoutesFail, FormPublish, FormPublishFails
<1>6. /\ \A l \in Links : CooldownEnds(l) \/ OpenForm(l) => UNCHANGED <<memory, streak>>
      /\ \A enabled \in BOOLEAN, status \in Stored :
           SaveForm(enabled, status) => UNCHANGED <<memory, streak>>
  BY DEF CooldownEnds, OpenForm, SaveForm
<1>7. UNCHANGED vars => UNCHANGED <<memory, streak>>
  BY DEF vars
<1> QED  BY <1>2, <1>3, <1>4, <1>5, <1>6, <1>7 DEF Next

LEMMA AlarmKept == TypeOK /\ EvidenceInv /\ AlarmInv /\ [Next]_vars => AlarmInv'
<1> SUFFICES ASSUME TypeOK, EvidenceInv, AlarmInv, [Next]_vars PROVE AlarmInv'
  OBVIOUS
<1> DEFINE Quiet(k) == /\ memory'[k] = memory[k] /\ streak'[k] = streak[k]
                       /\ alarms'[k] = alarms[k]
                       /\ Raised(check'[k]) => Raised(check[k])
           Good(k) ==
             /\ Raised(check[k]) \/ alarms[k] > 0
                  => /\ memory[k] # NoState
                     /\ memory[k].episodeFired
                     /\ Lately(k, "degraded", Sustain)
             /\ Raised(check[k]) => alarms[k] = 0
             /\ alarms[k] <= 1
<1>1. ASSUME NEW k \in Links, Quiet(k) PROVE Good(k)'
  BY <1>1 DEF AlarmInv, Lately
<1>2. ASSUME NEW l \in Links, NEW sample \in Samples, Probe(l, sample)
      PROVE  AlarmInv'
  <2> DEFINE adv == Advance(Before(l), sample, check[l].prev)
             run == NextRun(streak[l], sample)
  <2>1. /\ Before(l) \in LinkState
        /\ memory' = [memory EXCEPT ![l] = adv.state]
        /\ check' = [check EXCEPT ![l] = [pc |-> "store", old |-> Before(l).last,
                                         new |-> adv.status, fire |-> adv.fire]]
        /\ streak' = [streak EXCEPT ![l] = run]
        /\ check[l].prev \in Stored
    BY <1>2, ProbeEffect
  <2>2. Backed(adv.state, run)
    <3>1. Backed(Before(l), streak[l])
      BY <1>2, FreshTyped DEF Before, EvidenceInv, Backed, FreshState
    <3> QED  BY <2>1, <3>1, AdvanceBacked DEF TypeOK
  <2>3. /\ adv.fire => /\ sample = "degraded" /\ ~Before(l).episodeFired
                       /\ adv.state.episodeFired /\ adv.state.degraded >= Sustain
        /\ sample = "degraded" /\ Before(l).episodeFired => adv.state.episodeFired
        /\ adv.state \in LinkState /\ adv.fire \in BOOLEAN
    BY <2>1, AdvanceAlarm, AdvanceTyped
  <2> HIDE DEF adv
  <2>4. ~Raised(check[l]) /\ (alarms[l] > 0 => memory[l] # NoState /\ Before(l).episodeFired)
    BY <1>2 DEF Probe, Raised, AlarmInv, Before
  <2>5. /\ sample # "degraded" => alarms'[l] = 0
        /\ sample = "degraded" => alarms'[l] = alarms[l]
        /\ \A k \in Links \ {l} : alarms'[k] = alarms[k]
    BY <1>2 DEF Probe, TypeOK
  <2>6. /\ Raised(check'[l]) <=> adv.fire
        /\ memory'[l] = adv.state /\ streak'[l] = run
    BY <2>1, <2>3 DEF Raised, TypeOK
  <2>7. adv.state # NoState
    BY <2>3, NoStateIsNone
  <2>8. alarms[l] \in 0 .. 2 /\ alarms[l] <= 1
    BY DEF AlarmInv, TypeOK
  <2>9. Lately(l, "degraded", Sustain)' <=> run.kind = "degraded" /\ run.n >= Sustain
    BY <2>6 DEF Lately
  <2>10. adv.fire => run.kind = "degraded" /\ run.n >= Sustain
    <3>1. run.n \in Nat /\ adv.state.degraded \in Nat /\ Sustain \in Nat \ {0}
      BY <2>3, ThresholdAssumption, MaxStreakBounds
         DEF TypeOK, NextRun, UpTo, LinkState
    <3> QED  BY <2>2, <2>3, <3>1 DEF Backed
  <2>11. alarms[l] > 0 /\ sample = "degraded" => run.kind = "degraded" /\ run.n >= Sustain
    <3> SUFFICES ASSUME alarms[l] > 0, sample = "degraded"
                 PROVE  run.kind = "degraded" /\ run.n >= Sustain
      OBVIOUS
    <3>1. streak[l].kind = "degraded" /\ streak[l].n >= Sustain
      BY DEF AlarmInv, Lately
    <3>2. run.kind = "degraded" /\ run.n = UpTo(streak[l].n, MaxStreak)
      BY <3>1 DEF NextRun
    <3>3. streak[l].n \in 0 .. MaxStreak
      BY DEF TypeOK
    <3> QED  BY <3>1, <3>2, <3>3, MaxStreakBounds, ThresholdAssumption DEF UpTo
  <2>12. Good(l)'
    <3> HIDE DEF run
    <3> QED  BY <2>3, <2>4, <2>5, <2>6, <2>7, <2>8, <2>9, <2>10, <2>11
  <2>13. ASSUME NEW k \in Links \ {l} PROVE Good(k)'
    BY <1>1, <2>1, <2>5 DEF TypeOK
  <2> QED  BY <2>12, <2>13 DEF AlarmInv
<1>3. ASSUME NEW l \in Links, CheckStep(l) PROVE AlarmInv'
  <2>1. CASE \A sample \in Samples : ~Probe(l, sample)
    <3>1. ASSUME NEW k \in Links \ {l} PROVE Good(k)'
      <4>1. alarms'[k] = alarms[k]
        BY <1>3, <2>1, AfterSampleEffect DEF TypeOK
      <4> QED  BY <1>1, <1>3, <2>1, <4>1, AfterSampleEffect
    <3>2. CASE alarms' = alarms /\ (Raised(check'[l]) => Raised(check[l]))
      <4>1. Good(l)'
        BY <1>1, <1>3, <2>1, <3>2, AfterSampleEffect
      <4> QED  BY <3>1, <4>1 DEF AlarmInv
    <3>3. CASE check[l].pc = "alarm" /\ check'[l] = Idle
               /\ alarms' = [alarms EXCEPT ![l] = UpTo(@, 2)]
      <4>1. Raised(check[l]) /\ ~Raised(check'[l])
        BY <3>3 DEF Raised, Idle
      <4>2. alarms[l] = 0 /\ alarms'[l] = 1
        BY <3>3, <4>1 DEF AlarmInv, TypeOK, UpTo
      <4>3. Good(l)'
        BY <1>3, <2>1, <4>1, <4>2, AfterSampleEffect DEF AlarmInv, Lately
      <4> QED  BY <3>1, <4>3 DEF AlarmInv
    <3> QED  BY <1>3, <2>1, <3>2, <3>3, AfterSampleEffect
  <2> QED  BY <1>2, <2>1
<1>4. CASE Restart
  BY <1>4 DEF Restart, AlarmInv, Raised, Idle
<1>5. ASSUME UNCHANGED <<memory, streak, alarms>>,
             \A k \in Links : Raised(check'[k]) => Raised(check[k])
      PROVE  AlarmInv'
  BY <1>5 DEF AlarmInv, Lately
<1>6. CASE Tick
  <2>1. \A k \in Links : ~Raised(check'[k])
    BY <1>6 DEF Tick, Raised, Idle
  <2> QED  BY <1>5, <1>6, <2>1 DEF Tick
<1>7. ASSUME UNCHANGED <<memory, streak, alarms, check>> PROVE AlarmInv'
  BY <1>5, <1>7
<1>8. BootStep \/ BootAgain \/ FormStep \/ SaveFails \/ TargetsChange
        => UNCHANGED <<memory, streak, alarms, check>>
  BY DEF TargetsChange, SaveFails, BootStep, BootLoad, BootRoutes, BootPrepare,
         BootFails,
         BootHolds, BootPublishFails, BootAgain, FormStep, FormRoutes,
         FormRoutesFail, FormPublish, FormPublishFails
<1>9. /\ \A l \in Links : CooldownEnds(l) \/ OpenForm(l)
           => UNCHANGED <<memory, streak, alarms, check>>
      /\ \A enabled \in BOOLEAN, status \in Stored :
           SaveForm(enabled, status) => UNCHANGED <<memory, streak, alarms, check>>
  BY DEF CooldownEnds, OpenForm, SaveForm
<1>10. UNCHANGED vars => UNCHANGED <<memory, streak, alarms, check>>
  BY DEF vars
<1> QED  BY <1>3, <1>4, <1>6, <1>7, <1>8, <1>9, <1>10 DEF Next

-----------------------------------------------------------------------------
(* Marks and routes while nothing has failed and no form was opened *)

\* Nothing undoes a failure or an edit, so a step that ends undisturbed began
\* undisturbed and was neither.
LEMMA UndisturbedBefore ==
    ASSUME TypeOK, MarkInv, [Next]_vars, Undisturbed'
    PROVE  /\ Undisturbed
           /\ ~Fault
           /\ form = Idle
           /\ \A l \in Links : ~OpenForm(l)
<1>1. used \in [edits : 0 .. MaxEdits, restarts : 0 .. MaxRestarts,
               passes : 0 .. MaxPasses, faults : 0 .. MaxFaults]
  BY DEF TypeOK
<1>2. ~Fault
  BY <1>1, BoundAssumption DEF Fault, Undisturbed
<1>3. ASSUME NEW l \in Links PROVE ~OpenForm(l)
  BY <1>1, BoundAssumption DEF OpenForm, Undisturbed
<1>4. ASSUME NEW l \in Links, CheckStep(l) PROVE used' = used
  BY <1>2, <1>4 DEF CheckStep, Probe, Store, StoreFails, Withdraw, WithdrawFails,
       FailoverSkipped, Failover, FailoverFails, Publish, PublishFails, Alarm
<1>5. BootStep => used' = used
  BY <1>2 DEF BootStep, BootLoad, BootRoutes, BootPrepare, BootFails, BootHolds,
         BootPublishFails
<1>6. /\ Tick \/ FormStep \/ SaveFails \/ TargetsChange => used' = used
      /\ \A l \in Links : CooldownEnds(l) => used' = used
      /\ \A enabled \in BOOLEAN, status \in Stored :
           SaveForm(enabled, status) => used' = used
      /\ UNCHANGED vars => used' = used
  BY <1>2 DEF Tick, FormStep, FormRoutes, FormRoutesFail, FormPublish,
         FormPublishFails, SaveFails, TargetsChange, CooldownEnds, SaveForm, vars
<1>7. BootAgain \/ Restart => used'.edits = used.edits /\ used'.faults = used.faults
  BY <1>1 DEF BootAgain, Restart
<1>8. Undisturbed
  BY <1>3, <1>4, <1>5, <1>6, <1>7 DEF Next, Undisturbed
<1> QED  BY <1>2, <1>3, <1>8 DEF MarkInv, Undisturbed

LEMMA ReconciledOf ==
    ASSUME NEW rows, NEW open, NEW l \in Links
    PROVE  l \in Reconciled(rows, open) <=> open /\ Usable(rows[l])
BY DEF Reconciled

\* A link that a step does not touch stays in step, also when the step
\* publishes the whole list.
LEMMA InStepFrame ==
    ASSUME NEW k \in Links, InStep(k),
           row'[k] = row[k], check'[k] = check[k], memory'[k] = memory[k],
           \/ ready' = ready /\ intent' = intent
           \/ intent' = Reconciled(row, ready')
    PROVE  InStep(k)'
<1>1. CASE ready' = ready /\ intent' = intent
  BY <1>1 DEF InStep, Usable
<1>2. CASE intent' = Reconciled(row, ready')
  <2>1. k \in intent' <=> ready' /\ Usable(row[k])
    BY <1>2, ReconciledOf
  <2> QED  BY <2>1 DEF InStep, Usable
<1> QED  BY <1>1, <1>2

LEMMA MarkKept == TypeOK /\ MarkInv /\ [Next]_vars => MarkInv'
<1> SUFFICES ASSUME TypeOK, MarkInv, [Next]_vars PROVE MarkInv'
  OBVIOUS
<1>1. form' # Idle => used'.edits > 0
  <2>1. used \in [edits : 0 .. MaxEdits, restarts : 0 .. MaxRestarts,
                 passes : 0 .. MaxPasses, faults : 0 .. MaxFaults]
    BY DEF TypeOK
  <2>2. ASSUME NEW l \in Links, OpenForm(l) PROVE used'.edits > 0
    BY <2>1, <2>2 DEF OpenForm
  <2>3. ASSUME used'.edits = used.edits, form' # Idle => form # Idle
        PROVE  form' # Idle => used'.edits > 0
    BY <2>3 DEF MarkInv
  <2>4. Fault => used'.edits = used.edits
    BY <2>1 DEF Fault
  <2>5. ASSUME NEW l \in Links, CheckStep(l) PROVE used'.edits = used.edits /\ form' = form
    BY <2>4, <2>5 DEF CheckStep, Probe, Store, StoreFails, Withdraw, WithdrawFails,
         FailoverSkipped, Failover, FailoverFails, Publish, PublishFails, Alarm
  <2>6. BootStep => used'.edits = used.edits /\ form' = form
    BY <2>4 DEF BootStep, BootLoad, BootRoutes, BootPrepare, BootFails, BootHolds,
           BootPublishFails
  <2>7. FormStep \/ SaveFails => used'.edits = used.edits /\ form # Idle
    BY <2>4 DEF FormStep, FormRoutes, FormRoutesFail, FormPublish, FormPublishFails,
         SaveFails, Idle
  <2>8. ASSUME NEW enabled \in BOOLEAN, NEW status \in Stored, SaveForm(enabled, status)
        PROVE  used'.edits = used.edits /\ form # Idle
    <3>1. form.pc = "open" /\ used' = used
      BY <2>8 DEF SaveForm
    <3> QED  BY <3>1 DEF Idle
  <2>9. BootAgain => used'.edits = used.edits /\ form' = form
    BY <2>1 DEF BootAgain
  <2>10. Restart => used'.edits = used.edits /\ (form' # Idle => form # Idle)
    BY <2>1 DEF Restart
  <2>11. /\ Tick \/ TargetsChange => used' = used /\ form' = form
         /\ \A l \in Links : CooldownEnds(l) => used' = used /\ form' = form
         /\ UNCHANGED vars => used' = used /\ form' = form
    BY DEF Tick, TargetsChange, CooldownEnds, vars
  <2> QED  BY <2>2, <2>3, <2>5, <2>6, <2>7, <2>8, <2>9, <2>10, <2>11 DEF Next
<1>2. SUFFICES ASSUME Undisturbed', NEW k \in Links PROVE InStep(k)'
  BY <1>1 DEF MarkInv
<1>3. /\ ~Fault /\ form = Idle /\ \A l \in Links : ~OpenForm(l)
      /\ InStep(k)
  BY <1>2, UndisturbedBefore DEF MarkInv
<1>4. ASSUME NEW l \in Links, CheckStep(l) PROVE InStep(k)'
  <2>1. ~(StoreFails(l) \/ WithdrawFails(l) \/ FailoverFails(l) \/ PublishFails(l))
    BY <1>3 DEF StoreFails, WithdrawFails, FailoverFails, PublishFails
  <2>2. CASE k # l
    <3>1. /\ row'[k] = row[k] /\ check'[k] = check[k] /\ memory'[k] = memory[k]
          /\ ready' = ready
          /\ intent' = intent \/ intent' = Reconciled(row, ready)
      BY <1>4, <2>1, <2>2
         DEF CheckStep, Probe, Store, Withdraw, FailoverSkipped, Failover, Publish,
             Alarm, Reconcile, TypeOK
    <3> QED  BY <1>3, <3>1, InStepFrame
  <2>3. CASE k = l
    <3>1. ASSUME NEW sample \in Samples, Probe(l, sample) PROVE InStep(k)'
      <4> DEFINE adv == Advance(Before(l), sample, check[l].prev)
      <4>1. /\ Before(l) \in LinkState /\ check[l].prev \in Stored
            /\ memory'[l] = adv.state
            /\ check'[l] = [pc |-> "store", old |-> Before(l).last,
                           new |-> adv.status, fire |-> adv.fire]
        BY <3>1, ProbeEffect DEF TypeOK
      <4>2. adv.state.last = adv.status /\ adv.state # NoState
        BY <4>1, AdvanceTyped, NoStateIsNone
      <4>3. Before(l).last = row[l].status
        BY <1>3, <2>3, <3>1 DEF InStep, Probe, Before, FreshState
      <4>4. check[l].pc = "probe" /\ row' = row /\ ready' = ready /\ intent' = intent
        BY <3>1 DEF Probe
      <4> HIDE DEF adv
      <4> QED  BY <1>3, <2>3, <4>1, <4>2, <4>3, <4>4 DEF InStep, Usable
    <3>2. CASE Store(l)
      <4> DEFINE c == check[l]
      <4>1. /\ c.pc = "store" /\ c.old = row[l].status
            /\ memory[l] # NoState /\ memory[l].last = c.new
            /\ (l \in intent <=> ready /\ Usable(row[l]))
        BY <1>3, <2>3, <3>2 DEF Store, InStep
      <4>2. c \in [pc : {"store", "withdraw", "failover", "publish"},
                   old : Stored, new : Statuses, fire : BOOLEAN]
        BY <4>1, CheckFields
      <4>3. row'[l].status = c.new /\ row'[l].enabled = row[l].enabled
        BY <3>2, <4>2 DEF Store, WithVerdict, TypeOK, Row
      <4>4. check'[l] = AfterStore(c) /\ UNCHANGED <<memory, ready, intent>>
        BY <3>2 DEF Store, TypeOK
      <4>5. CASE c.new = c.old
        <5>1. check'[l].pc \in {"alarm", "idle"}
          BY <4>4, <4>5 DEF AfterStore, AfterChange, Idle
        <5>2. Usable(row'[l]) <=> Usable(row[l])
          BY <4>1, <4>3, <4>5 DEF Usable
        <5> QED  BY <2>3, <4>1, <4>3, <4>4, <5>1, <5>2 DEF InStep
      <4>6. CASE c.new # c.old /\ c.new = "offline"
        <5>1. check'[l] = [c EXCEPT !.pc = "withdraw"]
          BY <4>4, <4>6 DEF AfterStore
        <5>2. check'[l].pc = "withdraw" /\ check'[l].new = "offline"
          BY <4>2, <4>6, <5>1
        <5> QED  BY <2>3, <4>1, <4>3, <4>4, <4>6, <5>2 DEF InStep
      <4>7. CASE c.new # c.old /\ c.new # "offline"
        <5>1. check'[l] = [c EXCEPT !.pc = "failover"]
          BY <4>4, <4>7 DEF AfterStore
        <5>2. check'[l].pc = "failover" /\ check'[l].new # "offline"
          BY <4>2, <4>7, <5>1
        <5> QED  BY <2>3, <4>1, <4>3, <4>4, <5>2 DEF InStep
      <4> QED  BY <4>5, <4>6, <4>7
    <3>3. CASE Withdraw(l)
      <4>1. check[l].pc = "withdraw" /\ check[l].new = "offline"
            /\ row[l].status = "offline"
        BY <1>3, <2>3, <3>3 DEF Withdraw, InStep
      <4>2. check'[l].pc = "failover" /\ check'[l].new = "offline"
        BY <3>3, <4>1, CheckFields DEF Withdraw, TypeOK
      <4>3. l \notin intent'
        BY <3>3, <4>1, ReconciledOf DEF Withdraw, Reconcile, Usable
      <4>4. UNCHANGED <<row, memory>>
        BY <3>3 DEF Withdraw
      <4> QED  BY <1>3, <2>3, <4>1, <4>2, <4>3, <4>4 DEF InStep
    <3>4. CASE FailoverSkipped(l) \/ Failover(l)
      <4> DEFINE c == check[l]
      <4>1. /\ c.pc = "failover"
            /\ c.new = "offline" => row[l].status = "offline" /\ l \notin intent
            /\ memory[l] # NoState => memory[l].last = row[l].status
        BY <1>3, <2>3, <3>4 DEF FailoverSkipped, Failover, InStep
      <4>2. /\ check'[l] = AfterFailover(c)
            /\ UNCHANGED <<row, memory, intent, ready>>
        BY <3>4 DEF FailoverSkipped, Failover, TypeOK
      <4>3. CASE c.new = "offline"
        <5>1. check'[l].pc \in {"alarm", "idle"}
          BY <4>2, <4>3 DEF AfterFailover, AfterChange, Idle
        <5> QED  BY <2>3, <4>1, <4>2, <4>3, <5>1 DEF InStep, Usable
      <4>4. CASE c.new # "offline"
        <5>1. check'[l].pc = "publish"
          BY <4>1, <4>2, <4>4, CheckFields DEF AfterFailover
        <5> QED  BY <2>3, <4>1, <4>2, <5>1 DEF InStep
      <4> QED  BY <4>3, <4>4
    <3>5. CASE Publish(l)
      <4>1. check[l].pc = "publish" /\ check'[l] = AfterChange(check[l])
        BY <3>5 DEF Publish, TypeOK
      <4>2. check'[l].pc \in {"alarm", "idle"}
        BY <4>1 DEF AfterChange, Idle
      <4>3. /\ l \in intent' <=> ready' /\ Usable(row[l])
            /\ UNCHANGED <<row, memory>>
        BY <3>5, ReconciledOf DEF Publish, Reconcile
      <4> QED  BY <1>3, <2>3, <4>1, <4>2, <4>3 DEF InStep
    <3>6. CASE Alarm(l)
      <4>1. /\ check[l].pc = "alarm" /\ check'[l].pc = "idle"
            /\ UNCHANGED <<row, memory, intent, ready>>
        BY <3>6 DEF Alarm, TypeOK, Idle
      <4> QED  BY <1>3, <2>3, <4>1 DEF InStep
    <3> QED
      BY <1>4, <2>1, <3>1, <3>2, <3>3, <3>4, <3>5, <3>6 DEF CheckStep
  <2> QED  BY <2>2, <2>3
<1>5. CASE Tick
  <2>1. check[k] = Idle /\ UNCHANGED <<row, memory, intent, ready>>
    BY <1>5 DEF Tick, Resting
  <2>2. \/ check'[k] = [pc |-> "probe", prev |-> row[k].status]
        \/ check'[k] = Idle
    BY <1>5 DEF Tick
  <2> QED  BY <1>3, <2>1, <2>2 DEF InStep, Idle
<1>6. CASE BootPrepare \/ BootHolds \/ TargetsChange
  <2>1. intent' = Reconciled(row, ready') /\ UNCHANGED <<row, memory, check>>
    BY <1>6 DEF BootPrepare, BootHolds, TargetsChange, Reconcile
  <2> QED  BY <1>3, <2>1, InStepFrame
<1>7. ASSUME UNCHANGED <<row, memory, check, intent, ready>> PROVE InStep(k)'
  BY <1>3, <1>7, InStepFrame
<1>8. CASE BootStep
  <2>1. BootLoad \/ BootRoutes \/ BootPrepare \/ BootHolds
    BY <1>3, <1>8 DEF BootStep, BootFails, BootPublishFails
  <2>2. BootLoad \/ BootRoutes => UNCHANGED <<row, memory, check, intent, ready>>
    BY DEF BootLoad, BootRoutes
  <2> QED  BY <1>6, <1>7, <2>1, <2>2
<1>9. CASE Restart
  BY <1>9 DEF Restart, InStep, Idle
<1>10. /\ BootAgain \/ UNCHANGED vars => UNCHANGED <<row, memory, check, intent, ready>>
       /\ \A l \in Links : CooldownEnds(l) => UNCHANGED <<row, memory, check, intent, ready>>
  BY DEF BootAgain, vars, CooldownEnds
<1>11. /\ ~FormStep /\ ~SaveFails
       /\ \A enabled \in BOOLEAN, status \in Stored : ~SaveForm(enabled, status)
  BY <1>3 DEF FormStep, FormRoutes, FormRoutesFail, FormPublish, FormPublishFails,
       SaveFails, SaveForm, Idle
<1> QED  BY <1>3, <1>4, <1>5, <1>6, <1>7, <1>8, <1>9, <1>10, <1>11 DEF Next

-----------------------------------------------------------------------------
(* The theorems *)

\* Every variable of the monitor, the failover, the coordinator and the form
\* keeps its shape; in particular the monitor never stores an empty status.
THEOREM WanTypeCorrect == Spec => []TypeOK
<1>1. QED  BY InitTyped, StepTyped, PTL DEF Spec

IInv == TypeOK /\ EvidenceInv /\ AlarmInv /\ MarkInv

LEMMA InitInv == Init => IInv
<1> SUFFICES ASSUME Init PROVE IInv
  OBVIOUS
<1>1. EvidenceInv /\ AlarmInv
  BY DEF Init, EvidenceInv, AlarmInv, Raised, Idle
<1>2. MarkInv
  BY DEF Init, MarkInv, InStep, Idle
<1> QED  BY <1>1, <1>2, InitTyped DEF IInv

LEMMA StepInv == IInv /\ [Next]_vars => IInv'
BY StepTyped, EvidenceKept, AlarmKept, MarkKept DEF IInv

LEMMA Invariant == Spec => []IInv
BY InitInv, StepInv, PTL DEF Spec

\* An episode of degradation resets connections once, and only after it has
\* lasted: linkState.advance and the sustained callback of checkLink.
THEOREM AlarmOnce == Spec => []OneAlarmPerEpisode
<1>1. IInv => OneAlarmPerEpisode
  BY DEF IInv, AlarmInv, OneAlarmPerEpisode, Raised
<1> QED  BY <1>1, Invariant, PTL

\* Every verdict the monitor writes over another one is backed by as many
\* samples of its kind, in a row, as its threshold asks for.
THEOREM VerdictsBacked == Spec => VerdictNeedsEvidence
<1> DEFINE Step ==
      \A l \in Links :
         check[l].pc = "probe" /\ check'[l].pc = "store"
           /\ check'[l].new \notin {check[l].prev, "unknown"}
           => \/ check'[l].new = "offline" /\ Lately(l, "down", FailThreshold)'
              \/ check'[l].new = "online" /\ Lately(l, "good", RecoverThreshold)'
              \/ check'[l].new = "degraded" /\ Lately(l, "degraded", Sustain)'
<1>1. IInv /\ IInv' /\ [Next]_vars => Step
  <2> SUFFICES ASSUME IInv, IInv', [Next]_vars, NEW l \in Links,
                      check[l].pc = "probe", check'[l].pc = "store",
                      check'[l].new \notin {check[l].prev, "unknown"}
               PROVE  \/ check'[l].new = "offline" /\ Lately(l, "down", FailThreshold)'
                      \/ check'[l].new = "online" /\ Lately(l, "good", RecoverThreshold)'
                      \/ check'[l].new = "degraded" /\ Lately(l, "degraded", Sustain)'
    OBVIOUS
  <2>1. PICK sample \in Samples : Probe(l, sample)
    <3>1. ASSUME NEW k \in Links, CheckStep(k), k # l PROVE check'[l] = check[l]
      BY <3>1 DEF CheckStep, Probe, Store, StoreFails, Withdraw, WithdrawFails,
           FailoverSkipped, Failover, FailoverFails, Publish, PublishFails, Alarm,
           IInv, TypeOK
    <3>2. CheckStep(l) => \E sample \in Samples : Probe(l, sample)
      BY DEF CheckStep, Store, StoreFails, Withdraw, WithdrawFails,
           FailoverSkipped, Failover, FailoverFails, Publish, PublishFails, Alarm
    <3>3. ~Tick /\ ~Restart
      BY DEF Tick, Restart, Resting, Idle
    <3>4. /\ BootStep \/ BootAgain \/ FormStep \/ SaveFails \/ TargetsChange \/ UNCHANGED vars
               => check' = check
          /\ \A k \in Links : CooldownEnds(k) \/ OpenForm(k) => check' = check
          /\ \A enabled \in BOOLEAN, status \in Stored :
               SaveForm(enabled, status) => check' = check
      BY DEF BootStep, BootLoad, BootRoutes, BootPrepare, BootFails, BootHolds,
             BootPublishFails,
             BootAgain, FormStep, FormRoutes, FormRoutesFail, FormPublish,
             FormPublishFails,
             TargetsChange, SaveFails, CooldownEnds, OpenForm, SaveForm, vars
    <3> QED  BY <3>1, <3>2, <3>3, <3>4 DEF Next
  <2> DEFINE adv == Advance(Before(l), sample, check[l].prev)
  <2>2. /\ Before(l) \in LinkState /\ check[l].prev \in Stored
        /\ memory'[l] = adv.state /\ check'[l].new = adv.status
    BY <2>1, ProbeEffect DEF IInv, TypeOK
  <2>3. /\ adv.state \in LinkState /\ adv.state # NoState
        /\ \/ adv.status = "offline" /\ adv.state.fails >= FailThreshold
           \/ adv.status = "online" /\ adv.state.successes >= RecoverThreshold
           \/ adv.status = "degraded" /\ adv.state.degraded >= Sustain
    BY <2>2, AdvanceTyped, AdvanceVerdict, NoStateIsNone
  <2> HIDE DEF adv
  <2>4. Backed(adv.state, streak'[l])
    BY <2>2, <2>3 DEF IInv, EvidenceInv
  <2>5. /\ adv.state.fails \in Nat /\ adv.state.successes \in Nat
        /\ adv.state.degraded \in Nat /\ streak'[l].n \in Nat
    BY <2>3, ThresholdAssumption, MaxStreakBounds DEF LinkState, IInv, TypeOK
  <2>6. /\ adv.state.fails >= FailThreshold => Lately(l, "down", FailThreshold)'
        /\ adv.state.successes >= RecoverThreshold => Lately(l, "good", RecoverThreshold)'
        /\ adv.state.degraded >= Sustain => Lately(l, "degraded", Sustain)'
    BY <2>4, <2>5, ThresholdAssumption DEF Backed, Lately
  <2> QED  BY <2>2, <2>3, <2>6
<1> QED  BY <1>1, Invariant, PTL DEF Spec, VerdictNeedsEvidence

\* Whoever published the marks last, they are those of the links the database
\* calls usable, whenever no check is between its verdict and its callback.
THEOREM MarksFollow == Spec => []MarkFollowsStatus
<1>1. IInv => MarkFollowsStatus
  BY DEF IInv, MarkInv, MarkFollowsStatus, InStep, Idle
<1> QED  BY <1>1, Invariant, PTL

\* A table is emptied only behind a mark that has been withdrawn.
THEOREM MarkFirst == Spec => MarkLeavesBeforeRoute
<1> DEFINE Step == \A l \in route \ route' :
                     Undisturbed => l \notin intent /\ row[l].status = "offline"
<1>1. IInv /\ [Next]_vars => Step
  <2> SUFFICES ASSUME IInv, [Next]_vars, NEW l \in route \ route', Undisturbed
               PROVE  l \notin intent /\ row[l].status = "offline"
    OBVIOUS
  <2>1. l \in Links
    BY DEF IInv, TypeOK
  <2>2. PICK k \in Links : Failover(k)
    <3>1. ASSUME NEW k \in Links, CheckStep(k), ~Failover(k) PROVE route' = route
      BY <3>1 DEF CheckStep, Probe, Store, StoreFails, Withdraw, WithdrawFails,
           FailoverSkipped, FailoverFails, Publish, PublishFails, Alarm
    <3>2. /\ Tick \/ BootStep \/ BootAgain \/ FormStep \/ SaveFails \/ TargetsChange \/ Restart
               \/ UNCHANGED vars
               => route \subseteq route'
          /\ \A i \in Links : CooldownEnds(i) \/ OpenForm(i) => route' = route
          /\ \A enabled \in BOOLEAN, status \in Stored :
               SaveForm(enabled, status) => route' = route
      BY DEF Tick, BootStep, BootLoad, BootRoutes, BootPrepare, BootFails,
             BootHolds, BootPublishFails, BootAgain, FormStep, FormRoutes,
             FormRoutesFail, FormPublish, FormPublishFails, Restart,
             TargetsChange, SaveFails, CooldownEnds, OpenForm, SaveForm, vars
    <3> QED  BY <3>1, <3>2 DEF Next
  <2>3. k = l /\ check[l].new = "offline" /\ check[l].pc = "failover"
    BY <2>2 DEF Failover
  <2> QED  BY <2>1, <2>3 DEF IInv, MarkInv, InStep
<1> QED  BY <1>1, Invariant, PTL DEF Spec, MarkLeavesBeforeRoute
=============================================================================
