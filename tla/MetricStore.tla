------------------------------ MODULE MetricStore ------------------------------
(* The time series (tsdb): a reading goes to a bucket in memory, a bucket that *)
(* is over is closed by the next reading or by the writer, which ticks every   *)
(* second, rolls it into the buckets of the longer steps and writes the rows.  *)
(* The writer closes under the lock that readings take, one bucket at a step,  *)
(* and writes outside it.                                                      *)
(* Beside the readings, the intervals of a state (a link up or down).          *)
EXTENDS Integers, Sequences, FiniteSets

CONSTANTS
    LastWindow,       \* the last window of the native step: bound on time
    Rollup,           \* native windows in a window of the longer step
    MaxGauges,        \* bound on readings
    MaxStateCalls,    \* bound on observations of the state
    MaxMetricEvents   \* bound on failures, falls and orderly stops

ASSUME MetricAssumption ==
    /\ LastWindow \in Nat /\ Rollup \in Nat \ {0}
    /\ MaxGauges \in Nat /\ MaxStateCalls \in Nat /\ MaxMetricEvents \in Nat

VARIABLES
    window,        \* time.Now(), in windows of the native step
    sampled,       \* history: the readings of each window, at each step
    nativeBucket,  \* pending, of the native step
    longBucket,    \* pending, of the longer step
    closedBuckets, \* closed, but not yet rolled into the longer step
    writer,        \* Run: where the writer is, its now, whether it stops, what it has to write
    metricRows,    \* metric_samples: how many readings each row stands for
    damaged,       \* history: rows that were closed before their time, or lost
    observed,      \* what the process remembers of the state
    intervals,     \* state_intervals still open
    stateStep,     \* State is between closing an interval and opening another
    stateMishap,   \* history: a write of an interval failed, or a fall cut one
    stateCalls, metricEvents

metricVars == <<window, sampled, nativeBucket, longBucket, closedBuckets, writer, metricRows, damaged,
                observed, intervals, stateStep, stateMishap, stateCalls, metricEvents>>

Steps == {"native", "long"}
Windows == 0..LastWindow
Start(step, w) == IF step = "native" THEN w ELSE w \div Rollup
Bucket(start, count) == [start |-> start, count |-> count]
NoBucket == Bucket(0, 0)
Row(step, b) == [step |-> step, start |-> b.start, count |-> b.count]
Waiting == [at |-> "waits", now |-> 0, all |-> FALSE, rows |-> <<>>]
States == {"up", "down"}

MetricInit ==
    /\ window = 0 /\ sampled = [s \in Steps |-> [w \in Windows |-> 0]]
    /\ nativeBucket = NoBucket /\ longBucket = NoBucket /\ closedBuckets = <<>>
    /\ writer = Waiting
    /\ metricRows = [s \in Steps |-> [w \in Windows |-> 0]]
    /\ damaged = {}
    /\ observed = "none" /\ intervals = {} /\ stateStep = "idle" /\ stateMishap = FALSE
    /\ stateCalls = 0 /\ metricEvents = 0

MetricEvent == metricEvents < MaxMetricEvents /\ metricEvents' = metricEvents + 1
BucketsStay == UNCHANGED <<nativeBucket, longBucket, closedBuckets>>
StateStays == UNCHANGED <<observed, intervals, stateStep, stateMishap, stateCalls>>

-----------------------------------------------------------------------------
Pending(b) == b.count > 0

\* accumulate: a reading joins its bucket, or closes the one before it; the
\* bucket that it closes waits for the writer.
Gauges ==
    LET joins == Pending(nativeBucket) /\ nativeBucket.start = window IN
    /\ writer.at # "closes"
    /\ sampled["native"][window] < MaxGauges
    /\ sampled' = [s \in Steps |-> [sampled[s] EXCEPT ![Start(s, window)] = @ + 1]]
    /\ nativeBucket' = Bucket(window, IF joins THEN nativeBucket.count + 1 ELSE 1)
    /\ closedBuckets' = IF Pending(nativeBucket) /\ ~joins THEN Append(closedBuckets, nativeBucket)
                        ELSE closedBuckets
    /\ StateStays /\ UNCHANGED <<window, longBucket, writer, metricRows, damaged, metricEvents>>

WindowPasses ==
    /\ window < LastWindow /\ window' = window + 1
    /\ BucketsStay /\ StateStays /\ UNCHANGED <<sampled, writer, metricRows, damaged, metricEvents>>

Named(r, why) == [step |-> r.step, start |-> r.start, why |-> why]

\* The rows a closed bucket leaves to write; damaged, when its window is still
\* under way by the real clock.
Emits(rows, at) ==
    /\ writer' = [writer EXCEPT !.at = at, !.rows = @ \o rows]
    /\ damaged' = damaged \cup
           {Named(rows[i], IF writer.all THEN "stopped" ELSE "stale") :
               i \in {j \in DOMAIN rows : rows[j].start = Start(rows[j].step, window)}}

\* Mutant: the longer bucket is closed before the native ones roll into it.
DrainsLongFirst(now, closeAll) ==
    LET due == Pending(nativeBucket) /\ (closeAll \/ nativeBucket.start # now)
        over == Pending(longBucket) /\ (closeAll \/ longBucket.start # Start("long", now)) IN
    /\ closedBuckets' = IF due THEN Append(closedBuckets, nativeBucket) ELSE closedBuckets
    /\ nativeBucket' = IF due THEN NoBucket ELSE nativeBucket
    /\ longBucket' = IF over THEN NoBucket ELSE longBucket
    /\ writer' = [at |-> "closes", now |-> now, all |-> closeAll,
                  rows |-> IF over THEN <<Row("long", longBucket)>> ELSE <<>>]
    /\ UNCHANGED damaged

\* drain: behind what readings closed, the native bucket if it is over at now;
\* that of the window under way only when all are closed.
Drains(now, closeAll) ==
    LET due == Pending(nativeBucket) /\ (closeAll \/ nativeBucket.start # now) IN
    /\ closedBuckets' = IF due THEN Append(closedBuckets, nativeBucket) ELSE closedBuckets
    /\ nativeBucket' = IF due THEN NoBucket ELSE nativeBucket
    /\ writer' = [at |-> "closes", now |-> now, all |-> closeAll, rows |-> <<>>]
    /\ UNCHANGED <<longBucket, damaged>>

\* The writer reads the clock, samples the interfaces, and only then drains.
WriterWakes ==
    /\ writer.at = "waits"
    /\ writer' = [writer EXCEPT !.at = "drains", !.now = window]
    /\ BucketsStay /\ StateStays /\ UNCHANGED <<window, sampled, metricRows, damaged, metricEvents>>

WriterDrains ==
    /\ writer.at = "drains"
    /\ Drains(writer.now, FALSE)
    /\ StateStays /\ UNCHANGED <<window, sampled, metricRows, metricEvents>>

\* closeBucket and rollInto: the row of a native bucket; it joins the longer one
\* it belongs to, or closes the one before it.
ClosesNative ==
    LET b == Head(closedBuckets)
        start == Start("long", b.start)
        joins == Pending(longBucket) /\ longBucket.start = start
        over == Pending(longBucket) /\ ~joins IN
    /\ writer.at = "closes" /\ closedBuckets # <<>>
    /\ closedBuckets' = Tail(closedBuckets)
    /\ longBucket' = Bucket(start, IF joins THEN longBucket.count + b.count ELSE b.count)
    /\ Emits(IF over THEN <<Row("native", b), Row("long", longBucket)>> ELSE <<Row("native", b)>>,
             "closes")
    /\ StateStays /\ UNCHANGED <<window, sampled, nativeBucket, metricRows, metricEvents>>

\* The longer step comes after every native bucket; then the lock is released.
ClosesLong ==
    LET over == Pending(longBucket)
                  /\ (writer.all \/ longBucket.start # Start("long", writer.now)) IN
    /\ writer.at = "closes" /\ closedBuckets = <<>>
    /\ longBucket' = IF over THEN NoBucket ELSE longBucket
    /\ Emits(IF over THEN <<Row("long", longBucket)>> ELSE <<>>,
             IF writer.all THEN "last" ELSE "writes")
    /\ StateStays
    /\ UNCHANGED <<window, sampled, nativeBucket, closedBuckets, metricRows, metricEvents>>

\* UpsertMetricSample replaces the row there is; an error loses the bucket.
UpsertsRow ==
    /\ writer.at \in {"writes", "last"} /\ writer.rows # <<>>
    /\ writer' = [writer EXCEPT !.rows = Tail(@)]
    /\ LET r == Head(writer.rows) IN
       \/ /\ metricRows' = [metricRows EXCEPT ![r.step][r.start] = r.count]
          /\ UNCHANGED <<damaged, metricEvents>>
       \/ MetricEvent /\ damaged' = damaged \cup {Named(r, "failed")} /\ UNCHANGED metricRows
    /\ BucketsStay /\ StateStays /\ UNCHANGED <<window, sampled>>

WriterRests ==
    /\ writer.at = "writes" /\ writer.rows = <<>> /\ writer' = Waiting
    /\ BucketsStay /\ StateStays /\ UNCHANGED <<window, sampled, metricRows, damaged, metricEvents>>

-----------------------------------------------------------------------------
\* Flush: an orderly stop closes and writes every bucket.
Flushes ==
    /\ writer.at = "waits" /\ MetricEvent
    /\ Drains(window, TRUE)
    /\ StateStays /\ UNCHANGED <<window, sampled, metricRows>>

\* What a process leaves in memory when it ends.
InMemory ==
    LET natives == {b \in {nativeBucket} : Pending(b)} \cup {closedBuckets[i] : i \in DOMAIN closedBuckets}
    IN  {Named(Row(s, Bucket(Start(s, b.start), b.count)), "lost") : s \in Steps, b \in natives}
          \cup {Named(Row("long", b), "lost") : b \in {l \in {longBucket} : Pending(l)}}
          \cup {Named(writer.rows[i], "lost") : i \in DOMAIN writer.rows}

\* The process ends, after its flush or in the middle of anything, and starts
\* again: what it remembers of the state comes from the open intervals, or is
\* nothing where they cannot be read.
MetricRestart ==
    /\ IF writer.at = "last" /\ writer.rows = <<>> THEN UNCHANGED metricEvents ELSE MetricEvent
    /\ damaged' = damaged \cup InMemory
    /\ nativeBucket' = NoBucket /\ longBucket' = NoBucket /\ closedBuckets' = <<>>
    /\ writer' = Waiting
    /\ \/ observed' \in (IF intervals = {} THEN {"none"} ELSE intervals) /\ stateMishap' = (stateMishap \/ stateStep # "idle")
       \/ intervals # {} /\ observed' = "none" /\ stateMishap' = TRUE
    /\ stateStep' = "idle"
    /\ UNCHANGED <<window, sampled, metricRows, intervals, stateCalls>>

-----------------------------------------------------------------------------
\* State: the same state again is nothing; a new one closes what is open.
ClosesInterval ==
    /\ stateStep = "idle" /\ stateCalls < MaxStateCalls /\ stateCalls' = stateCalls + 1
    /\ \E s \in States \ {observed} :
         /\ stateStep' = s
         /\ IF observed = "none" THEN UNCHANGED <<intervals, stateMishap, metricEvents>>
            ELSE \/ intervals' = {} /\ UNCHANGED <<stateMishap, metricEvents>>
                 \/ MetricEvent /\ stateMishap' = TRUE /\ UNCHANGED intervals
    /\ BucketsStay /\ UNCHANGED <<window, sampled, writer, metricRows, damaged, observed>>

\* The new interval opens; memory moves on even when the write failed.
OpensInterval ==
    /\ stateStep # "idle" /\ stateStep' = "idle" /\ observed' = stateStep
    /\ \/ intervals' = intervals \cup {stateStep} /\ UNCHANGED <<stateMishap, metricEvents>>
       \/ MetricEvent /\ stateMishap' = TRUE /\ UNCHANGED intervals
    /\ BucketsStay /\ UNCHANGED <<window, sampled, writer, metricRows, damaged, stateCalls>>

MetricNext ==
    \/ Gauges \/ WindowPasses \/ WriterWakes \/ WriterDrains
    \/ ClosesNative \/ ClosesLong \/ UpsertsRow \/ WriterRests
    \/ Flushes \/ MetricRestart \/ ClosesInterval \/ OpensInterval

MetricSpec == MetricInit /\ [][MetricNext]_metricVars

-----------------------------------------------------------------------------
\* Type invariant of the series.
MetricTypeOK ==
    /\ \A b \in {nativeBucket, longBucket} : b \in [start : Windows, count : Nat]
    /\ \A i \in DOMAIN closedBuckets : closedBuckets[i] \in [start : Windows, count : Nat \ {0}]
    /\ writer.at \in {"waits", "drains", "closes", "writes", "last"}
    /\ \A t \in damaged : t.step \in Steps /\ t.why \in {"stale", "stopped", "failed", "lost"}
    /\ observed \in States \cup {"none"} /\ intervals \subseteq States /\ stateStep \in States \cup {"idle"}

\* How many readings these buckets of a queue stand for.
ReadingsOf(queue, places) == Cardinality(UNION {{i} \X (1..queue[i].count) : i \in places})

\* The readings of a row that memory still holds.
Held(step, start) ==
    LET mine(b) == IF Start(step, b.start) = start THEN b.count ELSE 0
    IN  mine(nativeBucket)
          + ReadingsOf(closedBuckets, {i \in DOMAIN closedBuckets : Start(step, closedBuckets[i].start) = start})
          + (IF step = "long" /\ longBucket.start = start THEN longBucket.count ELSE 0)
          + ReadingsOf(writer.rows, {i \in DOMAIN writer.rows :
                                       writer.rows[i].step = step /\ writer.rows[i].start = start})

IsWhole(step, start) == metricRows[step][start] + Held(step, start) = sampled[step][start]

\* Every reading is in the row of its window, at every step, once: or still in
\* memory; unless the bucket was closed before its time or lost.
ReadingsAreCounted ==
    \A s \in Steps, w \in Windows : (\A t \in damaged : t.step # s \/ t.start # w) => IsWhole(s, w)

\* What an orderly stop flushed stays: no stop of the service opens a hole.
FlushKeepsReadings ==
    \A s \in Steps, w \in Windows :
        (\A t \in damaged : (t.step = s /\ t.start = w) => t.why = "stopped") => IsWhole(s, w)

\* The interval that is open is that of the state observed last, and one only;
\* unless a write or the reading of one failed, or the process fell midway.
IntervalFollowsState ==
    (stateStep = "idle" /\ ~stateMishap) => intervals = (IF observed = "none" THEN {} ELSE {observed})
=============================================================================
