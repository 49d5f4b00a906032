----------------------------- MODULE LinkHealth -----------------------------
(***************************************************************************)
(* The state machine the link monitor keeps for one WAN (linkState in      *)
(* internal/links/monitor.go): how one probe sample moves the counters and *)
(* which status comes out of it. A sample is what is left of the probes of *)
(* one check: no host answered, slow or lossy, or good. The counters are   *)
(* only ever compared with their thresholds, so they stop there.           *)
(***************************************************************************)
EXTENDS Naturals

CONSTANTS FailThreshold,     \* unreachable checks in a row that mean offline
          RecoverThreshold,  \* good checks in a row that mean online
          Sustain            \* degraded checks in a row that mean degraded

ASSUME ThresholdAssumption ==
    /\ FailThreshold \in Nat \ {0}
    /\ RecoverThreshold \in Nat \ {0}
    /\ Sustain \in Nat \ {0}

Samples == {"down", "degraded", "good"}

Statuses == {"unknown", "online", "degraded", "offline"}

\* A row may also hold no status, when whoever saved it left the field out.
Stored == Statuses \union {""}

LinkState ==
    [fails : 0 .. FailThreshold, successes : 0 .. RecoverThreshold,
     degraded : 0 .. Sustain, episodeFired : BOOLEAN, last : Stored]

FreshState(status) ==
    [fails |-> 0, successes |-> 0, degraded |-> 0,
     episodeFired |-> FALSE, last |-> status]

UpTo(n, threshold) == IF n < threshold THEN n + 1 ELSE threshold

\* Mutant: a degraded check does not clear the failures before it.
CountFailsKept(st, sample) ==
    CASE sample = "down" -> UpTo(st.fails, FailThreshold)
      [] sample = "good" -> 0
      [] OTHER           -> st.fails

CountFails(st, sample) ==
    IF sample = "down" THEN UpTo(st.fails, FailThreshold) ELSE 0

CountSuccesses(st, sample) ==
    IF sample = "good" THEN UpTo(st.successes, RecoverThreshold) ELSE 0

CountDegraded(st, sample) ==
    IF sample = "degraded" THEN UpTo(st.degraded, Sustain) ELSE 0

\* The status that stays while no threshold is met. Mutant: as it was stored.
KeptRaw(prev) == prev

Kept(prev) == IF prev = "" THEN "unknown" ELSE prev

\* Whether the current run of degraded samples has had its alarm. Mutant: the
\* next sample forgets it.
EpisodeFiredBriefly(st, sample, fire) == fire

EpisodeFired(st, sample, fire) == fire \/ (st.episodeFired /\ sample = "degraded")

\* One sample: the three counters, the verdict, and whether the episode of
\* degradation has just become a sustained one. prev is the status of the row
\* the check started from.
Advance(st, sample, prev) ==
    LET fails     == CountFails(st, sample)
        successes == CountSuccesses(st, sample)
        degraded  == CountDegraded(st, sample)
        sustained == degraded >= Sustain
        fire      == sustained /\ ~st.episodeFired
        status    == CASE fails >= FailThreshold        -> "offline"
                       [] sustained                     -> "degraded"
                       [] successes >= RecoverThreshold -> "online"
                       [] OTHER                         -> Kept(prev)
    IN  [state  |-> [fails |-> fails, successes |-> successes,
                     degraded |-> degraded,
                     episodeFired |-> EpisodeFired(st, sample, fire),
                     last |-> status],
         status |-> status,
         fire   |-> fire]
=============================================================================
