----------------------------- MODULE SteerRouting -----------------------------
(***************************************************************************)
(* The policy routing of pinned hosts (wan_steer, balancer/service.go):    *)
(* one "ip rule" must send the mark written on their packets to a table.   *)
(* EnsureSteerRouting runs at boot and at every tick; it adds the rule,    *)
(* looks again, and raises or closes the alert about what it then sees.    *)
(* The routes inside the table and the validation of the fields are left   *)
(* out: only the rule decides whether the mark is obeyed.                  *)
(***************************************************************************)
EXTENDS Naturals

CONSTANTS
    Marks, Tables,  \* fwmarks and routing tables an operator may name
    OtherRules,     \* rules <<mark, table>> that other parts installed
    MaxSteerEvents  \* bound on edits, lost rules and commands that fail

ASSUME SteerAssumption == OtherRules \subseteq Marks \X Tables /\ MaxSteerEvents \in Nat

VARIABLES
    steer,      \* setting wan_steer: off, or a mark and a table
    known,      \* the tables /etc/iproute2/rt_tables names
    rules,      \* the ip rules in the kernel
    pinned,     \* the marks some host of map host_wan carries
    steerAlert, \* a SteerInativo alert is open
    ensure,     \* the running calls of EnsureSteerRouting
    steerSpent

steerVars == <<steer, known, rules, pinned, steerAlert, ensure, steerSpent>>

Callers == {"boot", "ticker"}
Steers == Marks \X Tables
NoSteer == <<>>
IdleEnsure == [at |-> "idle", steer |-> NoSteer]

\* The two texts are looked for anywhere in the output of "ip rule show".
RuleSeen(s) == /\ \E r \in rules : r[1] = s[1]
               /\ \E r \in rules : r[2] = s[2]

RuleThere(s) == s \in rules

SteerInit ==
    /\ steer \in Steers \cup {NoSteer}
    /\ known \in SUBSET Tables
    /\ rules = OtherRules
    /\ pinned \in SUBSET Marks
    /\ steerAlert = FALSE
    /\ ensure = [c \in Callers |-> IdleEnsure]
    /\ steerSpent = 0

SteerEvent == steerSpent < MaxSteerEvents /\ steerSpent' = steerSpent + 1

SaveSteer ==
    /\ steer' \in (Steers \cup {NoSteer}) \ {steer}
    /\ SteerEvent
    /\ UNCHANGED <<known, rules, pinned, steerAlert, ensure>>

RuleLost ==
    /\ \E r \in rules : rules' = rules \ {r}
    /\ SteerEvent
    /\ UNCHANGED <<steer, known, pinned, steerAlert, ensure>>

PinsChange ==
    /\ pinned' \in SUBSET Marks
    /\ pinned' # pinned
    /\ SteerEvent
    /\ UNCHANGED <<steer, known, rules, steerAlert, ensure>>

TableAppears ==
    /\ \E t \in Tables \ known : known' = known \cup {t}
    /\ SteerEvent
    /\ UNCHANGED <<steer, rules, pinned, steerAlert, ensure>>

\* A setting that is off is a condition solved: its alert closes.
EnsureLoads(c) ==
    /\ ensure[c].at = "idle"
    /\ \/ /\ steer = NoSteer
          /\ steerAlert' = FALSE
          /\ UNCHANGED ensure
       \/ /\ steer # NoSteer
          /\ ensure' = [ensure EXCEPT ![c] = [at |-> "rule", steer |-> steer]]
          /\ UNCHANGED steerAlert
    /\ UNCHANGED <<steer, known, rules, pinned, steerSpent>>

EnsureAddsRule(c) ==
    /\ ensure[c].at = "rule"
    /\ LET s == ensure[c].steer IN
         \/ /\ ~RuleSeen(s) /\ s[2] \in known
            /\ rules' = rules \cup {s}
            /\ UNCHANGED steerSpent
         \/ /\ RuleSeen(s) \/ s[2] \notin known
            /\ UNCHANGED <<rules, steerSpent>>
         \/ /\ ~RuleSeen(s)
            /\ SteerEvent
            /\ UNCHANGED rules
    /\ ensure' = [ensure EXCEPT ![c].at = "check"]
    /\ UNCHANGED <<steer, known, pinned, steerAlert>>

\* What the check says: no rule, and somebody pinned to the mark.
AlertAfter(s) == ~RuleSeen(s) /\ s[1] \in pinned

\* Neither a failed "ip rule show" nor a failed count hides an open problem.
EnsureChecks(c) ==
    /\ ensure[c].at = "check"
    /\ \/ steerAlert' = AlertAfter(ensure[c].steer) /\ UNCHANGED steerSpent
       \/ steerAlert' \in {steerAlert, ~RuleSeen(ensure[c].steer)} /\ SteerEvent
    /\ ensure' = [ensure EXCEPT ![c] = IdleEnsure]
    /\ UNCHANGED <<steer, known, rules, pinned>>

\* A restart closes the alert (ResolveStaleOnStartup) and forgets the calls.
SteerRestart ==
    /\ SteerEvent
    /\ steerAlert' = FALSE
    /\ ensure' = [c \in Callers |-> IdleEnsure]
    /\ UNCHANGED <<steer, known, rules, pinned>>

EnsureStep(c) == EnsureLoads(c) \/ EnsureAddsRule(c) \/ EnsureChecks(c)

SteerNext ==
    \/ \E c \in Callers : EnsureStep(c)
    \/ SaveSteer \/ RuleLost \/ PinsChange \/ TableAppears \/ SteerRestart

SteerSpec == SteerInit /\ [][SteerNext]_steerVars

-----------------------------------------------------------------------------
\* Type invariant of the steering.
SteerTypeOK ==
    /\ steer \in Steers \cup {NoSteer}
    /\ known \subseteq Tables /\ rules \subseteq Steers /\ pinned \subseteq Marks
    /\ steerAlert \in BOOLEAN
    /\ \A c \in Callers :
         /\ ensure[c].at \in {"idle", "rule", "check"}
         /\ ensure[c].steer \in Steers \cup {NoSteer}
         /\ ensure[c].at # "idle" => ensure[c].steer # NoSteer
    /\ steerSpent \in 0..MaxSteerEvents

Misled == steer # NoSteer /\ ~RuleThere(steer) /\ steer[1] \in pinned

\* Two other rules whose texts together look like the one that is missing.
LooksThere == steer # NoSteer /\ RuleSeen(steer) /\ ~RuleThere(steer)

\* conferirSteer: pinned hosts whose mark nothing obeys end up with an alert
\* (unless other rules look like the missing one), and an alert about hosts
\* that are served, released or no longer steered does not stay.
SteerAlertTruthful ==
    /\ <>[](Misled /\ ~LooksThere) => <>[]steerAlert
    /\ <>[]~Misled => <>[]~steerAlert
=============================================================================
