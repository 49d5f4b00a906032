---------------------------- MODULE ChainReconcile ----------------------------
(***************************************************************************)
(* The chains input and forward are rebuilt from the database, command by   *)
(* command, under reconcileMu: by the groups, by the NTP toggle and by what *)
(* input protection depends on.  Commands may be refused, other writers of  *)
(* the ruleset save the boot file whenever they like, the process may die   *)
(* and the machine may reboot from that file.  The window of confirmation   *)
(* and its guard are in ConfirmWindow; here no window is open.              *)
(***************************************************************************)
EXTENDS Naturals, FiniteSets

CONSTANTS
    InputGroups, ForwardGroups, \* the administrator's groups, by scope
    MaxChainEdits,              \* bound on edits of the database
    MaxChainFaults,             \* bound on failures, crashes and reboots
    MaxChainEvents              \* bound on the two together

ASSUME ChainAssumption ==
    /\ InputGroups \cap ForwardGroups = {}
    /\ (InputGroups \cup ForwardGroups) \cap {"survival", "ntp", "wan drop", "management", "blocks"} = {}
    /\ MaxChainEdits \in Nat /\ MaxChainFaults \in Nat /\ MaxChainEvents \in Nat

VARIABLES
    want,       \* the rows the chains derive from
    live,       \* the table in the kernel
    bootFile,   \* /etc/nftables.conf
    turn,       \* the reconciliation that holds reconcileMu
    waiting,    \* reconciliations that wait for it, with the arguments they took
    ntpArmed,   \* the debounce timer of the NTP handler
    ntpCrossed, \* a reload of NTP carries a toggle that was changed since
    missed,     \* something was not read or refused since a whole pass began
    chainEdits, chainFaults

chainVars == <<want, live, bootFile, turn, waiting, ntpArmed, ntpCrossed,
               missed, chainEdits, chainFaults>>

AdminGroups == InputGroups \cup ForwardGroups
Policies == {"accept", "drop"}
Rows == [groups : SUBSET AdminGroups, input : Policies, forward : Policies,
         ntp : BOOLEAN, wans : BOOLEAN, closed : BOOLEAN]
Holders == {"groups", "protection", "boot"}
Call(by) == [by |-> by, ntp |-> FALSE]
NtpCall(serving) == [by |-> "ntp", ntp |-> serving]
Calls == {Call(by) : by \in Holders} \cup {NtpCall(b) : b \in BOOLEAN}
FreeTurn == [at |-> "free"]

-----------------------------------------------------------------------------
(* What the rows ask for.                                                  *)

\* SurvivalRules only under a restrictive policy: above the groups, they
\* would undo an administrator's refusal under a permissive one.
SurvivalPart(policy) == IF policy = "drop" THEN {"survival"} ELSE {}

\* The management ports pass before the drop of what arrives by a WAN; when
\* they are not known the drop is left out with them.
WanPart(rows, known) ==
    IF rows.wans /\ known
    THEN {"wan drop"} \cup (IF rows.closed THEN {} ELSE {"management"}) ELSE {}

InputChain(rows, ntp, known) ==
    [policy |-> rows.input,
     parts  |-> SurvivalPart(rows.input) \cup (IF ntp THEN {"ntp"} ELSE {})
                \cup (rows.groups \cap InputGroups) \cup WanPart(rows, known)]

ForwardChain(rows) ==
    [policy |-> rows.forward,
     parts  |-> SurvivalPart(rows.forward) \cup {"blocks"} \cup (rows.groups \cap ForwardGroups)]

Rendered(rows) ==
    [chains |-> rows.groups, input |-> InputChain(rows, rows.ntp, TRUE), forward |-> ForwardChain(rows)]

-----------------------------------------------------------------------------

ChainInit ==
    /\ want = [groups |-> AdminGroups, input |-> "accept", forward |-> "accept",
               ntp |-> FALSE, wans |-> TRUE, closed |-> FALSE]
    /\ live = Rendered(want) /\ bootFile = live
    /\ turn = FreeTurn /\ waiting = {}
    /\ ntpArmed = FALSE /\ ntpCrossed = FALSE /\ missed = FALSE
    /\ chainEdits = 0 /\ chainFaults = 0

RoomForEvent == chainEdits + chainFaults < MaxChainEvents
ChainEdit == chainEdits < MaxChainEdits /\ RoomForEvent /\ chainEdits' = chainEdits + 1
ChainFault == chainFaults < MaxChainFaults /\ RoomForEvent /\ chainFaults' = chainFaults + 1

\* The panel writes a row, then asks for the reconciliation of its chains.
EditRows ==
    /\ ChainEdit
    /\ \/ /\ \/ \E g \in AdminGroups :
                  want' = [want EXCEPT !.groups = IF g \in @ THEN @ \ {g} ELSE @ \cup {g}]
             \/ \E p \in Policies : p # want.input /\ want' = [want EXCEPT !.input = p]
             \/ \E p \in Policies : p # want.forward /\ want' = [want EXCEPT !.forward = p]
             \/ want' = [want EXCEPT !.closed = ~@]
          /\ waiting' = waiting \cup {Call("groups")}
       \/ want' = [want EXCEPT !.wans = ~@] /\ waiting' = waiting \cup {Call("protection")}
    /\ UNCHANGED <<live, bootFile, turn, ntpArmed, ntpCrossed, missed, chainFaults>>

\* The NTP handlers save the toggle and arm a timer; a reload that took the
\* toggle before is overtaken.
EditNtp ==
    /\ ChainEdit
    /\ want' = [want EXCEPT !.ntp = ~@]
    /\ ntpArmed' = TRUE
    /\ ntpCrossed' = (ntpCrossed \/ (turn.at # "free" /\ turn.call.by = "ntp")
                                 \/ \E c \in waiting : c.by = "ntp")
    /\ UNCHANGED <<live, bootFile, turn, waiting, missed, chainFaults>>

\* doReload reads the toggle long before it holds reconcileMu.
NtpReloads ==
    /\ ntpArmed
    /\ ntpArmed' = FALSE
    /\ waiting' = waiting \cup {NtpCall(want.ntp)}
    /\ UNCHANGED <<want, live, bootFile, turn, ntpCrossed, missed, chainEdits, chainFaults>>

Whole(call) == call.by \in {"groups", "boot"}

\* When the groups fail at boot, the NTP rules are reconciled by themselves.
Afterwards(call, bad) == IF call.by = "boot" /\ bad THEN {NtpCall(want.ntp)} ELSE {}

\* The groups are read by the holder of the mutex; a read that fails leaves
\* the chains as they are.
TakeTurn(call) ==
    /\ turn.at = "free" /\ call \in waiting
    /\ \/ /\ turn' = [at |-> IF Whole(call) THEN "create" ELSE "declare",
                      call |-> call, groups |-> want.groups, bad |-> FALSE, input |-> {}]
          /\ waiting' = waiting \ {call}
          /\ missed' = (missed /\ ~Whole(call))
          /\ UNCHANGED chainFaults
       \/ /\ ChainFault /\ missed' = TRUE
          /\ waiting' = (waiting \ {call}) \cup Afterwards(call, TRUE)
          /\ UNCHANGED turn
    /\ UNCHANGED <<want, live, bootFile, ntpArmed, ntpCrossed, chainEdits>>

\* One command: the kernel takes it, or refuses it and `otherwise` comes next.
Command(at, table, next, otherwise) ==
    /\ turn.at = at
    /\ \/ live' = table /\ turn' = [turn EXCEPT !.at = next] /\ UNCHANGED <<missed, chainFaults>>
       \/ /\ ChainFault /\ missed' = TRUE
          /\ turn' = [turn EXCEPT !.at = otherwise, !.bad = TRUE] /\ UNCHANGED live
    /\ UNCHANGED <<want, bootFile, waiting, ntpArmed, ntpCrossed, chainEdits>>

\* The chains of the groups come before the jumps to them.
CreateChains ==
    Command("create", [live EXCEPT !.chains = @ \cup turn.groups], "forward", "end")

\* Mutant: the survival rules are left to the pass that follows.
NewForwardBare == [ForwardChain([want EXCEPT !.groups = turn.groups]) EXCEPT !.parts = @ \ {"survival"}]

NewForward == ForwardChain([want EXCEPT !.groups = turn.groups])

\* Restrictive: one script with the survival rules, all of it or nothing.
\* Permissive: declare, flush and fill.
RebuildForward ==
    \/ /\ turn.at = "forward" /\ want.forward = "drop"
       /\ Command("forward", [live EXCEPT !.forward = NewForward], "declare", "declare")
    \/ /\ turn.at = "forward" /\ want.forward = "accept"
       /\ Command("forward", [live EXCEPT !.forward.policy = "accept"], "flushForward", "end")
    \/ Command("flushForward", [live EXCEPT !.forward.parts = {}], "fillForward", "declare")
    \/ Command("fillForward", [live EXCEPT !.forward.parts =
                 ForwardChain([want EXCEPT !.groups = turn.groups, !.forward = "accept"]).parts],
               "declare", "declare")

\* What the input chain is made of is read before its first command; not to
\* know the management ports aborts under a restrictive policy, and under a
\* permissive one leaves out the drop of what arrives by the WANs.
DeclareInput ==
    /\ turn.at = "declare"
    /\ \E known \in BOOLEAN :
         /\ IF known THEN UNCHANGED <<missed, chainFaults>>
            ELSE ChainFault /\ missed' = TRUE /\ want.input = "accept"
         /\ live' = [live EXCEPT !.input.policy = want.input]
         /\ turn' = [turn EXCEPT !.at = "flush", !.input =
               InputChain([want EXCEPT !.groups = turn.groups],
                          IF turn.call.by = "ntp" THEN turn.call.ntp ELSE want.ntp, known).parts]
    /\ UNCHANGED <<want, bootFile, waiting, ntpArmed, ntpCrossed, chainEdits>>

InputNotRead ==
    /\ turn.at = "declare" /\ ChainFault /\ missed' = TRUE
    /\ turn' = [turn EXCEPT !.at = "cleanup", !.bad = TRUE]
    /\ UNCHANGED <<want, live, bootFile, waiting, ntpArmed, ntpCrossed, chainEdits>>

FlushInput == Command("flush", [live EXCEPT !.input.parts = {}], "fill", "cleanup")

\* nft refuses a jump to a chain that does not exist, and may refuse any
\* rule: it is skipped, and the others are added.
FillInput ==
    /\ turn.at = "fill"
    /\ \E refused \in {{}} \cup {{p} : p \in turn.input} :
         LET kept == {p \in turn.input \ refused : p \in AdminGroups => p \in live.chains} IN
         /\ IF refused = {} THEN UNCHANGED chainFaults ELSE ChainFault
         /\ live' = [live EXCEPT !.input.parts = kept]
         /\ missed' = (missed \/ kept # turn.input)
         /\ turn' = [turn EXCEPT !.at = "cleanup", !.bad = @ \/ kept # turn.input]
    /\ UNCHANGED <<want, bootFile, waiting, ntpArmed, ntpCrossed, chainEdits>>

Orphans == live.chains \ turn.groups

\* nft refuses to delete a chain something jumps to.
Jumped == live.input.parts \cup live.forward.parts

\* Only a pass that rebuilt both chains cleans up, and only the groups' do.
DeleteOrphans ==
    /\ turn.at = "cleanup" /\ ~turn.bad /\ Whole(turn.call)
    /\ Command("cleanup", [live EXCEPT !.chains = @ \ (Orphans \ Jumped)], "persist", "persist")

SkipCleanup ==
    /\ turn.at = "cleanup" /\ (turn.bad \/ ~Whole(turn.call))
    /\ turn' = [turn EXCEPT !.at = IF turn.bad THEN "end" ELSE "persist"]
    /\ UNCHANGED <<want, live, bootFile, waiting, ntpArmed, ntpCrossed, missed, chainEdits, chainFaults>>

PersistTurn ==
    /\ turn.at = "persist"
    /\ \/ bootFile' = live /\ UNCHANGED chainFaults
       \/ ChainFault /\ UNCHANGED bootFile
    /\ turn' = [turn EXCEPT !.at = "end"]
    /\ UNCHANGED <<want, live, waiting, ntpArmed, ntpCrossed, missed, chainEdits>>

EndTurn ==
    /\ turn.at = "end"
    /\ turn' = FreeTurn
    /\ waiting' = waiting \cup Afterwards(turn.call, turn.bad)
    /\ UNCHANGED <<want, live, bootFile, ntpArmed, ntpCrossed, missed, chainEdits, chainFaults>>

TurnStep ==
    \/ CreateChains \/ RebuildForward \/ DeclareInput \/ InputNotRead \/ FlushInput \/ FillInput
    \/ DeleteOrphans \/ SkipCleanup \/ PersistTurn \/ EndTurn

-----------------------------------------------------------------------------

\* NAT, blocks, port forwards save the whole table too, without the mutex.
OthersPersist ==
    /\ bootFile' = live
    /\ UNCHANGED <<want, live, turn, waiting, ntpArmed, ntpCrossed, missed, chainEdits, chainFaults>>

\* The process starts again, over the kernel it left or, when the machine
\* rebooted, over the boot file, and its boot pass rebuilds the chains.
ChainRestart ==
    /\ ChainFault
    /\ live' \in {live, bootFile}
    /\ turn' = FreeTurn
    /\ waiting' = {Call("protection"), Call("boot")}
    /\ ntpArmed' = FALSE /\ ntpCrossed' = FALSE
    /\ UNCHANGED <<want, bootFile, missed, chainEdits>>

ChainNext ==
    \/ EditRows \/ EditNtp \/ NtpReloads \/ OthersPersist \/ ChainRestart
    \/ \E c \in Calls : TakeTurn(c)
    \/ TurnStep

ChainSpec == ChainInit /\ [][ChainNext]_chainVars

-----------------------------------------------------------------------------
\* Type invariant of the reconciliation of the chains.
ChainTypeOK ==
    /\ want \in Rows
    /\ \A t \in {live, bootFile} :
         /\ t.chains \subseteq AdminGroups
         /\ t.input.policy \in Policies /\ t.forward.policy \in Policies
         /\ t.input.parts \subseteq {"survival", "ntp", "wan drop", "management"} \cup InputGroups
         /\ t.forward.parts \subseteq {"survival", "blocks"} \cup ForwardGroups
    /\ turn.at \in {"free", "create", "forward", "flushForward", "fillForward", "declare", "flush",
                    "fill", "cleanup", "persist", "end"}
    /\ waiting \subseteq Calls
    /\ ntpArmed \in BOOLEAN /\ ntpCrossed \in BOOLEAN /\ missed \in BOOLEAN
    /\ chainEdits \in 0..MaxChainEdits /\ chainFaults \in 0..MaxChainFaults

\* rebuildChainAtomic: at no instant, whatever is refused, killed, saved half
\* way or rebooted, does the table drop what it forwards by default without
\* the survival rules in the same chain.
ForwardNeverCut ==
    \A t \in {live, bootFile} : t.forward.policy = "drop" => "survival" \in t.forward.parts

\* "Atomic only where atomicity is necessary": the same of the input chain.
InputNeverCut ==
    \A t \in {live, bootFile} : t.input.policy = "drop" => "survival" \in t.input.parts

\* reconcileMu: once nothing runs, the kernel and the boot file are what the
\* rows ask for, whoever asked in which order, unless something failed or a
\* reload of NTP was overtaken by another edit of it.
ChainsFollowRows ==
    turn.at = "free" /\ waiting = {} /\ ~ntpArmed /\ chainFaults = 0 /\ ~ntpCrossed =>
      live = Rendered(want) /\ bootFile = live

\* reconcileGroups ends a pass that failed half way without cleaning up, and
\* the boot pass repairs what a crash left: once the last pass over the
\* groups missed nothing, what the rows ask for is in the kernel in the end.
RowsReachChains == <>[](~missed) => <>[](live = Rendered(want) \/ ntpCrossed)
=============================================================================
