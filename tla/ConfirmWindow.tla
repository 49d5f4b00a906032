---------------------------- MODULE ConfirmWindow ----------------------------
(***************************************************************************)
(* Confirm-or-revert: a change that reaches the input chain is applied for  *)
(* ninety seconds and goes back by itself unless an operator confirms it.   *)
(*                                                                          *)
(* One database (groups, rules, settings and the single pending row), one   *)
(* kernel ruleset and one boot file are shared by                           *)
(*   - HTTP requests that change the firewall (ApplyGuarded), confirm a     *)
(*     window or revert it,                                                 *)
(*   - the watchdog (WatchPending),                                         *)
(*   - the boot goroutine (provisionSystem),                                *)
(* with two mutexes: firewallrules.Service.mu (here `crit`) and             *)
(* nftables.Service.reconcileMu (here `recon`).  The write of a mutation    *)
(* happens under neither of them.                                           *)
(*                                                                          *)
(* An action is a run of code between two points where another process can  *)
(* see or change what this one uses.  A section under s.mu that touches the *)
(* database once is one action; revert(), which touches it several times    *)
(* and runs the reconciliation, is one action per database or nft call.     *)
(*                                                                          *)
(* History variables (no counterpart in the code): approved, everApproved,  *)
(* escaped.                                                                 *)
(***************************************************************************)
EXTENDS Naturals, RowMerge

CONSTANTS
    Requests,      \* concurrent HTTP requests
    Settings,      \* input policy, forward policy, closed WAN management
    SettingValues,
    InitRows,      \* the table before the first request
    InitSettings,
    Mutations,     \* what requests ask for: <<row or setting, new contents>>
    Faults,        \* the calls that may fail
    PromptWrites,  \* TRUE: nobody decides a window whose request has not written yet
    MaxMutations,  \* bound on mutations per behaviour
    MaxFaults,     \* bound on failed calls per behaviour
    MaxCrashes,    \* bound on restarts per behaviour
    NoPending, NoState, NoSettings

Watchdog == "watchdog"
Boot     == "boot"
Nobody   == "nobody"
Procs    == Requests \cup {Watchdog, Boot}

NoWindow   == 0
WindowIds  == 1 .. MaxMutations
SettingState == [Settings -> SettingValues]

\* A snapshot made by mergeRevertTarget carries rows and nothing else.
State    == [rows : RowState, settings : SettingState]
Snapshot == [rows : RowState, settings : SettingState \cup {NoSettings}]
NoTarget == [rows |-> InitRows, settings |-> NoSettings]

Window == [id        : WindowIds,
           snapshot  : Snapshot,
           applied   : RowState \cup {NoState},
           reverting : BOOLEAN]

FaultNames == {"read", "arm", "write", "mark", "snapshot", "replace", "settings",
               "reverting", "clear", "nft", "persist"}

ASSUME ConfirmWindowAssumption ==
    /\ {Watchdog, Boot, Nobody} \cap Requests = {}
    /\ Settings \cap Rows = {}
    /\ InitRows \in RowState
    /\ InitSettings \in SettingState
    /\ NoSettings \notin SettingState
    /\ NoState \notin RowState
    /\ NoPending \notin Window
    /\ Mutations \subseteq (Rows \X (Values \cup {Absent})) \cup (Settings \X SettingValues)
    /\ Faults \subseteq FaultNames
    /\ PromptWrites \in BOOLEAN
    /\ MaxMutations \in Nat /\ MaxFaults \in Nat /\ MaxCrashes \in Nat

VARIABLES
    db,       \* groups, rules and settings in SQLite
    pending,  \* the row of pending_firewall_change, or NoPending
    live,     \* what the kernel enforces
    file,     \* /etc/nftables.conf
    crit,     \* the section running under Service.mu: holder, step, revert target
    recon,    \* the reconciliation running under reconcileMu
    req,      \* what each request is doing
    boot,     \* the boot goroutine: step and bootPendingChecked
    expired,  \* the ninety seconds of the open window are over
    begun,    \* mutations begun so far: numbers the windows
    faults,   \* calls that failed so far
    epoch,    \* restarts so far
    approved,     \* the guarded state last accepted by an operator
    everApproved, \* every guarded state ever accepted, as stored or as enforced
    escaped       \* an input change was written outside its window

stores  == <<db, pending, live, file>>
locks   == <<crit, recon>>
history == <<approved, everApproved, escaped>>
vars    == <<db, pending, live, file, crit, recon, req, boot, expired,
             begun, faults, epoch, approved, everApproved, escaped>>

-----------------------------------------------------------------------------
(* What a window guards *)

Guarded(st) == [rows |-> InputOf(st.rows), settings |-> st.settings]

InitState == [rows |-> InitRows, settings |-> InitSettings]
CritOff   == [by |-> Nobody, stage |-> "off", target |-> NoTarget]
ReconOff  == [by |-> Nobody, stage |-> "off", loaded |-> InitState, outcome |-> "ok"]
Idle      == [pc |-> "idle", mutation |-> <<>>, number |-> 0, existed |-> FALSE, wid |-> NoWindow]

Existing(key) == IF key \in Rows THEN db.rows[key] ELSE db.settings[key]

\* Mutation.Window(): judged on what the handler read when the request came in.
\* Policy and WAN-management changes always ask for a window.
NeedsWindow(key, existing, new) ==
    key \in Rows => TouchesInput(existing) \/ TouchesInput(new)

\* RevertSettled: stateMatchesSnapshot compares groups and rules, not settings.
RevertSettled ==
    /\ pending # NoPending
    /\ pending.reverting
    /\ db.rows = pending.snapshot.rows

\* guardWindowOpen, and the same test under the mutex in openWindowLocked.
WindowFree == pending = NoPending \/ RevertSettled

IsOpen(id) == pending # NoPending /\ pending.id = id

\* The call that fails is one of Faults, and the budget is not spent.
Fails(call) == call \in Faults /\ faults < MaxFaults /\ faults' = faults + 1

\* With PromptWrites, no decision, deadline or boot pass falls between arming and writing.
Undisturbed ==
    PromptWrites => \A q \in Requests :
        ~ (req[q].pc = "write" /\ pending # NoPending /\ req[q].wid = pending.id)

-----------------------------------------------------------------------------
(* ApplyGuarded, step by step *)

\* The handler reads the row, the lock-free guard looks for a window, the
\* pre-flight passes.  A request that any of them refuses changes nothing.
Begin(r, m) ==
    /\ req[r].pc = "idle"
    /\ begun < MaxMutations
    /\ Existing(m[1]) # m[2]
    /\ WindowFree
    /\ begun' = begun + 1
    /\ req' = [req EXCEPT ![r] =
                 [pc       |-> IF NeedsWindow(m[1], Existing(m[1]), m[2]) THEN "arm" ELSE "write",
                  mutation |-> m,
                  number   |-> begun + 1,
                  existed  |-> Existing(m[1]) # Absent,
                  wid      |-> NoWindow]]
    /\ UNCHANGED <<stores, locks, boot, expired, faults, epoch, history>>

\* Mutant: the window is not numbered.
NewWindowUnnumbered(r) ==
    [id |-> NoWindow, snapshot |-> db, applied |-> NoState, reverting |-> FALSE]

NewWindow(r) ==
    [id |-> req[r].number, snapshot |-> db, applied |-> NoState,
     reverting |-> FALSE]

\* openWindowLocked, when the pending row can be written.
ArmOpens(r) ==
    /\ req[r].pc = "arm"
    /\ crit.stage = "off"
    /\ WindowFree
    /\ pending' = NewWindow(r)
    /\ expired' = FALSE
    /\ req' = [req EXCEPT ![r].pc = "write", ![r].wid = req[r].number]
    /\ UNCHANGED <<db, live, file, locks, boot, begun, faults, epoch, history>>

\* A window conflict, or an error while reading or saving.  A settled window may
\* already have been deleted when the insert of the new one fails.
ArmRefused(r) ==
    /\ req[r].pc = "arm"
    /\ crit.stage = "off"
    /\ \/ ~ WindowFree /\ UNCHANGED <<pending, faults>>
       \/ /\ Fails("arm")
          /\ pending' \in {pending} \cup (IF RevertSettled THEN {NoPending} ELSE {})
    /\ req' = [req EXCEPT ![r] = Idle]
    /\ UNCHANGED <<db, live, file, locks, boot, expired, begun, epoch, history>>

\* An UPDATE or DELETE of a row that is gone reports "not found"; an INSERT
\* needs a free id.
Writable(r) ==
    LET key == req[r].mutation[1] IN
    key \in Rows => (req[r].existed <=> db.rows[key] # Absent)

Written(r) ==
    LET m == req[r].mutation IN
    IF m[1] \in Rows THEN [db EXCEPT !.rows = [@ EXCEPT ![m[1]] = m[2]]]
                     ELSE [db EXCEPT !.settings = [@ EXCEPT ![m[1]] = m[2]]]

\* The window the request armed is still the open one, and no revert has put the
\* earlier state back yet.
Covered(r) ==
    /\ IsOpen(req[r].wid)
    /\ ~ pending.reverting
    /\ crit.stage \in {"off", "read", "replace"}

\* Mutation.Write(): under no mutex.
Write(r) ==
    /\ req[r].pc = "write"
    /\ Writable(r)
    /\ db' = Written(r)
    /\ escaped' = (escaped \/ (Guarded(db') # Guarded(db) /\ ~ Covered(r)))
    /\ req' = [req EXCEPT ![r].pc = IF req[r].wid = NoWindow THEN "recon" ELSE "mark"]
    /\ UNCHANGED <<pending, live, file, locks, boot, expired, begun, faults, epoch,
                   approved, everApproved>>

WriteFails(r) ==
    /\ req[r].pc = "write"
    /\ \/ ~ Writable(r) /\ UNCHANGED faults
       \/ Fails("write")
    /\ req' = [req EXCEPT ![r] = IF @.wid = NoWindow THEN Idle ELSE [@ EXCEPT !.pc = "discard"]]
    /\ UNCHANGED <<stores, locks, boot, expired, begun, epoch, history>>

\* Mutant: any window that is not being reverted.
DiscardableAnyone(r) == pending # NoPending /\ ~ pending.reverting

\* DiscardWindow: only its own window, and only while no revert has begun.
Discardable(r) == IsOpen(req[r].wid) /\ ~ pending.reverting

Discard(r) ==
    /\ req[r].pc = "discard"
    /\ crit.stage = "off"
    /\ \/ Discardable(r) /\ pending' = NoPending /\ UNCHANGED faults
       \/ ~ Discardable(r) /\ UNCHANGED <<pending, faults>>
       \/ Fails("clear") /\ UNCHANGED pending
    /\ req' = [req EXCEPT ![r] = Idle]
    /\ UNCHANGED <<db, live, file, locks, boot, expired, begun, epoch, history>>

\* MarkWindowApplied: an UPDATE that hits no row when the window is gone; a
\* failure is only logged.
Mark(r) ==
    /\ req[r].pc = "mark"
    /\ crit.stage = "off"
    /\ \/ /\ pending' = IF IsOpen(req[r].wid) THEN [pending EXCEPT !.applied = db.rows] ELSE pending
          /\ UNCHANGED faults
       \/ Fails("mark") /\ UNCHANGED pending
    /\ req' = [req EXCEPT ![r].pc = "recon"]
    /\ UNCHANGED <<db, live, file, locks, boot, expired, begun, epoch, history>>

-----------------------------------------------------------------------------
(* Leaving the section under Service.mu, entering it to revert *)

\* Mutant: a marked revert is started over.
EnterRevertAgain(p) == crit' = [by |-> p, stage |-> "read", target |-> NoTarget]

\* revert() resumes a revert already marked at its reconciliation.
EnterRevert(p) ==
    crit' = [by |-> p, stage |-> IF pending.reverting THEN "recon" ELSE "read", target |-> NoTarget]

\* Mutant: an error path returns without the unlock.
LeaveCritLocked(completed) ==
    /\ crit' = IF completed THEN CritOff ELSE [crit EXCEPT !.stage = "locked"]
    /\ req'  = [q \in Requests |-> IF q = crit.by THEN Idle ELSE req[q]]
    /\ boot' = IF crit.by = Boot THEN [pc |-> "recon", checked |-> completed] ELSE boot

\* The mutex is released; whoever held it goes on, the boot pass remembering
\* whether its check was completed.
LeaveCrit(completed) ==
    /\ crit' = CritOff
    /\ req'  = [q \in Requests |-> IF q = crit.by THEN Idle ELSE req[q]]
    /\ boot' = IF crit.by = Boot THEN [pc |-> "recon", checked |-> completed] ELSE boot

-----------------------------------------------------------------------------
(* Reconcile: the database is read inside reconcileMu, then nft is called *)

WantsRecon(p) ==
    \/ p = crit.by /\ crit.stage = "recon"
    \/ p \in Requests /\ req[p].pc = "recon"
    \/ p = Boot /\ boot.pc = "recon"

ReconLoad(p) ==
    /\ recon.stage = "off"
    /\ WantsRecon(p)
    /\ recon' = [by |-> p, stage |-> "apply", loaded |-> db, outcome |-> "ok"]
    /\ UNCHANGED <<stores, crit, req, boot, expired, begun, faults, epoch, history>>

\* A pass that fails leaves each row as it was, as it should be, or flushed and
\* refused; each chain policy as it was or as it should be.
Between(old, new) ==
    {st \in State : /\ \A r \in Rows : st.rows[r] \in {old.rows[r], new.rows[r], Absent}
                   /\ \A s \in Settings : st.settings[s] \in {old.settings[s], new.settings[s]}}

\* When forward and input were rebuilt and only some group's own chain was not
\* ("partial"), the ruleset is persisted although the pass failed.
ReconApply ==
    /\ recon.stage = "apply"
    /\ \/ /\ live' = recon.loaded
          /\ recon' = [recon EXCEPT !.stage = "persist"]
          /\ UNCHANGED faults
       \/ /\ Fails("nft")
          /\ live' \in Between(live, recon.loaded)
          /\ \/ recon' = [recon EXCEPT !.stage = "persist", !.outcome = "failed"]
             \/ /\ live'.settings = recon.loaded.settings
                /\ recon' = [recon EXCEPT !.stage = "persist", !.outcome = "partial"]
    /\ UNCHANGED <<db, pending, file, crit, req, boot, expired, begun, epoch, history>>

\* Where Reconcile returns to: ApplyGuarded's tail, finishRevert, or the boot pass.
ReconReturns(p, ok) ==
    IF p = crit.by /\ crit.stage = "recon" THEN
        IF ok THEN crit' = [crit EXCEPT !.stage = "clear"] /\ UNCHANGED <<req, boot>>
              ELSE LeaveCrit(FALSE)
    ELSE IF p = Boot THEN
        /\ boot' \in {[boot EXCEPT !.pc = "done"], [boot EXCEPT !.pc = "base"]}
        /\ UNCHANGED <<crit, req>>
    ELSE
        /\ req' = [req EXCEPT ![p] =
                     IF ok THEN IF @.wid = NoWindow THEN [@ EXCEPT !.pc = "finish"] ELSE Idle
                           ELSE IF @.wid = NoWindow THEN Idle ELSE [@ EXCEPT !.pc = "abort"]]
        /\ UNCHANGED <<crit, boot>>

\* The persist guard main.go installs: the open window keeps the boot file as it is.
PersistBlocked == pending # NoPending

\* Persist, still under reconcileMu.
ReconPersist ==
    /\ recon.stage = "persist"
    /\ \/ /\ file' = IF recon.outcome # "failed" /\ ~ PersistBlocked THEN live ELSE file
          /\ UNCHANGED faults
       \/ Fails("persist") /\ UNCHANGED file
    /\ recon' = ReconOff
    /\ ReconReturns(recon.by, recon.outcome = "ok")
    /\ UNCHANGED <<db, pending, live, expired, begun, epoch, history>>

\* Mutant: any open window passes for one being reverted.
RevertBegunWhenOpen == pending # NoPending

\* FinishSettledRevert, after a windowless mutation reconciled: a window being
\* reverted is closed on the strength of that reconciliation.
RevertBegun == pending # NoPending /\ pending.reverting

Finish(r) ==
    /\ req[r].pc = "finish"
    /\ crit.stage = "off"
    /\ IF RevertBegun
       THEN \/ /\ pending' = NoPending
               /\ crit' = [by |-> r, stage |-> "persist", target |-> NoTarget]
               /\ req' = [req EXCEPT ![r].pc = "busy"]
               /\ UNCHANGED faults
            \/ Fails("clear") /\ req' = [req EXCEPT ![r] = Idle] /\ UNCHANGED <<pending, crit>>
       ELSE req' = [req EXCEPT ![r] = Idle] /\ UNCHANGED <<pending, crit, faults>>
    /\ UNCHANGED <<db, live, file, recon, boot, expired, begun, epoch, history>>

-----------------------------------------------------------------------------
(* revert(), under Service.mu *)

AppliedOrSnapshot == IF pending.applied = NoState THEN pending.snapshot.rows ELSE pending.applied

\* Mutant: snapshot and current state swapped.
MergedTargetSwapped ==
    [rows     |-> MergeRows(db.rows, AppliedOrSnapshot, pending.snapshot.rows),
     settings |-> NoSettings]

\* mergeRevertTarget: the mixture carries rows only.
MergedTarget ==
    [rows     |-> MergeRows(pending.snapshot.rows, AppliedOrSnapshot, db.rows),
     settings |-> NoSettings]

\* revertTarget: with something to preserve, the mixture replaces the snapshot
\* before it is applied.
RevertRead ==
    /\ crit.stage = "read"
    /\ IF Merges(pending.snapshot.rows, AppliedOrSnapshot, db.rows)
       THEN \/ /\ pending' = [pending EXCEPT !.snapshot = MergedTarget]
               /\ crit' = [crit EXCEPT !.stage = "replace", !.target = MergedTarget]
               /\ UNCHANGED <<req, boot, faults>>
            \/ Fails("snapshot") /\ LeaveCrit(FALSE) /\ UNCHANGED pending
       ELSE /\ crit' = [crit EXCEPT !.stage = "replace", !.target = pending.snapshot]
            /\ UNCHANGED <<pending, req, boot, faults>>
    /\ UNCHANGED <<db, live, file, recon, expired, begun, epoch, history>>

\* Mutant: a failed transaction is only logged.
RevertReplaceLogged ==
    /\ crit.stage = "replace"
    /\ \/ db' = [db EXCEPT !.rows = crit.target.rows] /\ UNCHANGED faults
       \/ Fails("replace") /\ UNCHANGED db
    /\ crit' = [crit EXCEPT !.stage = "settings"]
    /\ UNCHANGED <<pending, live, file, recon, req, boot, expired, begun, epoch, history>>

\* ReplaceFirewallGroupsAndRules, one transaction.
RevertReplace ==
    /\ crit.stage = "replace"
    /\ \/ /\ db' = [db EXCEPT !.rows = crit.target.rows]
          /\ crit' = [crit EXCEPT !.stage = "settings"]
          /\ UNCHANGED <<req, boot, faults>>
       \/ Fails("replace") /\ LeaveCrit(FALSE) /\ UNCHANGED db
    /\ UNCHANGED <<pending, live, file, recon, expired, begun, epoch, history>>

\* SetInputPolicy, SetForwardPolicy, SetWANMgmtClosed: each failure is only
\* logged, and nothing is restored when the snapshot does not carry settings.
RevertSettings ==
    /\ crit.stage = "settings"
    /\ IF crit.target.settings = NoSettings
       THEN UNCHANGED <<db, faults>>
       ELSE \/ db' = [db EXCEPT !.settings = crit.target.settings] /\ UNCHANGED faults
            \/ /\ Fails("settings")
               /\ \E lost \in SUBSET Settings :
                    db' = [db EXCEPT !.settings =
                             [s \in Settings |-> IF s \in lost THEN @[s] ELSE crit.target.settings[s]]]
    /\ crit' = [crit EXCEPT !.stage = "mark"]
    /\ UNCHANGED <<pending, live, file, recon, req, boot, expired, begun, epoch, history>>

RevertMark ==
    /\ crit.stage = "mark"
    /\ \/ /\ pending' = [pending EXCEPT !.reverting = TRUE]
          /\ crit' = [crit EXCEPT !.stage = "recon"]
          /\ UNCHANGED <<req, boot, faults>>
       \/ Fails("reverting") /\ LeaveCrit(FALSE) /\ UNCHANGED pending
    /\ UNCHANGED <<db, live, file, recon, expired, begun, epoch, history>>

\* finishRevert, after a successful Reconcile.
RevertClear ==
    /\ crit.stage = "clear"
    /\ \/ /\ pending' = NoPending
          /\ crit' = [crit EXCEPT !.stage = "persist"]
          /\ UNCHANGED <<req, boot, faults>>
       \/ Fails("clear") /\ LeaveCrit(FALSE) /\ UNCHANGED pending
    /\ UNCHANGED <<db, live, file, recon, expired, begun, epoch, history>>

\* persistBootRuleset: the mutex keeps every new window out, so the guard's
\* answer cannot go stale before the file is written.
CritPersist ==
    /\ crit.stage = "persist"
    /\ \/ file' = (IF PersistBlocked THEN file ELSE live) /\ UNCHANGED faults
       \/ Fails("persist") /\ UNCHANGED file
    /\ LeaveCrit(TRUE)
    /\ UNCHANGED <<db, pending, live, recon, expired, begun, epoch, history>>

\* RevertPending(id): refused when the open window is not that one.
RevertPending(r) ==
    /\ crit.stage = "off"
    /\ IF IsOpen(req[r].wid)
       THEN EnterRevert(r) /\ req' = [req EXCEPT ![r].pc = "busy"]
       ELSE req' = [req EXCEPT ![r] = Idle] /\ UNCHANGED crit
    /\ UNCHANGED <<stores, recon, boot, expired, begun, faults, epoch, history>>

\* abortWindow: the mutation's own reconciliation failed.
Abort(r) == req[r].pc = "abort" /\ RevertPending(r)

-----------------------------------------------------------------------------
(* Operators deciding a window *)

\* The panel shows the open window; the click comes later and names that id.
See(r) ==
    /\ req[r].pc = "idle"
    /\ pending # NoPending
    /\ req' = [req EXCEPT ![r].pc = "decide", ![r].wid = pending.id]
    /\ UNCHANGED <<stores, locks, boot, expired, begun, faults, epoch, history>>

\* ConfirmPending: what is in force becomes what was accepted.
Confirm(r) ==
    /\ req[r].pc = "decide"
    /\ crit.stage = "off"
    /\ Undisturbed
    /\ IF IsOpen(req[r].wid) /\ ~ pending.reverting
       THEN \/ /\ pending' = NoPending
               /\ crit' = [by |-> r, stage |-> "persist", target |-> NoTarget]
               /\ req' = [req EXCEPT ![r].pc = "busy"]
               /\ approved' = Guarded(db)
               /\ everApproved' = everApproved \cup {Guarded(db), Guarded(live)}
               /\ UNCHANGED faults
            \/ /\ Fails("clear")
               /\ req' = [req EXCEPT ![r] = Idle]
               /\ UNCHANGED <<pending, crit, approved, everApproved>>
       ELSE /\ req' = [req EXCEPT ![r] = Idle]
            /\ UNCHANGED <<pending, crit, faults, approved, everApproved>>
    /\ UNCHANGED <<db, live, file, recon, boot, expired, begun, epoch, escaped>>

\* The operator reverts now, or closes the tab.
RevertNow(r) == req[r].pc = "decide" /\ Undisturbed /\ RevertPending(r)

Leave(r) ==
    /\ req[r].pc = "decide"
    /\ req' = [req EXCEPT ![r] = Idle]
    /\ UNCHANGED <<stores, locks, boot, expired, begun, faults, epoch, history>>

-----------------------------------------------------------------------------
(* The clock, the watchdog, the boot goroutine, restarts *)

Deadline ==
    /\ pending # NoPending
    /\ ~ expired
    /\ Undisturbed
    /\ expired' = TRUE
    /\ UNCHANGED <<stores, locks, req, boot, begun, faults, epoch, history>>

\* CheckPendingExpired: a revert already begun is resumed, expired or not.
RevertDue == pending.reverting \/ expired

WatchdogCheck ==
    /\ crit.stage = "off"
    /\ pending # NoPending
    /\ RevertDue
    /\ EnterRevert(Watchdog)
    /\ UNCHANGED <<stores, recon, req, boot, expired, begun, faults, epoch, history>>

\* RevertPendingOnBoot, once per process unless it failed: whatever is pending
\* goes back, expired or not.  The panel and the watchdog are already up.
BootCheck ==
    /\ boot.pc = "base"
    /\ \/ /\ boot.checked
          /\ boot' = [boot EXCEPT !.pc = "recon"]
          /\ UNCHANGED <<crit, faults>>
       \/ /\ ~ boot.checked /\ crit.stage = "off"
          /\ \/ /\ pending = NoPending
                /\ boot' = [pc |-> "recon", checked |-> TRUE]
                /\ UNCHANGED <<crit, faults>>
             \/ /\ pending # NoPending
                /\ Undisturbed
                /\ EnterRevert(Boot)
                /\ boot' = [boot EXCEPT !.pc = "reverting"]
                /\ UNCHANGED faults
             \/ /\ Fails("read")
                /\ boot' = [boot EXCEPT !.pc = "recon"]
                /\ UNCHANGED crit
    /\ UNCHANGED <<stores, recon, req, expired, begun, epoch, history>>

\* The process dies and starts again; when the machine went down with it, the
\* kernel starts from the boot file.
Restart(machine) ==
    /\ epoch < MaxCrashes
    /\ epoch' = epoch + 1
    /\ crit' = CritOff
    /\ recon' = ReconOff
    /\ req' = [q \in Requests |-> Idle]
    /\ boot' = [pc |-> "base", checked |-> FALSE]
    /\ live' = IF machine THEN file ELSE live
    /\ UNCHANGED <<db, pending, file, expired, begun, faults, history>>

-----------------------------------------------------------------------------
(* The specification *)

Init ==
    /\ db = InitState /\ live = InitState /\ file = InitState
    /\ pending = NoPending
    /\ crit = CritOff
    /\ recon = ReconOff
    /\ req = [q \in Requests |-> Idle]
    /\ boot = [pc |-> "base", checked |-> FALSE]
    /\ expired = FALSE
    /\ begun = 0 /\ faults = 0 /\ epoch = 0
    /\ approved = Guarded(InitState)
    /\ everApproved = {Guarded(InitState)}
    /\ escaped = FALSE

RevertStep == RevertRead \/ RevertReplace \/ RevertSettings \/ RevertMark \/ RevertClear \/ CritPersist
ReconStep  == ReconApply \/ ReconPersist
CritStep   == RevertStep \/ (crit.stage = "recon" /\ ReconLoad(crit.by))

ApplyStep(r) == \/ ArmOpens(r) \/ ArmRefused(r) \/ Write(r) \/ WriteFails(r)
                \/ Discard(r) \/ Mark(r) \/ Finish(r) \/ Abort(r)

OperatorStep(r) == See(r) \/ Confirm(r) \/ RevertNow(r) \/ Leave(r)

Next ==
    \/ \E r \in Requests : (\E m \in Mutations : Begin(r, m)) \/ ApplyStep(r) \/ OperatorStep(r)
    \/ \E p \in Procs : ReconLoad(p)
    \/ ReconStep \/ RevertStep
    \/ Deadline \/ WatchdogCheck \/ BootCheck
    \/ \E machine \in BOOLEAN : Restart(machine)

Spec == Init /\ [][Next]_vars

\* What the Go runtime and the tickers give: a goroutine that can run does, a
\* sync.Mutex is handed to every waiter eventually, the clock moves and the
\* watchdog ticks every five seconds.  Nobody owes the system a mutation, a
\* decision or a restart.  Faults end because they are counted.
Fairness ==
    /\ WF_vars(ReconStep)
    /\ SF_vars(CritStep)
    /\ WF_vars(Deadline)
    /\ SF_vars(WatchdogCheck)
    /\ SF_vars(BootCheck \/ ReconLoad(Boot))
    /\ \A r \in Requests : SF_vars(ApplyStep(r) \/ ReconLoad(r))

FairSpec == Spec /\ Fairness

=============================================================================
