----------------------- MODULE ConfirmWindowProperties -----------------------
(* What confirm-or-revert promises, stated on ConfirmWindow. *)
EXTENDS ConfirmWindow

RequestPcs == {"idle", "arm", "write", "discard", "mark", "recon", "finish",
               "abort", "busy", "decide"}
CritStages == {"off", "read", "replace", "settings", "mark", "recon", "clear", "persist"}

CritRecord  == [by : Procs \cup {Nobody}, stage : CritStages, target : Snapshot]
ReconRecord == [by : Procs \cup {Nobody}, stage : {"off", "apply", "persist"},
                loaded : State, outcome : {"ok", "failed", "partial"}]
ReqRecord   == [pc : RequestPcs, mutation : Mutations \cup {<<>>},
                number : 0 .. MaxMutations, existed : BOOLEAN, wid : 0 .. MaxMutations]
BootRecord  == [pc : {"base", "reverting", "recon", "done"}, checked : BOOLEAN]

\* Every variable has its shape; the shapes of crit, recon and req are the
\* steps ApplyGuarded, revert and ReconcileGroupsFrom go through.
TypeOK ==
    /\ db \in State /\ live \in State /\ file \in State
    /\ pending \in Window \cup {NoPending}
    /\ crit \in CritRecord
    /\ recon \in ReconRecord
    /\ req \in [Requests -> ReqRecord]
    /\ boot \in BootRecord
    /\ expired \in BOOLEAN
    /\ begun \in 0 .. MaxMutations /\ faults \in 0 .. MaxFaults /\ epoch \in 0 .. MaxCrashes
    /\ approved \in State /\ everApproved \subseteq State
    /\ escaped \in BOOLEAN

-----------------------------------------------------------------------------
(* The database *)

\* With no window open, the rows that decide about access to the machine are
\* the ones an operator last accepted, whatever failed or crashed on the way:
\* ApplyGuarded arms before it writes, revert marks before it clears.
WindowProtectsDatabase ==
    ~ escaped /\ pending = NoPending => InputOf(db.rows) = approved.rows

\* The snapshot of the open window, merged or not, always leads back to what
\* was last accepted: openWindowLocked takes it before the write, and
\* mergeRevertTarget never preserves a row that reaches the input chain.
SnapshotLeadsBack ==
    ~ escaped /\ pending # NoPending => InputOf(pending.snapshot.rows) = approved.rows

\* A window marked reverting has its earlier input rows back in the database,
\* which is what RevertSettled and FinishSettledRevert rely on.
RevertingMeansRestored ==
    ~ escaped /\ pending # NoPending =>
        (pending.reverting => InputOf(db.rows) = InputOf(pending.snapshot.rows))

\* An open window that is not being reverted is never replaced by another one,
\* so two unconfirmed input changes never share one snapshot (openWindowLocked).
OneWindowAtATime ==
    pending # NoPending /\ pending' # NoPending /\ pending'.id # pending.id
      => pending.reverting

\* Once a revert has put the earlier rows back, it never writes rows again: what
\* an operator changes to repair a revert that nft refuses stays (revert resumes
\* at the reconciliation).
RepairsSurvive ==
    RevertBegun /\ db'.rows # db.rows
      => \E r \in Requests : req[r].pc = "write" /\ db' = Written(r)

\* What an operator has not decided yet is not replaced, and what an operator
\* repaired is not overwritten.
DecisionsStand == [][OneWindowAtATime /\ RepairsSurvive]_vars

\* The settings (chain policies, closed WAN management) are protected like the
\* rows: without a window they are the ones last accepted.
SettingsProtected ==
    ~ escaped /\ pending = NoPending => db.settings = approved.settings

\* Confirm-or-revert as an operator understands it: rows that reach the input
\* chain change only inside a window, and a window closes on what somebody
\* accepted (ApplyGuarded, ConfirmPending, revert and DiscardWindow together).
Trial == INSTANCE TrialChange
    WITH Configurations <- [Rows -> InputValues \cup {Absent}],
         Initial        <- InputOf(InitRows),
         accepted       <- approved.rows,
         stored         <- InputOf(db.rows),
         open           <- pending # NoPending

ImplementsTrialChange == Trial!Spec

-----------------------------------------------------------------------------
(* The kernel and the boot file *)

Quiet == /\ crit.stage = "off" /\ recon.stage = "off"
         /\ boot.pc = "done"
         /\ \A r \in Requests : req[r].pc \in {"idle", "decide"}

\* When nothing is running and no window is open, the kernel enforces no input
\* rows that nobody ever accepted: finishRevert clears only after Reconcile.
LiveIsApproved ==
    Quiet /\ ~ escaped /\ pending = NoPending =>
        \E a \in everApproved : a.rows = InputOf(live.rows)

\* When nothing is running and no window is open, the kernel enforces what the
\* database says: ConfirmPending refuses a window whose revert has begun because
\* "o pendente ficaria apagado com o banco no estado antigo e o nft possivelmente
\* no novo" (confirm.go:637).
KernelFollowsDatabase ==
    Quiet /\ pending = NoPending => live = db

\* The ruleset the next boot loads never holds unaccepted input rows: Persist is
\* refused while a window is open.
BootFileIsApproved ==
    ~ escaped => \E a \in everApproved : a.rows = InputOf(file.rows)

\* Between operations nothing unaccepted is in force, now or at the next boot,
\* and without a window the kernel is what the database says.
KernelSettles == LiveIsApproved /\ BootFileIsApproved /\ KernelFollowsDatabase

\* A revert closes its window only after the kernel has taken the restored rows
\* (finishRevert, FinishSettledRevert: Reconcile first, ClearPendingChange after).
ClosesOnlyWhenRestored ==
    pending # NoPending /\ pending.reverting /\ ~ escaped
        /\ crit'.stage = "persist" /\ crit.stage # "persist"
      => InputOf(live.rows) = InputOf(pending.snapshot.rows)

\* Every step leaves the kernel and the boot file with what was accepted, or with
\* a window that owes it to them, and such a window stays.
KernelFollows == [][KernelSettles' /\ ClosesOnlyWhenRestored]_vars

-----------------------------------------------------------------------------
(* Progress *)

\* Every window ends: confirmed, reverted, discarded or taken over once settled.
EveryWindowEnds ==
    \A id \in WindowIds : IsOpen(id) ~> ~ IsOpen(id)

\* No request waits forever on the two mutexes.
EveryRequestReturns ==
    \A r \in Requests :
        req[r].pc \notin {"idle", "decide"} ~> req[r].pc \in {"idle", "decide"}

\* Nobody waits forever, for a mutex or for a decision that nobody makes.
WindowsAndRequestsEnd == EveryWindowEnds /\ EveryRequestReturns

=============================================================================
