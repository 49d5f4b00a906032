------------------------- MODULE ConfirmWindowProofs -------------------------
(***************************************************************************)
(* What ConfirmWindow guarantees for every set of requests, rows, settings, *)
(* mutations and faults, and for every bound.                               *)
(*                                                                          *)
(* WindowProtectsDatabase is not inductive: that a window closes on the     *)
(* accepted rows depends on which step of revert() runs, on the snapshot    *)
(* still leading back, and on the request that armed the window not having  *)
(* written yet when it discards it.  IInv says all of that; what the kernel *)
(* and the boot file are left with rests on KernelInv besides.              *)
(*                                                                          *)
(* It implements TrialChange, step by step, as long as no input change is   *)
(* written outside its window, and always when decisions wait for the write *)
(* and no row changes scope.                                                *)
(***************************************************************************)
EXTENDS ConfirmWindowProperties, TLAPS

\* A request past the guard carries a mutation, and a window only of its own number.
RequestInv ==
    \A r \in Requests :
        /\ req[r].number <= begun
        /\ req[r].pc \in {"arm", "write"} => req[r].mutation \in Mutations
        /\ req[r].pc = "arm" => req[r].number # 0
        /\ req[r].pc \in {"write", "discard"} => req[r].wid \in {NoWindow, req[r].number}

Applying == {"arm", "write", "discard"}

\* Two requests that have not written yet never carry the same number.
NumberInv ==
    \A q, r \in Requests :
        q # r /\ req[q].pc \in Applying /\ req[r].pc \in Applying
            => req[q].number # req[r].number

\* Each step of revert() runs with its window in place.
CritInv ==
    /\ crit.stage \in {"read", "replace", "settings", "mark"} => pending # NoPending
    /\ crit.stage \in {"read", "replace"} => ~ pending.reverting
    /\ crit.stage \in {"recon", "clear"} => RevertBegun

Structure == TypeOK /\ RequestInv /\ NumberInv /\ CritInv

Accepted(rows) == InputOf(rows) = approved.rows

\* Where the accepted input rows are to be found.
DataInv ==
    /\ pending = NoPending => Accepted(db.rows)
    /\ pending # NoPending => Accepted(pending.snapshot.rows)
    /\ RevertBegun => Accepted(db.rows)
    /\ \A r \in Requests :
          req[r].pc \in {"write", "discard"} /\ IsOpen(req[r].wid) /\ ~ pending.reverting
            => Accepted(db.rows)
    /\ crit.stage \in {"replace", "settings", "mark"} => Accepted(crit.target.rows)
    /\ crit.stage \in {"settings", "mark"} => Accepted(db.rows)

IInv == Structure /\ (~ escaped => DataInv)

-----------------------------------------------------------------------------
(* The row merge *)

\* groupTouchesInput stops mergeRevertTarget: whatever three tables are merged,
\* the input rows of the outcome are the snapshot's.
LEMMA MergeKeepsInput ==
    ASSUME NEW base \in RowState, NEW applied \in RowState, NEW current \in RowState
    PROVE  InputOf(MergeRows(base, applied, current)) = InputOf(base)
BY DEF RowState, InputOf, MergeRows, KeepConcurrent, TouchesInput

LEMMA MergeIsTable ==
    ASSUME NEW base \in RowState, NEW applied \in RowState, NEW current \in RowState
    PROVE  MergeRows(base, applied, current) \in RowState
BY DEF RowState, MergeRows

LEMMA InputIsTable ==
    ASSUME NEW rows \in RowState
    PROVE  InputOf(rows) \in RowState
BY DEF RowState, InputOf

LEMMA GuardedIsState ==
    ASSUME NEW st \in State
    PROVE  Guarded(st) \in State
BY InputIsTable DEF State, Guarded

LEMMA InitIsState == InitState \in State
BY ConfirmWindowAssumption DEF InitState, State

\* What Mutation.Write leaves is again a table of rows and settings.
LEMMA WrittenIsState ==
    ASSUME db \in State, NEW r \in Requests, req[r].mutation \in Mutations
    PROVE  Written(r) \in State
<1> DEFINE m == req[r].mutation
<1>1. m \in (Rows \X (Values \cup {Absent})) \cup (Settings \X SettingValues)
  BY ConfirmWindowAssumption
<1>2. CASE m[1] \in Rows
  <2>1. m[2] \in Values \cup {Absent}
    BY <1>1, <1>2, ConfirmWindowAssumption
  <2>2. [db.rows EXCEPT ![m[1]] = m[2]] \in RowState
    BY <2>1, <1>2 DEF State, RowState
  <2> QED  BY <2>2, <1>2 DEF Written, State
<1>3. CASE m[1] \notin Rows
  <2>1. m[1] \in Settings /\ m[2] \in SettingValues
    BY <1>1, <1>3
  <2>2. [db.settings EXCEPT ![m[1]] = m[2]] \in SettingState
    BY <2>1 DEF State, SettingState
  <2> QED  BY <2>2, <1>3 DEF Written, State
<1> QED  BY <1>2, <1>3

-----------------------------------------------------------------------------
(* Types *)

\* Everything TypeOK says of the variables an action of the locks may change.
LEMMA CritOffTyped == CritOff \in CritRecord
BY ConfirmWindowAssumption DEF CritOff, CritRecord, CritStages, NoTarget, Snapshot

LEMMA ReconOffTyped == ReconOff \in ReconRecord
BY InitIsState DEF ReconOff, ReconRecord

LEMMA IdleTyped == Idle \in ReqRecord
BY ConfirmWindowAssumption DEF Idle, ReqRecord, RequestPcs, NoWindow

LEMMA StateIsSnapshot == State \subseteq Snapshot
BY DEF State, Snapshot

LEMMA LeaveCritTyped ==
    ASSUME TypeOK, NEW completed \in BOOLEAN, LeaveCrit(completed)
    PROVE  /\ crit' \in CritRecord
           /\ req' \in [Requests -> ReqRecord]
           /\ boot' \in BootRecord
BY CritOffTyped, IdleTyped DEF TypeOK, LeaveCrit, BootRecord

LEMMA EnterRevertTyped ==
    ASSUME TypeOK, NEW p \in Procs, EnterRevert(p)
    PROVE  crit' \in CritRecord
BY ConfirmWindowAssumption DEF TypeOK, EnterRevert, CritRecord, CritStages, NoTarget, Snapshot

LEMMA FailsTyped ==
    ASSUME TypeOK, NEW call, Fails(call)
    PROVE  faults' \in 0 .. MaxFaults
BY ConfirmWindowAssumption DEF TypeOK, Fails

\* A request that only moves on keeps its shape.
LEMMA MovesOnTyped ==
    ASSUME TypeOK, NEW r \in Requests, NEW pc \in RequestPcs
    PROVE  [req EXCEPT ![r].pc = pc] \in [Requests -> ReqRecord]
BY DEF TypeOK, ReqRecord

\* A request that moves on with a window of its own, or the one it saw.
LEMMA MovesOnWithWindowTyped ==
    ASSUME TypeOK, NEW r \in Requests, NEW pc \in RequestPcs, NEW wid \in 0 .. MaxMutations
    PROVE  [req EXCEPT ![r].pc = pc, ![r].wid = wid] \in [Requests -> ReqRecord]
BY DEF TypeOK, ReqRecord

LEMMA BecomesIdleTyped ==
    ASSUME TypeOK, NEW r \in Requests
    PROVE  [req EXCEPT ![r] = Idle] \in [Requests -> ReqRecord]
BY IdleTyped DEF TypeOK

LEMMA BusyOrIdleTyped ==
    ASSUME TypeOK, NEW r \in Requests,
           req' = [req EXCEPT ![r].pc = "busy"] \/ req' = [req EXCEPT ![r] = Idle]
    PROVE  req' \in [Requests -> ReqRecord]
<1>1. "busy" \in RequestPcs
  BY DEF RequestPcs
<1>2. [req EXCEPT ![r].pc = "busy"] \in [Requests -> ReqRecord]
  BY <1>1, MovesOnTyped, Zenon
<1>3. [req EXCEPT ![r] = Idle] \in [Requests -> ReqRecord]
  BY BecomesIdleTyped, Zenon
<1> QED  BY <1>2, <1>3

LEMMA CritMovesOnTyped ==
    ASSUME TypeOK, NEW stage \in CritStages
    PROVE  [crit EXCEPT !.stage = stage] \in CritRecord
BY DEF TypeOK, CritRecord

LEMMA BootMovesOnTyped ==
    ASSUME TypeOK
    PROVE  /\ [boot EXCEPT !.pc = "recon"] \in BootRecord
           /\ [boot EXCEPT !.pc = "reverting"] \in BootRecord
           /\ [pc |-> "recon", checked |-> TRUE] \in BootRecord
BY DEF TypeOK, BootRecord

LEMMA PersistsTyped ==
    ASSUME NEW p \in Procs
    PROVE  [by |-> p, stage |-> "persist", target |-> NoTarget] \in CritRecord
BY ConfirmWindowAssumption DEF CritRecord, CritStages, NoTarget, Snapshot

\* The steps of a request that applies a mutation.
LEMMA ApplyTyped ==
    ASSUME Structure, NEW r \in Requests,
           (\E m \in Mutations : Begin(r, m)) \/ ApplyStep(r)
    PROVE  TypeOK'
<1> USE ConfirmWindowAssumption DEF Structure
<1>1. ASSUME NEW m \in Mutations, Begin(r, m) PROVE TypeOK'
  <2>1. begun + 1 \in 0 .. MaxMutations
    BY <1>1 DEF Begin, TypeOK
  <2>2. req' \in [Requests -> ReqRecord]
    BY <1>1, <2>1 DEF Begin, TypeOK, ReqRecord, RequestPcs, NoWindow
  <2> QED  BY <1>1, <2>1, <2>2 DEF Begin, TypeOK, stores, locks, history
<1>2. CASE ArmOpens(r)
  <2>1. req[r].number \in WindowIds
    BY <1>2 DEF ArmOpens, RequestInv, TypeOK, ReqRecord, WindowIds
  <2>2. NewWindow(r) \in Window
    BY <2>1, StateIsSnapshot DEF NewWindow, Window, TypeOK
  <2>3. req[r].number \in 0 .. MaxMutations /\ "write" \in RequestPcs
    BY <2>1 DEF WindowIds, RequestPcs
  <2>4. [req EXCEPT ![r].pc = "write", ![r].wid = req[r].number] \in [Requests -> ReqRecord]
    BY <2>3, MovesOnWithWindowTyped
  <2>5. req' \in [Requests -> ReqRecord]
    BY <1>2, <2>4, Zenon DEF ArmOpens
  <2> QED  BY <1>2, <2>2, <2>5 DEF ArmOpens, TypeOK, locks, history
<1>3. CASE ArmRefused(r)
  <2>1. req' \in [Requests -> ReqRecord]
    BY <1>3, BecomesIdleTyped DEF ArmRefused
  <2>2. pending' \in Window \cup {NoPending} /\ faults' \in 0 .. MaxFaults
    BY <1>3, FailsTyped DEF ArmRefused, TypeOK
  <2> QED  BY <1>3, <2>1, <2>2 DEF ArmRefused, TypeOK, locks, history
<1>4. CASE Write(r)
  <2>1. db' \in State
    BY <1>4, WrittenIsState DEF Write, RequestInv, TypeOK
  <2>2. req' \in [Requests -> ReqRecord]
    <3>1. {"recon", "mark"} \subseteq RequestPcs
      BY DEF RequestPcs
    <3>2. PICK pc \in {"recon", "mark"} : req' = [req EXCEPT ![r].pc = pc]
      BY <1>4 DEF Write
    <3> QED  BY <3>1, <3>2, MovesOnTyped
  <2>3. escaped' \in BOOLEAN
    <3>1. escaped' = (escaped \/ (Guarded(db') # Guarded(db) /\ ~ Covered(r)))
      BY <1>4 DEF Write
    <3> QED  BY <3>1, Zenon
  <2> QED  BY <1>4, <2>1, <2>2, <2>3 DEF Write, TypeOK, locks
<1>5. CASE WriteFails(r)
  <2>1. [req[r] EXCEPT !.pc = "discard"] \in ReqRecord
    BY DEF TypeOK, ReqRecord, RequestPcs
  <2>2. req' \in [Requests -> ReqRecord]
    BY <1>5, <2>1, IdleTyped DEF WriteFails, TypeOK
  <2>3. faults' \in 0 .. MaxFaults
    BY <1>5, FailsTyped DEF WriteFails, TypeOK
  <2> QED  BY <1>5, <2>2, <2>3 DEF WriteFails, TypeOK, stores, locks, history
<1>6. CASE Discard(r)
  <2>1. req' \in [Requests -> ReqRecord]
    BY <1>6, BecomesIdleTyped DEF Discard
  <2>2. pending' \in Window \cup {NoPending} /\ faults' \in 0 .. MaxFaults
    BY <1>6, FailsTyped DEF Discard, TypeOK
  <2> QED  BY <1>6, <2>1, <2>2 DEF Discard, TypeOK, locks, history
<1>7. CASE Mark(r)
  <2>1. req' \in [Requests -> ReqRecord]
    BY <1>7, MovesOnTyped DEF Mark, RequestPcs
  <2>2. pending' \in Window \cup {NoPending}
    BY <1>7 DEF Mark, TypeOK, IsOpen, Window, State
  <2>3. faults' \in 0 .. MaxFaults
    BY <1>7, FailsTyped DEF Mark, TypeOK
  <2> QED  BY <1>7, <2>1, <2>2, <2>3 DEF Mark, TypeOK, locks, history
<1>8. CASE Finish(r)
  <2>1. crit' \in CritRecord
    BY <1>8, PersistsTyped DEF Finish, TypeOK, Procs
  <2>2. req' \in [Requests -> ReqRecord]
    BY <1>8, BusyOrIdleTyped DEF Finish
  <2>3. pending' \in Window \cup {NoPending} /\ faults' \in 0 .. MaxFaults
    BY <1>8, FailsTyped DEF Finish, TypeOK
  <2> QED  BY <1>8, <2>1, <2>2, <2>3 DEF Finish, TypeOK, history
<1>9. CASE Abort(r)
  <2>1. req' \in [Requests -> ReqRecord]
    BY <1>9, BusyOrIdleTyped DEF Abort, RevertPending
  <2>2. crit' \in CritRecord
    BY <1>9, EnterRevertTyped DEF Abort, RevertPending, TypeOK, Procs
  <2> QED  BY <1>9, <2>1, <2>2 DEF Abort, RevertPending, TypeOK, stores, history
<1> QED  BY <1>1, <1>2, <1>3, <1>4, <1>5, <1>6, <1>7, <1>8, <1>9 DEF ApplyStep

\* The steps of an operator at the panel.
LEMMA OperatorTyped ==
    ASSUME Structure, NEW r \in Requests, OperatorStep(r)
    PROVE  TypeOK'
<1> USE ConfirmWindowAssumption DEF Structure
<1>1. CASE See(r)
  <2>1. pending.id \in 0 .. MaxMutations
    BY <1>1 DEF See, TypeOK, Window, WindowIds
  <2>2. [req EXCEPT ![r].pc = "decide", ![r].wid = pending.id] \in [Requests -> ReqRecord]
    BY <2>1, MovesOnWithWindowTyped DEF RequestPcs
  <2>3. req' \in [Requests -> ReqRecord]
    BY <1>1, <2>2, Zenon DEF See
  <2> QED  BY <1>1, <2>3 DEF See, TypeOK, stores, locks, history
<1>2. CASE Confirm(r)
  <2>1. crit' \in CritRecord
    BY <1>2, PersistsTyped DEF Confirm, TypeOK, Procs
  <2>2. req' \in [Requests -> ReqRecord]
    BY <1>2, BusyOrIdleTyped DEF Confirm
  <2>3. pending' \in Window \cup {NoPending} /\ faults' \in 0 .. MaxFaults
    BY <1>2, FailsTyped DEF Confirm, TypeOK
  <2>4. approved' \in State /\ everApproved' \subseteq State
    BY <1>2, GuardedIsState DEF Confirm, TypeOK
  <2> QED  BY <1>2, <2>1, <2>2, <2>3, <2>4 DEF Confirm, TypeOK
<1>3. CASE RevertNow(r)
  <2>1. req' \in [Requests -> ReqRecord]
    BY <1>3, BusyOrIdleTyped DEF RevertNow, RevertPending
  <2>2. crit' \in CritRecord
    BY <1>3, EnterRevertTyped DEF RevertNow, RevertPending, TypeOK, Procs
  <2> QED  BY <1>3, <2>1, <2>2 DEF RevertNow, RevertPending, TypeOK, stores, history
<1>4. CASE Leave(r)
  <2>1. req' \in [Requests -> ReqRecord]
    BY <1>4, BecomesIdleTyped DEF Leave
  <2> QED  BY <1>4, <2>1 DEF Leave, TypeOK, stores, locks, history
<1> QED  BY <1>1, <1>2, <1>3, <1>4 DEF OperatorStep

\* The steps of revert(), under Service.mu.
LEMMA RevertTyped ==
    ASSUME Structure, RevertStep
    PROVE  TypeOK'
<1> USE ConfirmWindowAssumption DEF Structure
<1>1. CASE RevertRead
  <2>1. MergedTarget \in Snapshot
    <3>1. pending \in Window
      BY <1>1 DEF RevertRead, CritInv, TypeOK
    <3>2. AppliedOrSnapshot \in RowState /\ pending.snapshot.rows \in RowState /\ db.rows \in RowState
      BY <3>1 DEF AppliedOrSnapshot, Window, Snapshot, TypeOK, State
    <3> QED  BY <3>2, MergeIsTable DEF MergedTarget, Snapshot
  <2>2. pending \in Window /\ pending.snapshot \in Snapshot
    BY <1>1 DEF RevertRead, CritInv, TypeOK, Window
  <2>3. pending' \in Window \cup {NoPending}
    BY <1>1, <2>1, <2>2 DEF RevertRead, Window
  <2>4. /\ crit' \in CritRecord /\ req' \in [Requests -> ReqRecord] /\ boot' \in BootRecord
    <3>1. CASE UNCHANGED <<req, boot>> /\ \E t \in {MergedTarget, pending.snapshot} :
                 crit' = [crit EXCEPT !.stage = "replace", !.target = t]
      BY <3>1, <2>1, <2>2 DEF TypeOK, CritRecord, CritStages
    <3>2. CASE LeaveCrit(FALSE)
      BY <3>2, LeaveCritTyped
    <3> QED  BY <1>1, <3>1, <3>2 DEF RevertRead
  <2>5. faults' \in 0 .. MaxFaults
    BY <1>1, FailsTyped DEF RevertRead, TypeOK
  <2> QED  BY <1>1, <2>3, <2>4, <2>5 DEF RevertRead, TypeOK, history
<1>2. CASE RevertReplace
  <2>1. db' \in State
    BY <1>2 DEF RevertReplace, TypeOK, State, CritRecord, Snapshot
  <2>2. /\ crit' \in CritRecord /\ req' \in [Requests -> ReqRecord] /\ boot' \in BootRecord
    <3>1. CASE UNCHANGED <<req, boot>> /\ crit' = [crit EXCEPT !.stage = "settings"]
      BY <3>1 DEF TypeOK, CritRecord, CritStages
    <3>2. CASE LeaveCrit(FALSE)
      BY <3>2, LeaveCritTyped
    <3> QED  BY <1>2, <3>1, <3>2 DEF RevertReplace
  <2>3. faults' \in 0 .. MaxFaults
    BY <1>2, FailsTyped DEF RevertReplace, TypeOK
  <2> QED  BY <1>2, <2>1, <2>2, <2>3 DEF RevertReplace, TypeOK, history
<1>3. CASE RevertSettings
  <2>1. crit.target.settings \in SettingState \cup {NoSettings}
    BY DEF TypeOK, CritRecord, Snapshot
  <2>2. ASSUME NEW lost \in SUBSET Settings, crit.target.settings # NoSettings
        PROVE  [s \in Settings |-> IF s \in lost THEN db.settings[s] ELSE crit.target.settings[s]]
                 \in SettingState
    BY <2>1, <2>2 DEF SettingState, TypeOK, State
  <2>3. ASSUME NEW settings \in SettingState PROVE [db EXCEPT !.settings = settings] \in State
    BY DEF TypeOK, State
  <2>4. \/ db' = db
         \/ \E settings \in SettingState : db' = [db EXCEPT !.settings = settings]
    BY <1>3, <2>1, <2>2 DEF RevertSettings
  <2>5. db' \in State
    BY <2>3, <2>4 DEF TypeOK
  <2>6. crit' \in CritRecord
    BY <1>3 DEF RevertSettings, TypeOK, CritRecord, CritStages
  <2>7. faults' \in 0 .. MaxFaults
    BY <1>3, FailsTyped DEF RevertSettings, TypeOK
  <2> QED  BY <1>3, <2>5, <2>6, <2>7 DEF RevertSettings, TypeOK, history
<1>4. CASE RevertMark
  <2>1. pending' \in Window \cup {NoPending}
    BY <1>4 DEF RevertMark, CritInv, TypeOK, Window
  <2>2. /\ crit' \in CritRecord /\ req' \in [Requests -> ReqRecord] /\ boot' \in BootRecord
    <3>1. CASE UNCHANGED <<req, boot>> /\ crit' = [crit EXCEPT !.stage = "recon"]
      BY <3>1 DEF TypeOK, CritRecord, CritStages
    <3>2. CASE LeaveCrit(FALSE)
      BY <3>2, LeaveCritTyped
    <3> QED  BY <1>4, <3>1, <3>2 DEF RevertMark
  <2>3. faults' \in 0 .. MaxFaults
    BY <1>4, FailsTyped DEF RevertMark, TypeOK
  <2> QED  BY <1>4, <2>1, <2>2, <2>3 DEF RevertMark, TypeOK, history
<1>5. CASE RevertClear
  <2>1. /\ crit' \in CritRecord /\ req' \in [Requests -> ReqRecord] /\ boot' \in BootRecord
    <3>1. CASE UNCHANGED <<req, boot>> /\ crit' = [crit EXCEPT !.stage = "persist"]
      BY <3>1 DEF TypeOK, CritRecord, CritStages
    <3>2. CASE LeaveCrit(FALSE)
      BY <3>2, LeaveCritTyped
    <3> QED  BY <1>5, <3>1, <3>2 DEF RevertClear
  <2>2. pending' \in Window \cup {NoPending} /\ faults' \in 0 .. MaxFaults
    BY <1>5, FailsTyped DEF RevertClear, TypeOK
  <2> QED  BY <1>5, <2>1, <2>2 DEF RevertClear, TypeOK, history
<1>6. CASE CritPersist
  <2>1. /\ crit' \in CritRecord /\ req' \in [Requests -> ReqRecord] /\ boot' \in BootRecord
    BY <1>6, LeaveCritTyped DEF CritPersist
  <2>2. file' \in State /\ faults' \in 0 .. MaxFaults
    BY <1>6, FailsTyped DEF CritPersist, TypeOK
  <2> QED  BY <1>6, <2>1, <2>2 DEF CritPersist, TypeOK, history
<1> QED  BY <1>1, <1>2, <1>3, <1>4, <1>5, <1>6 DEF RevertStep

\* Where a reconciliation returns to.
LEMMA ReconReturnsTyped ==
    ASSUME TypeOK, NEW p \in Procs \cup {Nobody}, NEW ok \in BOOLEAN, ReconReturns(p, ok)
    PROVE  crit' \in CritRecord /\ req' \in [Requests -> ReqRecord] /\ boot' \in BootRecord
<1>1. CASE p = crit.by /\ crit.stage = "recon" /\ ok
  <2>1. crit' = [crit EXCEPT !.stage = "clear"] /\ UNCHANGED <<req, boot>>
    BY <1>1 DEF ReconReturns
  <2> QED  BY <2>1 DEF TypeOK, CritRecord, CritStages
<1>2. CASE p = crit.by /\ crit.stage = "recon" /\ ~ ok
  BY <1>2, LeaveCritTyped DEF ReconReturns
<1>3. CASE ~ (p = crit.by /\ crit.stage = "recon") /\ p = Boot
  <2>1. /\ boot' \in {[boot EXCEPT !.pc = "done"], [boot EXCEPT !.pc = "base"]}
        /\ UNCHANGED <<crit, req>>
    BY <1>3 DEF ReconReturns
  <2> QED  BY <2>1 DEF TypeOK, BootRecord
<1>4. CASE ~ (p = crit.by /\ crit.stage = "recon") /\ p # Boot
  <2>1. /\ req' = [req EXCEPT ![p] =
                     IF ok THEN IF @.wid = NoWindow THEN [@ EXCEPT !.pc = "finish"] ELSE Idle
                           ELSE IF @.wid = NoWindow THEN Idle ELSE [@ EXCEPT !.pc = "abort"]]
        /\ UNCHANGED <<crit, boot>>
    BY <1>4 DEF ReconReturns
  <2>2. {"finish", "abort"} \subseteq RequestPcs
    BY DEF RequestPcs
  <2>3. CASE p \in Requests
    <3>1. \/ req' = [req EXCEPT ![p].pc = "finish"]
          \/ req' = [req EXCEPT ![p].pc = "abort"]
          \/ req' = [req EXCEPT ![p] = Idle]
      BY <2>1, <2>3
    <3> QED  BY <3>1, <2>1, <2>2, <2>3, MovesOnTyped, BecomesIdleTyped DEF TypeOK
  <2>4. CASE p \notin Requests
    <3>1. req' = req
      BY <2>1, <2>4 DEF TypeOK
    <3> QED  BY <3>1, <2>1 DEF TypeOK
  <2> QED  BY <2>3, <2>4
<1> QED  BY <1>1, <1>2, <1>3, <1>4

\* The reconciliation, under reconcileMu.
LEMMA ReconTyped ==
    ASSUME Structure, (\E p \in Procs : ReconLoad(p)) \/ ReconStep
    PROVE  TypeOK'
<1> USE ConfirmWindowAssumption DEF Structure
<1>1. ASSUME NEW p \in Procs, ReconLoad(p) PROVE TypeOK'
  <2>1. recon' \in ReconRecord
    BY <1>1 DEF ReconLoad, TypeOK, ReconRecord
  <2> QED  BY <1>1, <2>1 DEF ReconLoad, TypeOK, stores, history
<1>2. CASE ReconApply
  <2>1. live' \in State /\ recon' \in ReconRecord
    <3>1. \A old, new \in State : Between(old, new) \subseteq State
      BY DEF Between
    <3>2. live \in State /\ recon.loaded \in State
      BY DEF TypeOK, ReconRecord
    <3>3. live' \in State
      BY <1>2, <3>1, <3>2 DEF ReconApply
    <3>4. recon' \in ReconRecord
      BY <1>2 DEF ReconApply, TypeOK, ReconRecord
    <3> QED  BY <3>3, <3>4
  <2>2. faults' \in 0 .. MaxFaults
    BY <1>2, FailsTyped DEF ReconApply, TypeOK
  <2> QED  BY <1>2, <2>1, <2>2 DEF ReconApply, TypeOK, history
<1>3. CASE ReconPersist
  <2>1. file' \in State /\ faults' \in 0 .. MaxFaults
    BY <1>3, FailsTyped DEF ReconPersist, TypeOK
  <2>2. recon.by \in Procs \cup {Nobody} /\ (recon.outcome = "ok") \in BOOLEAN
    BY DEF TypeOK, ReconRecord
  <2>3. crit' \in CritRecord /\ req' \in [Requests -> ReqRecord] /\ boot' \in BootRecord
    BY <1>3, <2>2, ReconReturnsTyped DEF ReconPersist
  <2> QED  BY <1>3, <2>1, <2>3, ReconOffTyped DEF ReconPersist, TypeOK, history
<1> QED  BY <1>1, <1>2, <1>3 DEF ReconStep

\* The clock, the watchdog, the boot goroutine and restarts.
LEMMA EnvironmentTyped ==
    ASSUME Structure,
           Deadline \/ WatchdogCheck \/ BootCheck \/ \E machine \in BOOLEAN : Restart(machine)
    PROVE  TypeOK'
<1> USE ConfirmWindowAssumption DEF Structure
<1>1. CASE Deadline
  BY <1>1 DEF Deadline, TypeOK, stores, locks, history
<1>2. CASE WatchdogCheck
  <2>1. crit' \in CritRecord
    BY <1>2, EnterRevertTyped DEF WatchdogCheck, Procs
  <2> QED  BY <1>2, <2>1 DEF WatchdogCheck, TypeOK, stores, history
<1>3. CASE BootCheck
  <2>1. crit' \in CritRecord
    BY <1>3, EnterRevertTyped DEF BootCheck, Procs, TypeOK
  <2>2. boot' \in BootRecord
    <3>1. boot' \in {[boot EXCEPT !.pc = "recon"], [boot EXCEPT !.pc = "reverting"],
                    [pc |-> "recon", checked |-> TRUE]}
      BY <1>3, Zenon DEF BootCheck
    <3> HIDE ConfirmWindowAssumption
    <3> QED  BY <3>1, BootMovesOnTyped
  <2>3. faults' \in 0 .. MaxFaults
    BY <1>3, FailsTyped DEF BootCheck, TypeOK
  <2> QED  BY <1>3, <2>1, <2>2, <2>3 DEF BootCheck, TypeOK, stores, history
<1>4. ASSUME NEW machine \in BOOLEAN, Restart(machine) PROVE TypeOK'
  <2>1. req' \in [Requests -> ReqRecord] /\ boot' \in BootRecord
    BY <1>4, IdleTyped DEF Restart, BootRecord
  <2>2. live' \in State /\ epoch' \in 0 .. MaxCrashes
    BY <1>4 DEF Restart, TypeOK
  <2> QED  BY <1>4, <2>1, <2>2, CritOffTyped, ReconOffTyped DEF Restart, TypeOK, history
<1> QED  BY <1>1, <1>2, <1>3, <1>4

LEMMA InitTyped == Init => TypeOK
<1> SUFFICES ASSUME Init PROVE TypeOK
  OBVIOUS
<1>1. req \in [Requests -> ReqRecord] /\ boot \in BootRecord
  BY IdleTyped DEF Init, BootRecord
<1>2. 0 \in 0 .. MaxMutations /\ 0 \in 0 .. MaxFaults /\ 0 \in 0 .. MaxCrashes
  BY ConfirmWindowAssumption
<1> QED  BY <1>1, <1>2, InitIsState, GuardedIsState, CritOffTyped, ReconOffTyped DEF Init, TypeOK

LEMMA NextTyped ==
    ASSUME Structure, [Next]_vars
    PROVE  TypeOK'
<1>1. CASE Next
  BY <1>1, ApplyTyped, OperatorTyped, RevertTyped, ReconTyped, EnvironmentTyped DEF Next
<1>2. CASE UNCHANGED vars
  BY <1>2 DEF Structure, vars, TypeOK
<1> QED  BY <1>1, <1>2

-----------------------------------------------------------------------------
(* Structure *)

\* Leaving or moving the requests never lets two numbers meet.
LEMMA RequestStep ==
    ASSUME Structure, [Next]_vars
    PROVE  RequestInv' /\ NumberInv'
<1> USE DEF Structure
<1> DEFINE Quieter(q) == /\ req'[q].pc \notin {"arm", "write", "discard"}
                         /\ req'[q].number <= begun
           Same(q)    == req'[q] = req[q]
\* All but Begin, ArmOpens, WriteFails: every request stays or leaves the steps before the write.
<1>1. ASSUME begun' = begun, \A q \in Requests : Quieter(q) \/ Same(q)
      PROVE  RequestInv' /\ NumberInv'
  BY <1>1 DEF RequestInv, NumberInv, Applying
<1>2. \A q \in Requests : req[q] \in ReqRecord
  BY DEF TypeOK
<1>3. begun \in Nat /\ Idle.pc = "idle" /\ Idle.number = 0
  BY ConfirmWindowAssumption DEF TypeOK, Idle
<1>4. ASSUME NEW r \in Requests, NEW pc \in RequestPcs \ {"arm", "write", "discard"},
             begun' = begun,
             req' = [req EXCEPT ![r].pc = pc]
      PROVE  RequestInv' /\ NumberInv'
  <2>1. \A q \in Requests : Quieter(q) \/ Same(q)
    BY <1>2, <1>4 DEF TypeOK, RequestInv, ReqRecord
  <2> QED  BY <2>1, <1>1, <1>4
<1>5. ASSUME NEW r \in Requests, begun' = begun, req' = [req EXCEPT ![r] = Idle]
      PROVE  RequestInv' /\ NumberInv'
  <2>1. \A q \in Requests : Quieter(q) \/ Same(q)
    BY <1>3, <1>5 DEF TypeOK
  <2> QED  BY <2>1, <1>1, <1>5
<1>6. ASSUME begun' = begun, req' = req
      PROVE  RequestInv' /\ NumberInv'
  BY <1>1, <1>6
<1>7. ASSUME NEW completed, begun' = begun, LeaveCrit(completed)
      PROVE  RequestInv' /\ NumberInv'
  <2>1. \A q \in Requests : Quieter(q) \/ Same(q)
    BY <1>3, <1>7 DEF LeaveCrit
  <2> QED  BY <2>1, <1>1, <1>7
\* The three actions that move a request among those steps.
<1>8. ASSUME NEW r \in Requests, NEW m \in Mutations, Begin(r, m)
      PROVE  RequestInv' /\ NumberInv'
  <2>1. /\ req'[r].pc \in {"arm", "write"} /\ req'[r].mutation = m
        /\ req'[r].number = begun + 1 /\ req'[r].wid = NoWindow
        /\ \A q \in Requests \ {r} : req'[q] = req[q]
        /\ begun' = begun + 1
    BY <1>8 DEF Begin, TypeOK
  <2>2. RequestInv'
    BY <1>2, <1>3, <2>1 DEF RequestInv, ReqRecord
  <2>3. NumberInv'
    BY <1>2, <1>3, <2>1 DEF RequestInv, NumberInv, Applying, ReqRecord
  <2> QED  BY <2>2, <2>3
<1>9. ASSUME NEW r \in Requests, ArmOpens(r)
      PROVE  RequestInv' /\ NumberInv'
  <2>1. /\ req[r].pc = "arm" /\ req'[r].pc = "write" /\ req'[r].wid = req[r].number
        /\ req'[r].number = req[r].number /\ req'[r].mutation = req[r].mutation
        /\ \A q \in Requests \ {r} : req'[q] = req[q]
        /\ begun' = begun
    BY <1>2, <1>9 DEF ArmOpens, TypeOK, ReqRecord
  <2> QED  BY <2>1 DEF RequestInv, NumberInv, Applying
<1>10. ASSUME NEW r \in Requests, WriteFails(r)
       PROVE  RequestInv' /\ NumberInv'
  <2>1. CASE req' = [req EXCEPT ![r] = Idle]
    BY <2>1, <1>5, <1>10 DEF WriteFails
  <2>2. CASE req' = [req EXCEPT ![r].pc = "discard"]
    <3>1. /\ req[r].pc = "write" /\ req'[r].pc = "discard" /\ req'[r].wid = req[r].wid
          /\ req'[r].number = req[r].number /\ req'[r].mutation = req[r].mutation
          /\ \A q \in Requests \ {r} : req'[q] = req[q]
          /\ begun' = begun
      BY <1>2, <1>10, <2>2 DEF WriteFails, TypeOK, ReqRecord
    <3> QED  BY <3>1 DEF RequestInv, NumberInv, Applying
  <2>3. \/ req' = [req EXCEPT ![r] = Idle]
        \/ req' = [req EXCEPT ![r].pc = "discard"]
    BY <1>10 DEF WriteFails, TypeOK
  <2> QED  BY <2>1, <2>2, <2>3
\* The others.
<1>11. ASSUME NEW r \in Requests,
              ArmRefused(r) \/ Discard(r) \/ Leave(r)
       PROVE  RequestInv' /\ NumberInv'
  BY <1>5, <1>11 DEF ArmRefused, Discard, Leave
<1>12. ASSUME NEW r \in Requests, Write(r) \/ Mark(r)
       PROVE  RequestInv' /\ NumberInv'
  <2>1. \E pc \in RequestPcs \ {"arm", "write", "discard"} :
           begun' = begun /\ req' = [req EXCEPT ![r].pc = pc]
    BY <1>12 DEF Write, Mark, RequestPcs
  <2> QED  BY <2>1, <1>4
<1>13. ASSUME NEW r \in Requests,
              Finish(r) \/ Abort(r) \/ Confirm(r) \/ RevertNow(r)
       PROVE  RequestInv' /\ NumberInv'
  <2>1. /\ begun' = begun
        /\ req' = [req EXCEPT ![r] = Idle] \/ req' = [req EXCEPT ![r].pc = "busy"]
    BY <1>13, Zenon DEF Finish, Abort, Confirm, RevertNow, RevertPending
  <2>2. "busy" \in RequestPcs \ {"arm", "write", "discard"}
    BY DEF RequestPcs
  <2> QED  BY <2>1, <2>2, <1>4, <1>5
<1>14. ASSUME NEW r \in Requests, See(r)
       PROVE  RequestInv' /\ NumberInv'
  <2>1. \A q \in Requests : Quieter(q) \/ Same(q)
    BY <1>2, <1>14 DEF See, TypeOK, RequestInv, ReqRecord
  <2> QED  BY <2>1, <1>1, <1>14 DEF See
<1>15. CASE ReconPersist
  <2>1. begun' = begun /\ ReconReturns(recon.by, recon.outcome = "ok")
    BY <1>15 DEF ReconPersist
  <2>2. CASE \E completed : LeaveCrit(completed)
    BY <2>1, <2>2, <1>7
  <2>3. CASE ~ \E completed : LeaveCrit(completed)
    <3>1. CASE req' = req
      BY <2>1, <3>1, <1>6
    <3>2. CASE req' = [req EXCEPT ![recon.by] =
                 IF recon.outcome = "ok"
                   THEN IF @.wid = NoWindow THEN [@ EXCEPT !.pc = "finish"] ELSE Idle
                   ELSE IF @.wid = NoWindow THEN Idle ELSE [@ EXCEPT !.pc = "abort"]]
      <4>1. \A q \in Requests : Quieter(q) \/ Same(q)
        BY <1>2, <1>3, <3>2 DEF TypeOK, RequestInv, ReqRecord
      <4> QED  BY <4>1, <2>1, <1>1
    <3> QED  BY <2>1, <2>3, <3>1, <3>2 DEF ReconReturns
  <2> QED  BY <2>2, <2>3
<1>16. CASE RevertStep
  <2>1. begun' = begun /\ (req' = req \/ \E completed : LeaveCrit(completed))
    BY <1>16 DEF RevertStep, RevertRead, RevertReplace, RevertSettings, RevertMark,
                 RevertClear, CritPersist
  <2> QED  BY <2>1, <1>6, <1>7
<1>17. CASE \/ \E p \in Procs : ReconLoad(p)
            \/ ReconApply \/ Deadline \/ WatchdogCheck \/ BootCheck
            \/ UNCHANGED vars
  <2>1. begun' = begun /\ req' = req
    BY <1>17 DEF ReconLoad, ReconApply, Deadline, WatchdogCheck, BootCheck, vars
  <2> QED  BY <2>1, <1>6
<1>18. ASSUME NEW machine \in BOOLEAN, Restart(machine)
       PROVE  RequestInv' /\ NumberInv'
  <2>1. \A q \in Requests : Quieter(q)
    BY <1>3, <1>18 DEF Restart
  <2> QED  BY <2>1, <1>1, <1>18 DEF Restart
<1> QED
  BY <1>8, <1>9, <1>10, <1>11, <1>12, <1>13, <1>14, <1>15, <1>16, <1>17, <1>18
  DEF Next, ApplyStep, OperatorStep, ReconStep

\* What happens under Service.mu, step by step.
LEMMA CritStepInv ==
    ASSUME Structure, [Next]_vars
    PROVE  CritInv'
<1> USE DEF Structure, CritInv, RevertBegun
<1> DEFINE Held == UNCHANGED <<crit, pending>>
           Off  == crit'.stage \in {"off", "persist"}
\* Nothing of the section changes, or it ends, or the window is persisted.
<1>1. ASSUME Held PROVE CritInv'
  BY <1>1
<1>2. ASSUME Off PROVE CritInv'
  BY <1>2
<1>3. ASSUME NEW completed, LeaveCrit(completed) PROVE CritInv'
  BY <1>2, <1>3 DEF LeaveCrit, CritOff
<1>4. ASSUME NEW p, pending # NoPending, pending' = pending, EnterRevert(p) PROVE CritInv'
  BY <1>4 DEF EnterRevert
<1>5. ASSUME crit.stage = "off", crit' = crit PROVE CritInv'
  BY <1>5
<1>6. crit.stage \in CritStages /\ (pending # NoPending => pending \in Window)
  BY DEF TypeOK, CritRecord
<1>7. ASSUME NEW r \in Requests, ApplyStep(r) \/ \E m \in Mutations : Begin(r, m)
      PROVE  CritInv'
  <2>1. CASE ArmOpens(r) \/ ArmRefused(r) \/ Discard(r) \/ Mark(r)
    BY <2>1, <1>5 DEF ArmOpens, ArmRefused, Discard, Mark, locks
  <2>2. CASE Write(r) \/ WriteFails(r) \/ \E m \in Mutations : Begin(r, m)
    BY <2>2, <1>1 DEF Write, WriteFails, Begin, stores, locks
  <2>3. CASE Finish(r)
    BY <2>3, <1>2, <1>5 DEF Finish
  <2>4. CASE Abort(r)
    BY <2>4, <1>4, <1>5 DEF Abort, RevertPending, IsOpen, stores
  <2> QED  BY <1>7, <2>1, <2>2, <2>3, <2>4 DEF ApplyStep
<1>8. ASSUME NEW r \in Requests, OperatorStep(r)
      PROVE  CritInv'
  <2>1. CASE See(r) \/ Leave(r)
    BY <2>1, <1>1 DEF See, Leave, stores, locks
  <2>2. CASE Confirm(r)
    BY <2>2, <1>2, <1>5 DEF Confirm
  <2>3. CASE RevertNow(r)
    BY <2>3, <1>4, <1>5 DEF RevertNow, RevertPending, IsOpen, stores
  <2> QED  BY <1>8, <2>1, <2>2, <2>3 DEF OperatorStep
<1>9. CASE RevertStep
  <2>1. CASE \E completed : LeaveCrit(completed)
    BY <2>1, <1>3
  <2>2. CASE RevertRead /\ ~ \E completed : LeaveCrit(completed)
    <3>1. pending # NoPending /\ ~ pending.reverting /\ crit'.stage = "replace"
      BY <2>2 DEF RevertRead, TypeOK, CritRecord
    <3>2. pending' = [pending EXCEPT !.snapshot = MergedTarget] \/ pending' = pending
      BY <2>2 DEF RevertRead
    <3>3. pending' # NoPending /\ ~ pending'.reverting
      <4>1. MergedTarget \in Snapshot
        BY <3>1, MergeIsTable
        DEF MergedTarget, Snapshot, AppliedOrSnapshot, Window, TypeOK, State
      <4>2. [pending EXCEPT !.snapshot = MergedTarget] \in Window
        BY <3>1, <1>6, <4>1 DEF Window
      <4> QED  BY <3>1, <3>2, <4>2, <1>6, ConfirmWindowAssumption DEF Window
    <3> QED  BY <3>1, <3>3
  <2>3. CASE RevertReplace /\ ~ \E completed : LeaveCrit(completed)
    BY <2>3 DEF RevertReplace, TypeOK, CritRecord
  <2>4. CASE RevertSettings
    BY <2>4 DEF RevertSettings, TypeOK, CritRecord
  <2>5. CASE RevertMark /\ ~ \E completed : LeaveCrit(completed)
    <3>1. pending \in Window /\ pending' = [pending EXCEPT !.reverting = TRUE]
          /\ crit'.stage = "recon"
      BY <2>5, <1>6 DEF RevertMark, TypeOK, CritRecord
    <3>2. pending' \in Window /\ pending'.reverting
      BY <3>1 DEF Window
    <3> QED  BY <3>1, <3>2, ConfirmWindowAssumption
  <2>6. CASE RevertClear /\ ~ \E completed : LeaveCrit(completed)
    BY <2>6, <1>2 DEF RevertClear, TypeOK, CritRecord
  <2>7. CASE CritPersist
    BY <2>7, <1>3 DEF CritPersist
  <2> QED  BY <1>9, <2>1, <2>2, <2>3, <2>4, <2>5, <2>6, <2>7 DEF RevertStep
<1>10. CASE ReconStep
  <2>1. CASE ReconApply
    BY <2>1, <1>1 DEF ReconApply
  <2>2. CASE ReconPersist
    <3>1. pending' = pending /\ ReconReturns(recon.by, recon.outcome = "ok")
      BY <2>2 DEF ReconPersist
    <3>2. CASE crit.stage = "recon" /\ crit' = [crit EXCEPT !.stage = "clear"]
      BY <3>1, <3>2 DEF TypeOK, CritRecord
    <3>3. CASE LeaveCrit(FALSE)
      BY <3>3, <1>3
    <3>4. CASE crit' = crit
      BY <3>1, <3>4, <1>1
    <3> QED  BY <3>1, <3>2, <3>3, <3>4 DEF ReconReturns
  <2> QED  BY <1>10, <2>1, <2>2 DEF ReconStep
<1>11. CASE BootCheck \/ WatchdogCheck
  BY <1>1, <1>4, <1>11 DEF BootCheck, WatchdogCheck, stores
<1>12. CASE Deadline \/ (\E p \in Procs : ReconLoad(p)) \/ UNCHANGED vars
  BY <1>1, <1>12 DEF Deadline, ReconLoad, stores, locks, vars
<1>13. CASE \E machine \in BOOLEAN : Restart(machine)
  BY <1>2, <1>13 DEF Restart, CritOff
<1> QED  BY <1>7, <1>8, <1>9, <1>10, <1>11, <1>12, <1>13 DEF Next

-----------------------------------------------------------------------------
(* The accepted rows *)

\* Only a covered write changes the input rows, and then its window is open.
LEMMA WriteKeepsData ==
    ASSUME Structure, DataInv, NEW r \in Requests, Write(r), ~ escaped'
    PROVE  DataInv'
<1> USE DEF Structure
<1>1. /\ UNCHANGED <<pending, crit, approved>>
      /\ req[r].pc = "write" /\ req'[r].pc \notin {"write", "discard"}
      /\ \A q \in Requests \ {r} : req'[q] = req[q]
  BY DEF Write, TypeOK, ReqRecord, locks
<1>2. CASE Guarded(db') = Guarded(db)
  <2>1. InputOf(db'.rows) = InputOf(db.rows)
    BY <1>2 DEF Guarded
  <2> QED  BY <1>1, <2>1 DEF DataInv, Accepted, RevertBegun, IsOpen
<1>3. CASE Guarded(db') # Guarded(db)
  <2>1. Covered(r)
    BY <1>3 DEF Write
  <2>2. /\ pending # NoPending /\ ~ pending.reverting
        /\ pending.id = req[r].wid /\ pending.id # NoWindow
        /\ crit.stage \notin {"settings", "mark"}
    BY <2>1 DEF Covered, IsOpen, TypeOK, Window, WindowIds, NoWindow
  <2>3. ASSUME NEW q \in Requests, q # r, req[q].pc \in {"write", "discard"}
        PROVE  req[q].wid # pending.id
    BY <1>1, <2>2, <2>3 DEF RequestInv, NumberInv, Applying
  <2> QED  BY <1>1, <2>2, <2>3 DEF DataInv, Accepted, RevertBegun, IsOpen
<1> QED  BY <1>2, <1>3

\* Where the accepted rows are does not depend on anything else than this.
LEMMA NothingRelevantChanges ==
    ASSUME DataInv, UNCHANGED <<db, pending, approved>>,
           \/ crit'.stage = crit.stage /\ crit'.target = crit.target
           \/ crit'.stage \notin {"replace", "settings", "mark"},
           \A q \in Requests : \/ req'[q] = req[q]
                               \/ req'[q].pc \notin {"write", "discard"}
    PROVE  DataInv'
BY DEF DataInv, Accepted, RevertBegun, IsOpen

LEMMA ApplyKeepsData ==
    ASSUME Structure, DataInv, ~ escaped', NEW r \in Requests,
           ApplyStep(r) \/ \E m \in Mutations : Begin(r, m)
    PROVE  DataInv'
<1> USE DEF Structure
<1>1. \A q \in Requests : req[q] \in ReqRecord
  BY DEF TypeOK
<1>2. pending # NoPending => pending \in Window
  BY DEF TypeOK
<1>3. ASSUME NEW m \in Mutations, Begin(r, m) PROVE DataInv'
  <2>1. \A q \in Requests : \/ req'[q] = req[q]
                            \/ req'[q].wid = NoWindow
    BY <1>3 DEF Begin, TypeOK
  <2>2. UNCHANGED <<db, pending, crit, approved>>
    BY <1>3 DEF Begin, stores, locks, history
  <2>3. pending # NoPending => pending.id # NoWindow
    BY <1>2 DEF Window, WindowIds, NoWindow
  <2> QED  BY <2>1, <2>2, <2>3 DEF DataInv, Accepted, RevertBegun, IsOpen
<1>4. CASE ArmOpens(r)
  <2>1. Accepted(db.rows)
    BY <1>4 DEF ArmOpens, WindowFree, RevertSettled, DataInv, RevertBegun
  <2>2. /\ pending' = NewWindow(r) /\ crit.stage = "off"
        /\ UNCHANGED <<db, crit, approved>>
    BY <1>4 DEF ArmOpens, locks, history
  <2>3. pending'.snapshot = db /\ ~ pending'.reverting
    BY <2>2 DEF NewWindow
  <2> QED  BY <2>1, <2>2, <2>3 DEF DataInv, Accepted, RevertBegun
<1>5. CASE ArmRefused(r) \/ Discard(r)
  <2>1. /\ UNCHANGED <<db, crit, approved>> /\ crit.stage = "off"
        /\ req' = [req EXCEPT ![r] = Idle]
    BY <1>5 DEF ArmRefused, Discard, locks, history
  <2>2. \A q \in Requests : req'[q] = req[q] \/ req'[q].pc = "idle"
    BY <2>1 DEF TypeOK, Idle
  <2>3. CASE pending' = pending
    BY <2>1, <2>2, <2>3, NothingRelevantChanges
  <2>4. CASE pending' # pending
    <3>1. pending' = NoPending /\ Accepted(db.rows)
      BY <1>5, <2>4 DEF ArmRefused, Discard, Discardable, RevertSettled, RevertBegun, DataInv
    <3> QED  BY <2>1, <2>2, <3>1 DEF DataInv, Accepted, RevertBegun, IsOpen
  <2> QED  BY <2>3, <2>4
<1>6. CASE Write(r)
  BY <1>6, WriteKeepsData
<1>7. CASE WriteFails(r)
  <2>1. UNCHANGED <<db, pending, crit, approved>>
    BY <1>7 DEF WriteFails, stores, locks, history
  <2>2. /\ req[r].pc = "write"
        /\ req'[r].pc = "idle" \/ req'[r].wid = req[r].wid
        /\ \A q \in Requests \ {r} : req'[q] = req[q]
    BY <1>1, <1>7 DEF WriteFails, TypeOK, Idle, ReqRecord
  <2> QED  BY <2>1, <2>2 DEF DataInv, Accepted, RevertBegun, IsOpen
<1>8. CASE Mark(r)
  <2>1. /\ UNCHANGED <<db, crit, approved>> /\ crit.stage = "off"
        /\ req' = [req EXCEPT ![r].pc = "recon"]
        /\ pending' = pending \/ (pending # NoPending /\ pending' = [pending EXCEPT !.applied = db.rows])
    BY <1>8 DEF Mark, locks, history, IsOpen
  <2>2. \A q \in Requests : req'[q] = req[q] \/ req'[q].pc = "recon"
    BY <1>1, <2>1 DEF TypeOK, ReqRecord
  <2>3. CASE pending' = pending
    BY <2>1, <2>2, <2>3, NothingRelevantChanges
  <2>4. CASE pending' # pending
    <3>1. /\ pending # NoPending /\ pending' # NoPending
          /\ pending'.snapshot = pending.snapshot /\ pending'.reverting = pending.reverting
          /\ pending'.id = pending.id
      <4>1. pending' \in Window
        BY <1>2, <2>1, <2>4 DEF Window, TypeOK, State
      <4> QED  BY <1>2, <2>1, <2>4, <4>1, ConfirmWindowAssumption DEF Window
    <3> QED  BY <2>1, <2>2, <3>1 DEF DataInv, Accepted, RevertBegun, IsOpen
  <2> QED  BY <2>3, <2>4
<1>9. CASE Finish(r)
  <2>1. /\ UNCHANGED <<db, approved>> /\ crit.stage = "off"
        /\ req' = [req EXCEPT ![r] = Idle] \/ req' = [req EXCEPT ![r].pc = "busy"]
        /\ \/ crit' = crit /\ pending' = pending
           \/ crit'.stage = "persist" /\ pending' = NoPending /\ RevertBegun
    BY <1>9, SMTT(30) DEF Finish, history
  <2>2. \A q \in Requests : req'[q] = req[q] \/ req'[q].pc \in {"idle", "busy"}
    BY <1>1, <2>1 DEF TypeOK, Idle, ReqRecord
  <2> QED  BY <2>1, <2>2, NothingRelevantChanges DEF DataInv, Accepted, RevertBegun, IsOpen
<1>10. CASE Abort(r)
  <2>1. UNCHANGED <<db, pending, approved>> /\ crit.stage = "off"
    BY <1>10 DEF Abort, RevertPending, stores, history
  <2>2. crit'.stage \notin {"replace", "settings", "mark"}
    BY <1>10 DEF Abort, RevertPending, EnterRevert
  <2>3. req' = [req EXCEPT ![r] = Idle] \/ req' = [req EXCEPT ![r].pc = "busy"]
    BY <1>10, Zenon DEF Abort, RevertPending
  <2>4. \A q \in Requests : req'[q] = req[q] \/ req'[q].pc \in {"idle", "busy"}
    BY <1>1, <2>3 DEF TypeOK, Idle, ReqRecord
  <2> QED  BY <2>1, <2>2, <2>4, NothingRelevantChanges
<1> QED  BY <1>3, <1>4, <1>5, <1>6, <1>7, <1>8, <1>9, <1>10 DEF ApplyStep

LEMMA OperatorKeepsData ==
    ASSUME Structure, DataInv, NEW r \in Requests, OperatorStep(r)
    PROVE  DataInv'
<1> USE DEF Structure
<1>1. \A q \in Requests : req[q] \in ReqRecord
  BY DEF TypeOK
<1>2. CASE See(r) \/ Leave(r)
  <2>1. UNCHANGED <<db, pending, crit, approved>>
    BY <1>2 DEF See, Leave, stores, locks, history
  <2>2. \A q \in Requests : req'[q] = req[q] \/ req'[q].pc \in {"idle", "decide"}
    BY <1>1, <1>2 DEF See, Leave, TypeOK, Idle, ReqRecord
  <2> QED  BY <2>1, <2>2, NothingRelevantChanges
<1>3. ASSUME req' = [req EXCEPT ![r] = Idle] \/ req' = [req EXCEPT ![r].pc = "busy"]
      PROVE  \A q \in Requests : req'[q] = req[q] \/ req'[q].pc \in {"idle", "busy"}
  BY <1>1, <1>3 DEF TypeOK, Idle, ReqRecord
<1>4. CASE Confirm(r)
  <2>1. req' = [req EXCEPT ![r] = Idle] \/ req' = [req EXCEPT ![r].pc = "busy"]
    BY <1>4, Zenon DEF Confirm
  <2>2. /\ db' = db
        /\ \/ UNCHANGED <<crit, pending, approved>>
           \/ crit'.stage = "persist" /\ pending' = NoPending /\ approved' = Guarded(db)
    BY <1>4 DEF Confirm
  <2>3. approved' = Guarded(db) => approved'.rows = InputOf(db.rows)
    BY DEF Guarded
  <2> QED  BY <1>3, <2>1, <2>2, <2>3, NothingRelevantChanges
           DEF DataInv, Accepted, RevertBegun, IsOpen
<1>5. CASE RevertNow(r)
  <2>1. UNCHANGED <<db, pending, approved>> /\ crit.stage = "off"
    BY <1>5 DEF RevertNow, RevertPending, stores, history
  <2>2. crit'.stage \notin {"replace", "settings", "mark"}
    BY <1>5 DEF RevertNow, RevertPending, EnterRevert
  <2>3. req' = [req EXCEPT ![r] = Idle] \/ req' = [req EXCEPT ![r].pc = "busy"]
    BY <1>5, Zenon DEF RevertNow, RevertPending
  <2> QED  BY <1>3, <2>1, <2>2, <2>3, NothingRelevantChanges
<1> QED  BY <1>2, <1>4, <1>5 DEF OperatorStep

LEMMA RevertKeepsData ==
    ASSUME Structure, DataInv, RevertStep
    PROVE  DataInv'
<1> USE DEF Structure
<1>1. ASSUME NEW completed, LeaveCrit(completed)
      PROVE  /\ crit'.stage = "off"
             /\ \A q \in Requests : req'[q] = req[q] \/ req'[q].pc \notin {"write", "discard"}
  BY <1>1 DEF LeaveCrit, CritOff, Idle
<1>2. ASSUME NEW completed, LeaveCrit(completed), UNCHANGED <<db, pending, approved>>
      PROVE  DataInv'
  BY <1>1, <1>2, NothingRelevantChanges
<1>3. CASE RevertRead
  <2>1. pending \in Window /\ UNCHANGED <<db, approved>> /\ ~ pending.reverting
    BY <1>3 DEF RevertRead, CritInv, TypeOK, history
  <2>2. CASE pending' = pending /\ req' = req /\ crit' = [crit EXCEPT !.stage = "replace", !.target = pending.snapshot]
    <3>1. crit'.stage = "replace" /\ crit'.target = pending.snapshot
      BY <2>2 DEF TypeOK, CritRecord
    <3> QED  BY <2>1, <2>2, <3>1, ConfirmWindowAssumption
             DEF DataInv, Accepted, RevertBegun, IsOpen
  <2>3. CASE /\ pending' = [pending EXCEPT !.snapshot = MergedTarget] /\ req' = req
             /\ crit' = [crit EXCEPT !.stage = "replace", !.target = MergedTarget]
    <3>1. /\ AppliedOrSnapshot \in RowState /\ pending.snapshot.rows \in RowState
          /\ db.rows \in RowState
      BY <2>1 DEF AppliedOrSnapshot, Window, Snapshot, TypeOK, State
    <3>2. InputOf(MergedTarget.rows) = InputOf(pending.snapshot.rows) /\ MergedTarget \in Snapshot
      BY <3>1, MergeKeepsInput, MergeIsTable DEF MergedTarget, Snapshot
    <3>3. /\ pending' \in Window /\ pending'.snapshot = MergedTarget
          /\ pending'.reverting = pending.reverting /\ pending'.id = pending.id
      BY <2>1, <2>3, <3>2 DEF Window
    <3>4. crit'.stage = "replace" /\ crit'.target = MergedTarget
      BY <2>3 DEF TypeOK, CritRecord
    <3> QED  BY <2>1, <2>3, <3>2, <3>3, <3>4, ConfirmWindowAssumption
             DEF DataInv, Accepted, RevertBegun, IsOpen
  <2>4. CASE LeaveCrit(FALSE) /\ pending' = pending
    BY <2>1, <2>4, <1>2
  <2> QED  BY <1>3, <2>2, <2>3, <2>4 DEF RevertRead
<1>4. CASE RevertReplace
  <2>1. UNCHANGED <<pending, approved>> /\ crit.stage = "replace"
    BY <1>4 DEF RevertReplace, history
  <2>2. CASE LeaveCrit(FALSE) /\ db' = db
    BY <2>1, <2>2, <1>2
  <2>3. CASE /\ db' = [db EXCEPT !.rows = crit.target.rows]
             /\ crit' = [crit EXCEPT !.stage = "settings"] /\ req' = req
    <3>1. /\ db'.rows = crit.target.rows /\ crit'.target = crit.target
          /\ crit'.stage = "settings"
      BY <2>3 DEF TypeOK, State, CritRecord
    <3>2. Accepted(crit.target.rows)
      BY <2>1 DEF DataInv
    <3> QED  BY <2>1, <2>3, <3>1, <3>2 DEF DataInv, Accepted, RevertBegun, IsOpen
  <2> QED  BY <1>4, <2>2, <2>3 DEF RevertReplace
<1>5. CASE RevertSettings
  <2>1. /\ db'.rows = db.rows /\ crit'.target = crit.target /\ crit'.stage = "mark"
        /\ crit.stage = "settings"
        /\ UNCHANGED <<pending, approved, req>>
    BY <1>5 DEF RevertSettings, history, TypeOK, State, CritRecord
  <2> QED  BY <2>1 DEF DataInv, Accepted, RevertBegun, IsOpen
<1>6. CASE RevertMark
  <2>1. pending \in Window /\ UNCHANGED <<db, approved>> /\ Accepted(db.rows)
    BY <1>6 DEF RevertMark, CritInv, TypeOK, history, DataInv
  <2>2. CASE LeaveCrit(FALSE) /\ pending' = pending
    BY <2>1, <2>2, <1>2
  <2>3. CASE /\ pending' = [pending EXCEPT !.reverting = TRUE]
             /\ crit' = [crit EXCEPT !.stage = "recon"] /\ req' = req
    <3>1. pending' \in Window /\ pending'.snapshot = pending.snapshot /\ crit'.stage = "recon"
      BY <2>1, <2>3 DEF Window, TypeOK, CritRecord
    <3> QED  BY <2>1, <2>3, <3>1, ConfirmWindowAssumption
             DEF DataInv, Accepted, RevertBegun, IsOpen
  <2> QED  BY <1>6, <2>2, <2>3 DEF RevertMark
<1>7. CASE RevertClear
  <2>1. /\ UNCHANGED <<db, approved>> /\ Accepted(db.rows)
    BY <1>7 DEF RevertClear, CritInv, history, DataInv
  <2>2. CASE LeaveCrit(FALSE) /\ pending' = pending
    BY <2>1, <2>2, <1>2
  <2>3. CASE pending' = NoPending /\ crit' = [crit EXCEPT !.stage = "persist"] /\ req' = req
    <3>1. crit'.stage = "persist"
      BY <2>3 DEF TypeOK, CritRecord
    <3> QED  BY <2>1, <2>3, <3>1 DEF DataInv, Accepted, RevertBegun, IsOpen
  <2> QED  BY <1>7, <2>2, <2>3 DEF RevertClear
<1>8. CASE CritPersist
  BY <1>8, <1>2 DEF CritPersist, history
<1> QED  BY <1>3, <1>4, <1>5, <1>6, <1>7, <1>8 DEF RevertStep

LEMMA OthersKeepData ==
    ASSUME Structure, DataInv,
           \/ \E p \in Procs : ReconLoad(p)
           \/ ReconStep \/ Deadline \/ WatchdogCheck \/ BootCheck
           \/ \E machine \in BOOLEAN : Restart(machine)
           \/ UNCHANGED vars
    PROVE  DataInv'
<1> USE DEF Structure
<1>1. UNCHANGED <<db, pending, approved>>
  BY DEF ReconLoad, ReconStep, ReconApply, ReconPersist, Deadline, WatchdogCheck, BootCheck,
         Restart, stores, history, vars
<1>2. \A q \in Requests : req[q] \in ReqRecord
  BY DEF TypeOK
<1>3. CASE ReconPersist
  <2>1. ReconReturns(recon.by, recon.outcome = "ok")
    BY <1>3 DEF ReconPersist
  <2>2. \/ crit' = crit
        \/ crit'.stage \notin {"replace", "settings", "mark"}
    BY <2>1 DEF ReconReturns, LeaveCrit, CritOff, TypeOK, CritRecord
  <2>3. \A q \in Requests : \/ req'[q] = req[q]
                            \/ req'[q].pc \notin {"write", "discard"}
    BY <1>2, <2>1 DEF ReconReturns, LeaveCrit, Idle, TypeOK, ReqRecord
  <2> QED  BY <1>1, <2>2, <2>3, NothingRelevantChanges
<1>4. CASE (\E p \in Procs : ReconLoad(p)) \/ ReconApply \/ Deadline \/ UNCHANGED vars
  <2>1. crit' = crit /\ req' = req
    BY <1>4 DEF ReconLoad, ReconApply, Deadline, locks, vars
  <2> QED  BY <1>1, <2>1, NothingRelevantChanges
<1>5. CASE WatchdogCheck \/ BootCheck
  <2>1. req' = req /\ (crit' = crit \/ crit'.stage \notin {"replace", "settings", "mark"})
    BY <1>5 DEF WatchdogCheck, BootCheck, EnterRevert
  <2> QED  BY <1>1, <2>1, NothingRelevantChanges
<1>6. CASE \E machine \in BOOLEAN : Restart(machine)
  <2>1. crit'.stage = "off" /\ \A q \in Requests : req'[q].pc = "idle"
    BY <1>6 DEF Restart, CritOff, Idle
  <2> QED  BY <1>1, <2>1, NothingRelevantChanges
<1> QED  BY <1>3, <1>4, <1>5, <1>6 DEF ReconStep

-----------------------------------------------------------------------------
(* Who holds and who waits for the two mutexes *)

\* Whoever runs a section under Service.mu is doing nothing else.
HolderInv ==
    crit.stage # "off" =>
        /\ crit.by \in Requests => req[crit.by].pc = "busy"
        /\ crit.by = Boot => boot.pc = "reverting"

\* Whoever runs a reconciliation is waiting for it.
WaiterInv == recon.stage # "off" => WantsRecon(recon.by)

SeatInv == HolderInv /\ WaiterInv

LEMMA InitSeats == Init => SeatInv
BY DEF Init, SeatInv, HolderInv, WaiterInv, CritOff, ReconOff

LEMMA NextSeats ==
    ASSUME Structure, SeatInv, [Next]_vars
    PROVE  SeatInv'
<1> USE DEF Structure
<1>1. /\ req \in [Requests -> ReqRecord] /\ boot \in BootRecord
      /\ crit \in CritRecord /\ recon \in ReconRecord
      /\ Boot \notin Requests /\ Watchdog \notin Requests /\ Watchdog # Boot
  BY ConfirmWindowAssumption DEF TypeOK, Boot, Watchdog
<1>2. HolderInv /\ WaiterInv
  BY DEF SeatInv
\* A request that neither holds nor waits does something.
<1>3. ASSUME UNCHANGED <<crit, recon, boot>>, NEW r \in Requests, req[r].pc \notin {"busy", "recon"},
             \A q \in Requests \ {r} : req'[q] = req[q]
      PROVE  SeatInv'
  BY <1>1, <1>2, <1>3 DEF SeatInv, HolderInv, WaiterInv, WantsRecon
\* Such a request takes Service.mu.
<1>4. ASSUME UNCHANGED <<recon, boot>>, NEW r \in Requests, req[r].pc # "recon",
             crit.stage = "off", crit'.by = r, req'[r].pc = "busy",
             \A q \in Requests \ {r} : req'[q] = req[q]
      PROVE  SeatInv'
  BY <1>1, <1>2, <1>4 DEF SeatInv, HolderInv, WaiterInv, WantsRecon
\* The holder goes on, or leaves.
<1>5. ASSUME UNCHANGED <<recon, req, boot>>, crit.stage \notin {"off", "recon"}, crit'.by = crit.by
      PROVE  SeatInv'
  BY <1>1, <1>2, <1>5 DEF SeatInv, HolderInv, WaiterInv, WantsRecon
<1>6. ASSUME UNCHANGED recon, NEW completed, LeaveCrit(completed), crit.stage \notin {"off", "recon"}
      PROVE  SeatInv'
  <2>1. HolderInv'
    BY <1>6 DEF LeaveCrit, HolderInv, CritOff
  <2>2. WaiterInv'
    BY <1>1, <1>2, <1>6 DEF LeaveCrit, WaiterInv, HolderInv, WantsRecon
  <2> QED  BY <2>1, <2>2 DEF SeatInv
<1>7. ASSUME UNCHANGED <<crit, recon, req, boot>> PROVE SeatInv'
  BY <1>1, <1>2, <1>7 DEF SeatInv, HolderInv, WaiterInv, WantsRecon
<1>8. ASSUME NEW r \in Requests,
             \/ \E m \in Mutations : Begin(r, m)
             \/ ArmOpens(r) \/ ArmRefused(r) \/ Write(r) \/ WriteFails(r) \/ Discard(r) \/ Mark(r)
             \/ See(r) \/ Leave(r)
      PROVE  SeatInv'
  <2>1. /\ UNCHANGED <<crit, recon, boot>> /\ req[r].pc \notin {"busy", "recon"}
        /\ \A q \in Requests \ {r} : req'[q] = req[q]
    BY <1>1, <1>8 DEF Begin, ArmOpens, ArmRefused, Write, WriteFails, Discard, Mark, See, Leave, locks
  <2> QED  BY <2>1, <1>3
<1>9. ASSUME NEW r \in Requests, Finish(r) \/ Abort(r) \/ Confirm(r) \/ RevertNow(r)
      PROVE  SeatInv'
  <2>1. /\ UNCHANGED <<recon, boot>> /\ req[r].pc \notin {"busy", "recon"} /\ crit.stage = "off"
        /\ \/ crit' = crit /\ req' = [req EXCEPT ![r] = Idle]
           \/ crit'.by = r /\ req' = [req EXCEPT ![r].pc = "busy"]
    <3>1. CASE Finish(r)
      BY <3>1 DEF Finish
    <3>2. CASE Confirm(r)
      BY <3>2 DEF Confirm
    <3>3. CASE Abort(r) \/ RevertNow(r)
      BY <3>3 DEF Abort, RevertNow, RevertPending, EnterRevert, stores
    <3> QED  BY <1>9, <3>1, <3>2, <3>3
  <2>2. CASE crit' = crit /\ req' = [req EXCEPT ![r] = Idle]
    BY <1>1, <2>1, <2>2, <1>3
  <2>3. CASE crit'.by = r /\ req' = [req EXCEPT ![r].pc = "busy"]
    <3>1. req'[r].pc = "busy" /\ \A q \in Requests \ {r} : req'[q] = req[q]
      BY <1>1, <2>3 DEF ReqRecord
    <3> QED  BY <2>1, <2>3, <3>1, <1>4
  <2> QED  BY <2>1, <2>2, <2>3
<1>10. CASE RevertStep
  <2>1. /\ recon' = recon /\ crit.stage \notin {"off", "recon"}
        /\ \/ UNCHANGED <<req, boot>> /\ crit'.by = crit.by
           \/ \E completed : LeaveCrit(completed)
    BY <1>1, <1>10 DEF RevertStep, RevertRead, RevertReplace, RevertSettings, RevertMark,
                       RevertClear, CritPersist, CritRecord
  <2> QED  BY <2>1, <1>5, <1>6
<1>11. ASSUME NEW p \in Procs, ReconLoad(p) PROVE SeatInv'
  <2>1. UNCHANGED <<crit, req, boot>> /\ WantsRecon(p) /\ recon'.by = p
    BY <1>11 DEF ReconLoad
  <2> QED  BY <1>2, <2>1 DEF SeatInv, HolderInv, WaiterInv, WantsRecon
<1>12. CASE ReconApply
  <2>1. UNCHANGED <<crit, req, boot>> /\ recon.stage # "off" /\ recon'.by = recon.by
    BY <1>1, <1>12 DEF ReconApply, ReconRecord
  <2> QED  BY <1>2, <2>1 DEF SeatInv, HolderInv, WaiterInv, WantsRecon
<1>13. CASE ReconPersist
  <2>1. WaiterInv'
    BY <1>13 DEF ReconPersist, WaiterInv, ReconOff
  <2>2. WantsRecon(recon.by) /\ ReconReturns(recon.by, recon.outcome = "ok")
    BY <1>2, <1>13 DEF ReconPersist, WaiterInv
  <2>3. CASE recon.by = crit.by /\ crit.stage = "recon"
    <3>1. CASE UNCHANGED <<req, boot>> /\ crit'.by = crit.by
      BY <1>2, <2>1, <2>3, <3>1 DEF HolderInv, SeatInv
    <3>2. CASE LeaveCrit(FALSE)
      BY <2>1, <3>2 DEF LeaveCrit, CritOff, HolderInv, SeatInv
    <3> QED  BY <1>1, <2>2, <2>3, <3>1, <3>2 DEF ReconReturns, CritRecord
  <2>4. CASE ~ (recon.by = crit.by /\ crit.stage = "recon")
    <3>1. CASE recon.by = Boot
      <4>1. boot.pc = "recon" /\ UNCHANGED <<crit, req>>
        BY <1>1, <2>2, <2>4, <3>1 DEF ReconReturns, WantsRecon
      <4> QED  BY <1>2, <2>1, <4>1 DEF SeatInv, HolderInv
    <3>2. CASE recon.by # Boot
      <4>1. /\ recon.by \in Requests /\ req[recon.by].pc = "recon" /\ UNCHANGED <<crit, boot>>
            /\ \A q \in Requests \ {recon.by} : req'[q] = req[q]
        BY <1>1, <2>2, <2>4, <3>2 DEF ReconReturns, WantsRecon
      <4> QED  BY <1>2, <2>1, <4>1 DEF SeatInv, HolderInv
    <3> QED  BY <3>1, <3>2
  <2> QED  BY <2>3, <2>4
<1>14. CASE WatchdogCheck
  <2>1. UNCHANGED <<recon, req, boot>> /\ crit.stage = "off" /\ crit'.by = Watchdog
    BY <1>14 DEF WatchdogCheck, EnterRevert
  <2> QED  BY <1>1, <1>2, <2>1 DEF SeatInv, HolderInv, WaiterInv, WantsRecon
<1>15. CASE BootCheck
  <2>1. /\ UNCHANGED <<recon, req>> /\ boot.pc = "base"
        /\ \/ crit' = crit
           \/ crit.stage = "off" /\ crit'.by = Boot /\ boot'.pc = "reverting"
    BY <1>1, <1>15 DEF BootCheck, EnterRevert, BootRecord
  <2> QED  BY <1>1, <1>2, <2>1 DEF SeatInv, HolderInv, WaiterInv, WantsRecon
<1>16. CASE \E machine \in BOOLEAN : Restart(machine)
  BY <1>16 DEF Restart, CritOff, ReconOff, SeatInv, HolderInv, WaiterInv
<1>17. CASE Deadline \/ UNCHANGED vars
  BY <1>7, <1>17 DEF Deadline, vars, locks
<1> QED
  BY <1>8, <1>9, <1>10, <1>11, <1>12, <1>13, <1>14, <1>15, <1>16, <1>17
  DEF Next, ApplyStep, OperatorStep, ReconStep

-----------------------------------------------------------------------------
(* The theorems *)

LEMMA InitInv == Init => IInv
<1> SUFFICES ASSUME Init PROVE IInv
  OBVIOUS
<1>1. TypeOK
  BY InitTyped
<1>2. RequestInv /\ NumberInv
  BY ConfirmWindowAssumption DEF Init, RequestInv, NumberInv, Applying, Idle
<1>3. CritInv
  BY DEF Init, CritInv, CritOff, RevertBegun
<1>4. DataInv
  <2>1. approved.rows = InputOf(db.rows)
    BY DEF Init, Guarded
  <2> QED  BY <2>1 DEF Init, DataInv, Accepted, RevertBegun, IsOpen, CritOff
<1> QED  BY <1>1, <1>2, <1>3, <1>4 DEF IInv, Structure

\* An input change that once was written outside its window stays recorded.
LEMMA EscapedStays ==
    ASSUME [Next]_vars, escaped
    PROVE  escaped'
BY DEF Next, vars, Begin, ApplyStep, ArmOpens, ArmRefused, Write, WriteFails, Discard, Mark,
       Finish, Abort, RevertPending, OperatorStep, See, Confirm, RevertNow, Leave, ReconLoad,
       ReconStep, ReconApply, ReconPersist, RevertStep, RevertRead, RevertReplace,
       RevertSettings, RevertMark, RevertClear, CritPersist, Deadline, WatchdogCheck,
       BootCheck, Restart, history

LEMMA NextInv ==
    ASSUME IInv, [Next]_vars
    PROVE  IInv'
<1>1. Structure'
  BY NextTyped, RequestStep, CritStepInv DEF IInv, Structure
<1>2. ASSUME ~ escaped' PROVE DataInv'
  <2>1. ~ escaped /\ Structure /\ DataInv
    BY <1>2, EscapedStays DEF IInv
  <2> QED
    BY <1>2, <2>1, ApplyKeepsData, OperatorKeepsData, RevertKeepsData, OthersKeepData DEF Next
<1> QED  BY <1>1, <1>2 DEF IInv

LEMMA Invariance == Spec => []IInv
BY InitInv, NextInv, PTL DEF Spec

\* Every variable keeps its shape, for any requests, rows, settings, mutations,
\* faults and bounds.
THEOREM TypeCorrect == Spec => []TypeOK
<1>1. IInv => TypeOK
  BY DEF IInv, Structure
<1> QED  BY <1>1, Invariance, PTL

\* With no window open, the input rows of the database are the last accepted
\* ones, whatever fails or crashes between two steps of ApplyGuarded or revert.
THEOREM DatabaseProtected == Spec => []WindowProtectsDatabase
<1>1. IInv => WindowProtectsDatabase
  BY DEF IInv, DataInv, Accepted, WindowProtectsDatabase
<1> QED  BY <1>1, Invariance, PTL

\* The snapshot of the open window, merged with somebody else's writes or not,
\* leads back to the last accepted input rows.
THEOREM SnapshotGood == Spec => []SnapshotLeadsBack
<1>1. IInv => SnapshotLeadsBack
  BY DEF IInv, DataInv, Accepted, SnapshotLeadsBack
<1> QED  BY <1>1, Invariance, PTL

\* A window marked as being reverted has its earlier input rows in the database:
\* the fact RevertSettled, FinishSettledRevert and ConfirmPending's refusal rest on.
THEOREM RestoredWhenReverting == Spec => []RevertingMeansRestored
<1>1. IInv => RevertingMeansRestored
  BY DEF IInv, DataInv, Accepted, RevertBegun, RevertingMeansRestored
<1> QED  BY <1>1, Invariance, PTL

-----------------------------------------------------------------------------
(* The kernel and the boot file: what they are left with, as long as nft    *)
(* takes every ruleset it is given and the marking of a revert is recorded. *)

\* nft refuses nothing, and a revert is always marked.
NftTakes == "nft" \notin Faults /\ "reverting" \notin Faults

\* A reconciliation has not failed, and enforces what it read.
SuccessInv ==
    recon.stage # "off" =>
        /\ recon.outcome = "ok"
        /\ recon.stage = "persist" => live = recon.loaded

\* The mutex keeps every new window out while the boot file is written.
PersistInv == crit.stage = "persist" => pending = NoPending

\* What the kernel will enforce when the reconciliation under way, if any, is over.
Enforcing == IF recon.stage = "apply" THEN recon.loaded ELSE live

Running(p) == recon.stage # "off" /\ recon.by = p

\* Who has changed the database, or started over, and has yet to read it.
RevertOwes == \/ crit.stage \in {"settings", "mark"}
              \/ crit.stage = "recon" /\ ~ Running(crit.by)
RequestOwes(r) == req[r].pc = "mark" \/ (req[r].pc = "recon" /\ ~ Running(r))
BootOwes == boot.pc \in {"base", "reverting"} \/ (boot.pc = "recon" /\ ~ Running(Boot))

Owed == RevertOwes \/ BootOwes \/ \E r \in Requests : RequestOwes(r)

OwedInv == Enforcing # db => Owed

\* Input rows that an operator accepted, once or now.
OnceAccepted(rows) == \E a \in everApproved : a.rows = InputOf(rows)

\* What a reconciliation is about to enforce was accepted, or a window open on
\* it has not been decided, or its revert is past the rows and will reconcile.
LoadedInv ==
    recon.stage # "off" =>
        \/ OnceAccepted(recon.loaded.rows)
        \/ /\ pending # NoPending
           /\ \/ InputOf(recon.loaded.rows) = InputOf(db.rows)
              \/ crit.stage \in {"settings", "mark"}
              \/ crit.stage = "recon" /\ recon.by # crit.by

\* A revert that reconciled left the accepted rows in the kernel, and nothing
\* still under way takes them out again.
RestoredInv ==
    /\ crit.stage = "recon" /\ Running(crit.by) => Accepted(recon.loaded.rows)
    /\ crit.stage = "clear"
         => Accepted(live.rows) /\ (recon.stage # "off" => Accepted(recon.loaded.rows))
    /\ crit.stage = "off" /\ RevertBegun
         => /\ recon.stage # "off" => Accepted(recon.loaded.rows)
            /\ (\E r \in Requests : req[r].pc = "finish") => Accepted(live.rows)

FileInv ==
    /\ OnceAccepted(file.rows)
    /\ crit.stage = "persist" => OnceAccepted(live.rows)

StepsInv == SuccessInv /\ PersistInv /\ OwedInv /\ approved \in everApproved

RowsInv == LoadedInv /\ RestoredInv /\ FileInv

KernelInv == IInv /\ SeatInv /\ StepsInv /\ (~ escaped => RowsInv)

-----------------------------------------------------------------------------
(* Nobody is at two places *)

LEMMA NobodyTwice ==
    ASSUME Structure, SeatInv, recon.stage # "off"
    PROVE  /\ crit.stage \notin {"off", "recon"} => recon.by # crit.by
           /\ \A r \in Requests : req[r].pc \notin {"busy", "recon"} => recon.by # r
           /\ boot.pc \notin {"reverting", "recon"} => recon.by # Boot
           /\ boot.pc = "reverting" /\ crit.stage # "recon" => recon.by # Boot
           /\ crit.stage = "off" => recon.by # Watchdog
<1>1. HolderInv /\ WantsRecon(recon.by) /\ Boot \notin Requests /\ Watchdog \notin Requests
      /\ Watchdog # Boot
  BY ConfirmWindowAssumption DEF SeatInv, WaiterInv, Boot, Watchdog
<1> QED  BY <1>1 DEF HolderInv, WantsRecon

LEMMA NoFailure ==
    ASSUME NftTakes
    PROVE  ~ Fails("nft") /\ ~ Fails("reverting")
BY DEF NftTakes, Fails

\* The holder of Service.mu leaves: the requests and the boot pass are then as they
\* were, or idle, or about to reconcile.
LEMMA HolderLeaves ==
    ASSUME Structure, SeatInv, NEW completed, LeaveCrit(completed), crit.stage # "off"
    PROVE  /\ crit'.stage = "off"
           /\ \A q \in Requests : \/ req'[q] = req[q]
                                  \/ req[q].pc = "busy" /\ req'[q].pc = "idle"
           /\ boot' = boot \/ (boot.pc = "reverting" /\ boot'.pc = "recon")
BY DEF LeaveCrit, CritOff, Idle, SeatInv, HolderInv

-----------------------------------------------------------------------------
(* The reconciliation and the mutexes *)

LEMMA SuccessStep ==
    ASSUME NftTakes, Structure, SuccessInv, [Next]_vars
    PROVE  SuccessInv'
<1>1. recon \in ReconRecord
  BY DEF Structure, TypeOK
<1>2. CASE \E p \in Procs : ReconLoad(p)
  BY <1>2 DEF ReconLoad, SuccessInv
<1>3. CASE ReconApply
  BY <1>1, <1>3, NoFailure DEF ReconApply, SuccessInv, ReconRecord
<1>4. CASE ReconPersist \/ \E machine \in BOOLEAN : Restart(machine)
  BY <1>4 DEF ReconPersist, Restart, SuccessInv, ReconOff
<1>5. CASE UNCHANGED <<recon, live>>
  BY <1>5 DEF SuccessInv
<1> QED
  BY <1>2, <1>3, <1>4, <1>5
  DEF Next, vars, Begin, ApplyStep, ArmOpens, ArmRefused, Write, WriteFails, Discard, Mark,
      Finish, Abort, RevertPending, OperatorStep, See, Confirm, RevertNow, Leave, ReconStep,
      RevertStep, RevertRead, RevertReplace, RevertSettings, RevertMark, RevertClear, CritPersist,
      Deadline, WatchdogCheck, BootCheck, stores, locks

LEMMA PersistStep ==
    ASSUME Structure, PersistInv, [Next]_vars
    PROVE  PersistInv'
<1> USE DEF PersistInv
<1>1. crit \in CritRecord
  BY DEF Structure, TypeOK
<1>2. CASE crit' = crit /\ pending' = pending
  BY <1>2
<1>3. CASE crit'.stage # "persist" \/ pending' = NoPending
  BY <1>3
<1>4. CASE crit.stage = "off" /\ crit' = crit
  BY <1>4
<1>5. ASSUME NEW completed, LeaveCrit(completed) PROVE PersistInv'
  BY <1>5 DEF LeaveCrit, CritOff
<1>6. CASE RevertStep
  BY <1>1, <1>3, <1>5, <1>6 DEF RevertStep, RevertRead, RevertReplace, RevertSettings, RevertMark,
                                RevertClear, CritPersist, CritRecord
<1>7. CASE ReconPersist
  <2>1. pending' = pending /\ ReconReturns(recon.by, recon.outcome = "ok")
    BY <1>7 DEF ReconPersist
  <2>2. \/ crit' = crit
        \/ crit' = [crit EXCEPT !.stage = "clear"]
        \/ LeaveCrit(FALSE)
    BY <2>1 DEF ReconReturns
  <2> QED  BY <1>1, <1>2, <1>3, <1>5, <2>1, <2>2 DEF CritRecord
<1>8. CASE \E r \in Requests : ApplyStep(r) \/ OperatorStep(r) \/ \E m \in Mutations : Begin(r, m)
  BY <1>2, <1>3, <1>4, <1>8
  DEF Begin, ApplyStep, ArmOpens, ArmRefused, Write, WriteFails, Discard, Mark,
      Finish, Abort, RevertPending, EnterRevert, OperatorStep, See, Confirm, RevertNow, Leave,
      stores, locks
<1>9. CASE \/ \E p \in Procs : ReconLoad(p)
           \/ ReconApply \/ Deadline \/ WatchdogCheck \/ BootCheck
           \/ \E machine \in BOOLEAN : Restart(machine)
           \/ UNCHANGED vars
  BY <1>2, <1>3, <1>9 DEF ReconLoad, ReconApply, Deadline, WatchdogCheck, BootCheck, Restart,
                          EnterRevert, CritOff, stores, locks, vars
<1> QED  BY <1>6, <1>7, <1>8, <1>9 DEF Next, ReconStep

LEMMA ApprovedStep ==
    ASSUME approved \in everApproved, [Next]_vars
    PROVE  approved' \in everApproved' /\ everApproved \subseteq everApproved'
<1>1. CASE \E r \in Requests : Confirm(r)
  BY <1>1 DEF Confirm
<1>2. CASE UNCHANGED <<approved, everApproved>>
  BY <1>2
<1> QED
  BY <1>1, <1>2
  DEF Next, vars, Begin, ApplyStep, ArmOpens, ArmRefused, Write, WriteFails, Discard, Mark,
      Finish, Abort, RevertPending, OperatorStep, See, RevertNow, Leave, ReconLoad, ReconStep,
      ReconApply, ReconPersist, RevertStep, RevertRead, RevertReplace, RevertSettings, RevertMark,
      RevertClear, CritPersist, Deadline, WatchdogCheck, BootCheck, Restart, history

-----------------------------------------------------------------------------
(* Whoever changes the database reconciles *)

LEMMA OwedStep ==
    ASSUME NftTakes, Structure, SeatInv, SuccessInv, OwedInv, [Next]_vars
    PROVE  OwedInv'
<1>1. /\ req \in [Requests -> ReqRecord] /\ boot \in BootRecord
      /\ crit \in CritRecord /\ recon \in ReconRecord
  BY DEF Structure, TypeOK
\* The kernel and the database stay, and so does what was owed.
<1>2. ASSUME UNCHANGED <<db, live, recon>>, Owed => Owed' PROVE OwedInv'
  BY <1>2 DEF OwedInv, Enforcing
<1>3. ASSUME Owed' PROVE OwedInv'
  BY <1>3 DEF OwedInv
<1>4. ASSUME NEW r \in Requests, req[r].pc \notin {"mark", "recon"},
             UNCHANGED <<db, live, recon, boot>>,
             crit' = crit \/ crit.stage = "off",
             \A q \in Requests \ {r} : req'[q] = req[q]
      PROVE  OwedInv'
  BY <1>2, <1>4 DEF Owed, RevertOwes, BootOwes, RequestOwes, Running
\* The holder of Service.mu leaves without owing anything.
<1>5. ASSUME NEW completed, LeaveCrit(completed), UNCHANGED <<db, live, recon>>,
             crit.stage \notin {"off", "settings", "mark", "recon"}
      PROVE  OwedInv'
  <2>1. recon.stage # "off" /\ boot.pc = "reverting" => recon.by # Boot
    BY <1>5, NobodyTwice
  <2>2. BootOwes => BootOwes'
    BY <1>5, <2>1, HolderLeaves DEF BootOwes, Running
  <2>3. ~ RevertOwes
    BY <1>5 DEF RevertOwes
  <2>4. \A r \in Requests : RequestOwes(r) => RequestOwes(r)'
    BY <1>5, HolderLeaves DEF RequestOwes, Running
  <2> QED  BY <1>2, <1>5, <2>2, <2>3, <2>4 DEF Owed
<1>6. ASSUME UNCHANGED <<db, live, recon, req, boot>>,
             crit.stage \notin {"settings", "mark", "recon"}
      PROVE  OwedInv'
  BY <1>2, <1>6 DEF Owed, RevertOwes, BootOwes, RequestOwes, Running
<1>7. ASSUME NEW r \in Requests,
             \/ \E m \in Mutations : Begin(r, m)
             \/ ArmOpens(r) \/ ArmRefused(r) \/ WriteFails(r) \/ Discard(r)
             \/ See(r) \/ Leave(r)
      PROVE  OwedInv'
  <2>1. /\ req[r].pc \notin {"mark", "recon"} /\ UNCHANGED <<db, live, recon, boot, crit>>
        /\ \A q \in Requests \ {r} : req'[q] = req[q]
    BY <1>1, <1>7 DEF Begin, ArmOpens, ArmRefused, WriteFails, Discard, See, Leave, stores, locks
  <2> QED  BY <2>1, <1>4
<1>8. ASSUME NEW r \in Requests, Write(r) \/ Mark(r) PROVE OwedInv'
  <2>1. req'[r].pc \in {"mark", "recon"} /\ recon' = recon /\ req[r].pc \notin {"busy", "recon"}
    BY <1>1, <1>8 DEF Write, Mark, locks, ReqRecord
  <2>2. recon.stage # "off" => recon.by # r
    BY <2>1, NobodyTwice
  <2>3. RequestOwes(r)'
    BY <2>1, <2>2 DEF RequestOwes, Running
  <2> QED  BY <1>3, <2>3 DEF Owed
<1>9. ASSUME NEW r \in Requests, Finish(r) \/ Abort(r) \/ Confirm(r) \/ RevertNow(r)
      PROVE  OwedInv'
  <2>1. /\ req[r].pc \notin {"mark", "recon"} /\ UNCHANGED <<db, live, recon, boot>>
        /\ crit.stage = "off"
        /\ req' = [req EXCEPT ![r] = Idle] \/ req' = [req EXCEPT ![r].pc = "busy"]
    <3>1. CASE Finish(r)
      BY <3>1 DEF Finish
    <3>2. CASE Confirm(r)
      BY <3>2 DEF Confirm
    <3>3. CASE Abort(r) \/ RevertNow(r)
      BY <3>3 DEF Abort, RevertNow, RevertPending, stores
    <3> QED  BY <1>9, <3>1, <3>2, <3>3
  <2>2. \A q \in Requests \ {r} : req'[q] = req[q]
    BY <1>1, <2>1
  <2> QED  BY <2>1, <2>2, <1>4
<1>10. CASE RevertRead \/ RevertClear \/ CritPersist
  <2>1. /\ UNCHANGED <<db, live, recon>>
        /\ crit.stage \notin {"off", "settings", "mark", "recon"}
        /\ UNCHANGED <<req, boot>> \/ \E completed : LeaveCrit(completed)
    BY <1>10 DEF RevertRead, RevertClear, CritPersist
  <2> QED  BY <2>1, <1>5, <1>6
<1>11. CASE RevertReplace
  <2>1. CASE crit' = [crit EXCEPT !.stage = "settings"]
    <3>1. RevertOwes'
      BY <1>1, <2>1 DEF RevertOwes, CritRecord
    <3> QED  BY <1>3, <3>1 DEF Owed
  <2>2. CASE LeaveCrit(FALSE) /\ db' = db
    BY <1>5, <1>11, <2>2 DEF RevertReplace
  <2> QED  BY <1>11, <2>1, <2>2 DEF RevertReplace
<1>12. CASE RevertSettings
  <2>1. RevertOwes'
    BY <1>1, <1>12 DEF RevertSettings, RevertOwes, CritRecord
  <2> QED  BY <1>3, <2>1 DEF Owed
<1>13. CASE RevertMark
  <2>1. crit' = [crit EXCEPT !.stage = "recon"] /\ recon' = recon /\ crit.stage = "mark"
    BY <1>13, NoFailure DEF RevertMark
  <2>2. recon.stage # "off" => recon.by # crit.by
    BY <2>1, NobodyTwice
  <2>3. RevertOwes'
    BY <1>1, <2>1, <2>2 DEF RevertOwes, Running, CritRecord
  <2> QED  BY <1>3, <2>3 DEF Owed
<1>14. CASE \E p \in Procs : ReconLoad(p)
  BY <1>14 DEF ReconLoad, OwedInv, Enforcing, stores
<1>15. CASE ReconApply
  <2>1. /\ live' = recon.loaded /\ recon' = [recon EXCEPT !.stage = "persist"]
        /\ recon.stage = "apply" /\ UNCHANGED <<db, crit, req, boot>>
    BY <1>15, NoFailure DEF ReconApply
  <2>2. recon'.stage = "persist" /\ recon'.by = recon.by
    BY <1>1, <2>1 DEF ReconRecord
  <2>3. Enforcing' = Enforcing
    BY <2>1, <2>2 DEF Enforcing
  <2>4. Owed => Owed'
    BY <2>1, <2>2 DEF Owed, RevertOwes, BootOwes, RequestOwes, Running
  <2> QED  BY <2>1, <2>3, <2>4 DEF OwedInv
<1>16. CASE ReconPersist
  <2>1. /\ recon.stage = "persist" /\ recon'.stage = "off" /\ UNCHANGED <<db, live>>
        /\ ReconReturns(recon.by, TRUE) /\ WantsRecon(recon.by)
    BY <1>16 DEF ReconPersist, SuccessInv, SeatInv, WaiterInv, ReconOff
  <2>2. Enforcing' = Enforcing
    BY <2>1 DEF Enforcing
  <2>3. ASSUME Owed PROVE Owed'
    <3>1. CASE recon.by = crit.by /\ crit.stage = "recon"
      <4>1. UNCHANGED <<req, boot>> /\ ~ RevertOwes
        BY <2>1, <3>1 DEF ReconReturns, RevertOwes, Running
      <4> QED  BY <2>1, <2>3, <4>1 DEF Owed, BootOwes, RequestOwes, Running
    <3>2. CASE ~ (recon.by = crit.by /\ crit.stage = "recon") /\ recon.by = Boot
      <4>1. UNCHANGED <<crit, req>> /\ ~ BootOwes
        BY <2>1, <3>2, ConfirmWindowAssumption DEF ReconReturns, WantsRecon, BootOwes, Running, Boot
      <4> QED  BY <2>1, <2>3, <4>1 DEF Owed, RevertOwes, RequestOwes, Running
    <3>3. CASE ~ (recon.by = crit.by /\ crit.stage = "recon") /\ recon.by # Boot
      <4>1. /\ UNCHANGED <<crit, boot>> /\ recon.by \in Requests /\ ~ RequestOwes(recon.by)
            /\ \A q \in Requests \ {recon.by} : req'[q] = req[q]
        BY <1>1, <2>1, <3>3 DEF ReconReturns, WantsRecon, RequestOwes, Running
      <4> QED  BY <2>1, <2>3, <4>1 DEF Owed, RevertOwes, BootOwes, RequestOwes, Running
    <3> QED  BY <3>1, <3>2, <3>3
  <2> QED  BY <2>1, <2>2, <2>3 DEF OwedInv
<1>17. CASE WatchdogCheck
  <2>1. UNCHANGED <<db, live, recon, req, boot>> /\ crit.stage = "off"
    BY <1>17 DEF WatchdogCheck, stores
  <2> QED  BY <2>1, <1>6
<1>18. CASE BootCheck
  <2>1. /\ boot.pc = "base" /\ recon' = recon /\ boot'.pc \in {"recon", "reverting"}
    BY <1>1, <1>18 DEF BootCheck, BootRecord
  <2>2. recon.stage # "off" => recon.by # Boot
    BY <2>1, NobodyTwice
  <2>3. BootOwes'
    BY <2>1, <2>2 DEF BootOwes, Running
  <2> QED  BY <1>3, <2>3 DEF Owed
<1>19. CASE \E machine \in BOOLEAN : Restart(machine)
  <2>1. BootOwes'
    BY <1>19 DEF Restart, BootOwes
  <2> QED  BY <1>3, <2>1 DEF Owed
<1>20. CASE Deadline \/ UNCHANGED vars
  <2>1. UNCHANGED <<db, live, recon, crit, req, boot>>
    BY <1>20 DEF Deadline, stores, locks, vars
  <2> QED  BY <1>2, <2>1 DEF Owed, RevertOwes, BootOwes, RequestOwes, Running
<1> QED
  BY <1>7, <1>8, <1>9, <1>10, <1>11, <1>12, <1>13, <1>14, <1>15, <1>16, <1>17, <1>18, <1>19, <1>20
  DEF Next, ApplyStep, OperatorStep, RevertStep, ReconStep

-----------------------------------------------------------------------------
(* Nothing unaccepted is enforced, nor left for the next boot *)

\* Rows accepted once are accepted for good.
LEMMA AcceptedOnce ==
    ASSUME approved \in everApproved, NEW rows, Accepted(rows)
    PROVE  OnceAccepted(rows)
BY DEF OnceAccepted, Accepted

LEMMA LoadedStep ==
    ASSUME NftTakes, Structure, Structure', SeatInv, DataInv, LoadedInv, ~ escaped',
           approved \in everApproved, [Next]_vars
    PROVE  LoadedInv'
<1> DEFINE Elsewhere == crit.stage \notin {"settings", "mark", "recon"}
<1>1. /\ everApproved \subseteq everApproved'
      /\ crit \in CritRecord /\ recon \in ReconRecord /\ req \in [Requests -> ReqRecord]
      /\ pending # NoPending => pending \in Window
      /\ NoPending \notin Window
  BY ApprovedStep, ConfirmWindowAssumption DEF Structure, TypeOK
<1>2. ASSUME recon.stage # "off" => OnceAccepted(recon.loaded.rows),
             recon' = recon
      PROVE  LoadedInv'
  BY <1>1, <1>2 DEF LoadedInv, OnceAccepted
\* The window ends, or is another one, with the accepted rows in the database.
<1>3. ASSUME Elsewhere, Accepted(db.rows), recon' = recon PROVE LoadedInv'
  <2>1. \A rows : InputOf(rows) = InputOf(db.rows) => OnceAccepted(rows)
    BY <1>3, AcceptedOnce DEF OnceAccepted, Accepted
  <2> QED  BY <1>2, <1>3, <2>1 DEF LoadedInv
\* The window and the input rows stay.
<1>4. ASSUME recon'.stage # "off" => /\ recon.stage # "off" /\ recon'.by = recon.by
                                     /\ recon'.loaded = recon.loaded,
             InputOf(db'.rows) = InputOf(db.rows),
             pending = NoPending \/ pending' # NoPending,
             Elsewhere \/ crit' = crit
      PROVE  LoadedInv'
  BY <1>1, <1>4 DEF LoadedInv, OnceAccepted
<1>5. ASSUME pending' # NoPending, recon' = recon,
             \/ crit'.stage \in {"settings", "mark"}
             \/ crit'.stage = "recon" /\ (recon.stage # "off" => recon.by # crit'.by)
      PROVE  LoadedInv'
  BY <1>5 DEF LoadedInv
<1>6. RevertBegun => Accepted(db.rows)
  BY DEF DataInv
<1>7. ASSUME NEW r \in Requests,
             \/ \E m \in Mutations : Begin(r, m)
             \/ WriteFails(r) \/ See(r) \/ Leave(r) \/ Abort(r) \/ RevertNow(r)
      PROVE  LoadedInv'
  <2>1. UNCHANGED <<db, pending, recon>> /\ (crit' = crit \/ crit.stage = "off")
    BY <1>7 DEF Begin, WriteFails, See, Leave, Abort, RevertNow, RevertPending, stores, locks
  <2> QED  BY <2>1, <1>4
<1>8. ASSUME NEW r \in Requests, ArmOpens(r) PROVE LoadedInv'
  <2>1. recon' = recon /\ crit.stage = "off" /\ WindowFree
    BY <1>8 DEF ArmOpens, locks
  <2>2. CASE pending = NoPending
    BY <2>1, <2>2, <1>2 DEF LoadedInv
  <2>3. CASE RevertSettled
    BY <2>1, <2>3, <1>3, <1>6 DEF RevertSettled, RevertBegun
  <2> QED  BY <2>1, <2>2, <2>3 DEF WindowFree
<1>9. ASSUME NEW r \in Requests, ArmRefused(r) PROVE LoadedInv'
  <2>1. /\ UNCHANGED <<db, recon, crit>> /\ crit.stage = "off"
        /\ pending' = pending \/ RevertSettled
    BY <1>9 DEF ArmRefused, locks
  <2>2. CASE RevertSettled
    BY <2>1, <2>2, <1>3, <1>6 DEF RevertSettled, RevertBegun
  <2> QED  BY <2>1, <2>2, <1>4
<1>10. ASSUME NEW r \in Requests, Write(r) PROVE LoadedInv'
  <2>1. UNCHANGED <<pending, recon, crit>> /\ req[r].pc = "write"
    BY <1>10 DEF Write, locks
  <2>2. CASE Guarded(db') = Guarded(db)
    BY <2>1, <2>2, <1>4 DEF Guarded
  <2>3. CASE Covered(r)
    BY <2>1, <2>3, <1>3 DEF Covered, DataInv
  <2> QED  BY <1>10, <2>2, <2>3 DEF Write
<1>11. ASSUME NEW r \in Requests, Discard(r) PROVE LoadedInv'
  <2>1. /\ UNCHANGED <<db, recon, crit>> /\ crit.stage = "off"
        /\ pending' = pending \/ Accepted(db.rows)
    BY <1>11 DEF Discard, Discardable, DataInv, locks
  <2> QED  BY <2>1, <1>3, <1>4
<1>12. ASSUME NEW r \in Requests, Mark(r) PROVE LoadedInv'
  <2>1. UNCHANGED <<db, recon, crit>>
    BY <1>12 DEF Mark, locks
  <2>2. pending = NoPending \/ pending' # NoPending
    BY <1>12, ConfirmWindowAssumption DEF Mark, Structure, TypeOK, Window, State, IsOpen
  <2> QED  BY <2>1, <2>2, <1>4
<1>13. ASSUME NEW r \in Requests, Finish(r) PROVE LoadedInv'
  <2>1. UNCHANGED <<db, recon>> /\ crit.stage = "off" /\ (pending' = pending \/ RevertBegun)
    BY <1>13 DEF Finish
  <2> QED  BY <2>1, <1>3, <1>4, <1>6
<1>14. ASSUME NEW r \in Requests, Confirm(r) PROVE LoadedInv'
  <2>1. /\ UNCHANGED <<db, recon>> /\ crit.stage = "off"
        /\ pending' = pending \/ Guarded(db) \in everApproved'
    BY <1>14 DEF Confirm
  <2>2. CASE Guarded(db) \in everApproved'
    BY <1>1, <2>1, <2>2 DEF LoadedInv, OnceAccepted, Guarded
  <2> QED  BY <2>1, <2>2, <1>4
<1>15. CASE RevertRead
  <2>1. UNCHANGED <<db, recon>> /\ crit.stage = "read"
    BY <1>15 DEF RevertRead
  <2>2. pending' = pending \/ crit'.stage = "replace"
    BY <1>1, <1>15 DEF RevertRead, CritRecord
  <2>3. pending = NoPending \/ pending' # NoPending
    BY <2>2 DEF Structure, CritInv
  <2> QED  BY <2>1, <2>3, <1>4
<1>16. CASE RevertReplace \/ RevertSettings
  <2>1. /\ UNCHANGED <<pending, recon>> /\ pending # NoPending
        /\ \/ crit'.stage \in {"settings", "mark"}
           \/ db' = db /\ crit.stage = "replace"
    BY <1>1, <1>16 DEF RevertReplace, RevertSettings, Structure, CritInv, CritRecord
  <2> QED  BY <2>1, <1>4, <1>5
<1>17. CASE RevertMark
  <2>1. crit' = [crit EXCEPT !.stage = "recon"] /\ recon' = recon /\ crit.stage = "mark"
    BY <1>17, NoFailure DEF RevertMark
  <2>2. recon.stage # "off" => recon.by # crit.by
    BY <2>1, NobodyTwice
  <2>3. crit'.stage = "recon" /\ crit'.by = crit.by
    BY <1>1, <2>1 DEF CritRecord
  <2>4. pending' # NoPending
    BY <2>3 DEF Structure, CritInv, RevertBegun
  <2> QED  BY <2>1, <2>2, <2>3, <2>4, <1>5
<1>18. CASE RevertClear \/ CritPersist
  <2>1. /\ UNCHANGED <<db, recon>> /\ crit.stage \in {"clear", "persist"}
        /\ pending' = pending \/ RevertBegun
    BY <1>18 DEF RevertClear, CritPersist, Structure, CritInv
  <2> QED  BY <2>1, <1>3, <1>4, <1>6
<1>19. ASSUME NEW p \in Procs, ReconLoad(p) PROVE LoadedInv'
  <2>1. recon'.loaded = db /\ UNCHANGED <<db, pending>>
    BY <1>19 DEF ReconLoad, stores
  <2>2. CASE pending = NoPending
    <3>1. OnceAccepted(db.rows)
      BY <2>2, AcceptedOnce DEF DataInv
    <3> QED  BY <1>1, <2>1, <3>1 DEF LoadedInv, OnceAccepted
  <2>3. CASE pending # NoPending
    BY <2>1, <2>3 DEF LoadedInv
  <2> QED  BY <2>2, <2>3
<1>20. CASE ReconApply
  <2>1. UNCHANGED <<db, pending, crit>> /\ recon' = [recon EXCEPT !.stage = "persist"]
        /\ recon.stage = "apply"
    BY <1>20, NoFailure DEF ReconApply
  <2>2. recon'.loaded = recon.loaded /\ recon'.by = recon.by
    BY <1>1, <2>1 DEF ReconRecord
  <2> QED  BY <2>1, <2>2, <1>4
<1>21. CASE ReconPersist \/ \E machine \in BOOLEAN : Restart(machine)
  BY <1>21 DEF ReconPersist, Restart, ReconOff, LoadedInv
<1>22. CASE Deadline \/ WatchdogCheck \/ BootCheck \/ UNCHANGED vars
  <2>1. UNCHANGED <<db, pending, recon>> /\ (crit' = crit \/ crit.stage = "off")
    BY <1>22 DEF Deadline, WatchdogCheck, BootCheck, stores, locks, vars
  <2> QED  BY <2>1, <1>4
<1> QED
  BY <1>7, <1>8, <1>9, <1>10, <1>11, <1>12, <1>13, <1>14, <1>15, <1>16, <1>17, <1>18, <1>19,
     <1>20, <1>21, <1>22
  DEF Next, ApplyStep, OperatorStep, RevertStep, ReconStep

LEMMA RestoredStep ==
    ASSUME NftTakes, Structure, SeatInv, SuccessInv, PersistInv, DataInv, RestoredInv, [Next]_vars
    PROVE  RestoredInv'
<1>1. /\ crit \in CritRecord /\ recon \in ReconRecord /\ boot \in BootRecord
      /\ req \in [Requests -> ReqRecord]
      /\ pending # NoPending => pending \in Window
      /\ Boot \notin Requests /\ Watchdog \notin Requests
  BY ConfirmWindowAssumption DEF Structure, TypeOK, Boot, Watchdog
<1>2. RevertBegun => Accepted(db.rows)
  BY DEF DataInv
<1>3. /\ crit.stage = "clear" => RevertBegun
      /\ crit.stage = "recon" => RevertBegun
      /\ crit.stage \in {"read", "replace"} => ~ RevertBegun
  BY DEF Structure, CritInv, RevertBegun
\* Nothing moves but requests on their way, and windows not being reverted.
<1>4. ASSUME UNCHANGED <<recon, live, crit, approved>>, RevertBegun' => RevertBegun,
             \A q \in Requests : req'[q].pc = "finish" => req[q].pc = "finish"
      PROVE  RestoredInv'
  BY <1>4 DEF RestoredInv, Accepted, Running
\* The section is entered, or goes on before the reconciliation, or is persisting.
<1>5. ASSUME crit'.stage \in {"read", "replace", "settings", "mark", "persist"} PROVE RestoredInv'
  BY <1>5 DEF RestoredInv
<1>6. ASSUME recon' = recon, crit'.stage = "recon", recon.stage # "off" => recon.by # crit'.by
      PROVE  RestoredInv'
  BY <1>6 DEF RestoredInv, Running
<1>7. ASSUME crit'.stage = "off", ~ RevertBegun' PROVE RestoredInv'
  BY <1>7 DEF RestoredInv
\* Whoever enters the section of a marked revert is not reconciling.
<1>8. ASSUME NEW p, EnterRevert(p), recon' = recon, recon.stage # "off" => recon.by # p
      PROVE  RestoredInv'
  <2>1. crit'.stage \in {"read", "recon"} /\ crit'.by = p
    BY <1>8 DEF EnterRevert
  <2> QED  BY <1>8, <2>1, <1>5, <1>6
<1>9. ASSUME NEW r \in Requests,
             \/ \E m \in Mutations : Begin(r, m)
             \/ ArmRefused(r) \/ Write(r) \/ WriteFails(r) \/ Discard(r) \/ Mark(r)
             \/ See(r) \/ Leave(r)
      PROVE  RestoredInv'
  <2>1. UNCHANGED <<recon, live, crit, approved>>
    BY <1>9 DEF Begin, ArmRefused, Write, WriteFails, Discard, Mark, See, Leave, stores, locks, history
  <2>2. \A q \in Requests : req'[q].pc = "finish" => req[q].pc = "finish"
    <3>1. ASSUME NEW next, req' = [req EXCEPT ![r] = next], next.pc # "finish"
          PROVE  \A q \in Requests : req'[q].pc = "finish" => req[q].pc = "finish"
      BY <1>1, <3>1
    <3>2. \A pc \in RequestPcs : [req[r] EXCEPT !.pc = pc].pc = pc
      BY <1>1 DEF ReqRecord
    <3>3. CASE ArmRefused(r) \/ Discard(r) \/ Leave(r)
      BY <3>1, <3>3 DEF ArmRefused, Discard, Leave, Idle
    <3>4. CASE Write(r) \/ Mark(r)
      BY <3>1, <3>2, <3>4 DEF Write, Mark, RequestPcs
    <3>5. CASE WriteFails(r)
      BY <3>1, <3>2, <3>5 DEF WriteFails, Idle, RequestPcs
    <3>6. CASE See(r)
      BY <1>1, <3>6 DEF See, ReqRecord
    <3>7. CASE \E m \in Mutations : Begin(r, m)
      BY <1>1, <3>7 DEF Begin
    <3> QED  BY <1>9, <3>3, <3>4, <3>5, <3>6, <3>7
  <2>3. RevertBegun' => RevertBegun
    <3>1. CASE pending' = pending \/ pending' = NoPending
      BY <3>1 DEF RevertBegun
    <3>2. CASE Mark(r) /\ IsOpen(req[r].wid) /\ pending' = [pending EXCEPT !.applied = db.rows]
      BY <1>1, <3>2 DEF RevertBegun, Window, IsOpen
    <3> QED
      BY <1>9, <3>1, <3>2
      DEF Begin, ArmRefused, Write, WriteFails, Discard, Mark, See, Leave, stores
  <2> QED  BY <2>1, <2>2, <2>3, <1>4
<1>10. ASSUME NEW r \in Requests, ArmOpens(r) PROVE RestoredInv'
  <2>1. ~ RevertBegun' /\ crit' = crit /\ crit.stage = "off"
    BY <1>10 DEF ArmOpens, NewWindow, RevertBegun, locks
  <2> QED  BY <2>1, <1>7
<1>11. ASSUME NEW r \in Requests, Finish(r) \/ Confirm(r) PROVE RestoredInv'
  <2>1. CASE UNCHANGED <<recon, live, crit, approved, pending>> /\ req' = [req EXCEPT ![r] = Idle]
    <3>1. \A q \in Requests : req'[q].pc = "finish" => req[q].pc = "finish"
      BY <1>1, <2>1 DEF Idle
    <3> QED  BY <2>1, <3>1, <1>4 DEF RevertBegun
  <2>2. CASE crit' = [by |-> r, stage |-> "persist", target |-> NoTarget]
    BY <2>2, <1>5
  <2> QED  BY <1>11, <2>1, <2>2 DEF Finish, Confirm, history
<1>12. ASSUME NEW r \in Requests, Abort(r) \/ RevertNow(r) PROVE RestoredInv'
  <2>1. req[r].pc \notin {"busy", "recon"} /\ RevertPending(r)
    BY <1>12 DEF Abort, RevertNow
  <2>2. recon.stage # "off" => recon.by # r
    BY <2>1, NobodyTwice
  <2>3. CASE UNCHANGED <<recon, live, crit, approved, pending>> /\ req' = [req EXCEPT ![r] = Idle]
    <3>1. \A q \in Requests : req'[q].pc = "finish" => req[q].pc = "finish"
      BY <1>1, <2>3 DEF Idle
    <3> QED  BY <2>3, <3>1, <1>4 DEF RevertBegun
  <2>4. CASE EnterRevert(r)
    BY <2>1, <2>2, <2>4, <1>8 DEF RevertPending
  <2> QED  BY <2>1, <2>3, <2>4 DEF RevertPending, stores, history
<1>13. ASSUME NEW completed, LeaveCrit(completed), ~ RevertBegun' PROVE RestoredInv'
  BY <1>7, <1>13 DEF LeaveCrit, CritOff
<1>14. CASE RevertRead \/ RevertReplace
  <2>1. CASE crit'.stage \in {"replace", "settings"}
    BY <2>1, <1>5
  <2>2. CASE LeaveCrit(FALSE) /\ pending' = pending /\ crit.stage \in {"read", "replace"}
    BY <2>2, <1>3, <1>13 DEF RevertBegun
  <2> QED  BY <1>1, <1>14, <2>1, <2>2 DEF RevertRead, RevertReplace, CritRecord
<1>15. CASE RevertSettings
  <2>1. crit'.stage = "mark"
    BY <1>1, <1>15 DEF RevertSettings, CritRecord
  <2> QED  BY <2>1, <1>5
<1>16. CASE RevertMark
  <2>1. crit' = [crit EXCEPT !.stage = "recon"] /\ recon' = recon /\ crit.stage = "mark"
    BY <1>16, NoFailure DEF RevertMark
  <2>2. recon.stage # "off" => recon.by # crit.by
    BY <2>1, NobodyTwice
  <2>3. crit'.stage = "recon" /\ crit'.by = crit.by
    BY <1>1, <2>1 DEF CritRecord
  <2> QED  BY <2>1, <2>2, <2>3, <1>6
<1>17. CASE RevertClear
  <2>1. CASE crit' = [crit EXCEPT !.stage = "persist"]
    <3>1. crit'.stage = "persist"
      BY <1>1, <2>1 DEF CritRecord
    <3> QED  BY <3>1, <1>5
  <2>2. CASE LeaveCrit(FALSE)
    <3>1. UNCHANGED <<recon, live, approved>> /\ crit'.stage = "off" /\ crit.stage = "clear"
      BY <1>17, <2>2 DEF RevertClear, LeaveCrit, CritOff, history
    <3> QED  BY <3>1 DEF RestoredInv, Accepted
  <2> QED  BY <1>17, <2>1, <2>2 DEF RevertClear
<1>18. CASE CritPersist
  <2>1. LeaveCrit(TRUE) /\ pending' = pending /\ pending = NoPending
    BY <1>18 DEF CritPersist, PersistInv
  <2> QED  BY <2>1, <1>13 DEF RevertBegun
<1>19. ASSUME NEW p \in Procs, ReconLoad(p) PROVE RestoredInv'
  <2>1. /\ recon' = [by |-> p, stage |-> "apply", loaded |-> db, outcome |-> "ok"]
        /\ UNCHANGED <<live, crit, req, approved, pending>>
    BY <1>19 DEF ReconLoad, stores, history
  <2>2. recon'.loaded = db /\ (RevertBegun' <=> RevertBegun)
    BY <2>1 DEF RevertBegun
  <2> QED  BY <2>1, <2>2, <1>2, <1>3 DEF RestoredInv, Accepted, Running
<1>20. CASE ReconApply
  <2>1. /\ live' = recon.loaded /\ recon' = [recon EXCEPT !.stage = "persist"]
        /\ recon.stage = "apply" /\ UNCHANGED <<crit, req, approved, pending>>
    BY <1>20, NoFailure DEF ReconApply, history
  <2>2. recon'.loaded = recon.loaded /\ recon'.by = recon.by /\ (RevertBegun' <=> RevertBegun)
    BY <1>1, <2>1 DEF ReconRecord, RevertBegun
  <2> QED  BY <2>1, <2>2 DEF RestoredInv, Accepted, Running
<1>21. CASE ReconPersist
  <2>1. /\ recon.stage = "persist" /\ recon'.stage = "off" /\ UNCHANGED <<live, approved, pending>>
        /\ ReconReturns(recon.by, TRUE) /\ live = recon.loaded
    BY <1>21 DEF ReconPersist, SuccessInv, ReconOff, history
  <2>2. CASE recon.by = crit.by /\ crit.stage = "recon"
    <3>1. crit' = [crit EXCEPT !.stage = "clear"]
      BY <2>1, <2>2 DEF ReconReturns
    <3>2. crit'.stage = "clear"
      BY <1>1, <3>1 DEF CritRecord
    <3> QED  BY <2>1, <2>2, <3>2 DEF RestoredInv, Running, Accepted
  <2>3. CASE ~ (recon.by = crit.by /\ crit.stage = "recon")
    <3>1. crit' = crit /\ (RevertBegun' <=> RevertBegun)
      BY <2>1, <2>3 DEF ReconReturns, RevertBegun
    <3> QED  BY <2>1, <3>1 DEF RestoredInv, Running, Accepted
  <2> QED  BY <2>2, <2>3
<1>22. CASE WatchdogCheck
  <2>1. EnterRevert(Watchdog) /\ recon' = recon /\ (recon.stage # "off" => recon.by # Watchdog)
    BY <1>22, NobodyTwice DEF WatchdogCheck
  <2> QED  BY <2>1, <1>8
<1>23. CASE BootCheck
  <2>1. /\ UNCHANGED <<recon, live, approved, pending, req>> /\ boot.pc = "base"
        /\ crit' = crit \/ EnterRevert(Boot)
    BY <1>23 DEF BootCheck, stores, history
  <2>2. recon.stage # "off" => recon.by # Boot
    BY <2>1, NobodyTwice
  <2> QED  BY <2>1, <2>2, <1>4, <1>8 DEF RevertBegun
<1>24. CASE \E machine \in BOOLEAN : Restart(machine)
  BY <1>24 DEF Restart, CritOff, ReconOff, Idle, RestoredInv
<1>25. CASE Deadline \/ UNCHANGED vars
  <2>1. UNCHANGED <<recon, live, crit, approved, pending, req>>
    BY <1>25 DEF Deadline, stores, locks, history, vars
  <2> QED  BY <2>1, <1>4 DEF RevertBegun
<1> QED
  BY <1>9, <1>10, <1>11, <1>12, <1>14, <1>15, <1>16, <1>17, <1>18, <1>19, <1>20, <1>21, <1>22,
     <1>23, <1>24, <1>25
  DEF Next, ApplyStep, OperatorStep, RevertStep, ReconStep

LEMMA FileStep ==
    ASSUME NftTakes, Structure, SuccessInv, PersistInv, LoadedInv, RestoredInv, FileInv,
           approved \in everApproved, [Next]_vars
    PROVE  FileInv'
<1>1. everApproved \subseteq everApproved' /\ crit \in CritRecord /\ recon \in ReconRecord
  BY ApprovedStep DEF Structure, TypeOK
<1>2. ASSUME file' \in {file} \/ OnceAccepted(file'.rows),
             crit'.stage = "persist" => \/ crit.stage = "persist" /\ live' = live
                                        \/ OnceAccepted(live'.rows)
      PROVE  FileInv'
  BY <1>1, <1>2 DEF FileInv, OnceAccepted
<1>3. recon.stage = "persist" => live = recon.loaded
  BY DEF SuccessInv
<1>4. recon.stage # "off" /\ pending = NoPending => OnceAccepted(recon.loaded.rows)
  BY DEF LoadedInv
<1>5. CASE ReconPersist
  <2>1. /\ file' \in {file} \/ OnceAccepted(file'.rows)
        /\ ReconReturns(recon.by, recon.outcome = "ok") /\ live' = live
    BY <1>3, <1>4, <1>5 DEF ReconPersist, PersistBlocked
  <2>2. crit'.stage = "persist" => crit.stage = "persist"
    BY <1>1, <2>1 DEF ReconReturns, LeaveCrit, CritOff, CritRecord
  <2> QED  BY <2>1, <2>2, <1>2
<1>6. CASE CritPersist
  <2>1. file' = file \/ file' = live
    BY <1>6 DEF CritPersist
  <2>2. crit.stage = "persist" /\ crit'.stage = "off"
    BY <1>6 DEF CritPersist, LeaveCrit, CritOff
  <2> QED  BY <2>1, <2>2, <1>2 DEF FileInv
<1>7. CASE ReconApply
  <2>1. live' = recon.loaded /\ UNCHANGED <<file, crit>> /\ recon.stage = "apply"
    BY <1>7, NoFailure DEF ReconApply
  <2> QED  BY <2>1, <1>2, <1>4 DEF PersistInv
<1>8. CASE RevertClear
  <2>1. UNCHANGED <<file, live>> /\ Accepted(live.rows)
    BY <1>8 DEF RevertClear, RestoredInv
  <2> QED  BY <2>1, <1>2, AcceptedOnce
<1>9. ASSUME NEW r \in Requests, Finish(r) PROVE FileInv'
  <2>1. UNCHANGED <<file, live>> /\ crit.stage = "off" /\ (crit' = crit \/ RevertBegun)
    BY <1>9 DEF Finish
  <2>2. RevertBegun => Accepted(live.rows)
    BY <2>1, <1>9 DEF RestoredInv, Finish
  <2> QED  BY <2>1, <2>2, <1>2, AcceptedOnce
<1>10. ASSUME NEW r \in Requests, Confirm(r) PROVE FileInv'
  <2>1. /\ UNCHANGED <<file, live>> /\ (crit' = crit \/ Guarded(live) \in everApproved')
        /\ crit.stage = "off"
    BY <1>10 DEF Confirm
  <2> QED  BY <1>1, <2>1 DEF FileInv, OnceAccepted, Guarded
<1>11. ASSUME UNCHANGED <<file, live>>, crit'.stage = "persist" => crit.stage = "persist"
       PROVE  FileInv'
  BY <1>2, <1>11
<1>12. CASE \E machine \in BOOLEAN : Restart(machine)
  <2>1. file' = file /\ crit'.stage = "off"
    BY <1>12 DEF Restart, CritOff
  <2> QED  BY <2>1, <1>2
<1>13. CASE RevertRead \/ RevertReplace \/ RevertSettings \/ RevertMark
  <2>1. \A completed : LeaveCrit(completed) => crit'.stage = "off"
    BY DEF LeaveCrit, CritOff
  <2>2. UNCHANGED <<file, live>> /\ crit'.stage # "persist"
    BY <1>1, <1>13, <2>1 DEF RevertRead, RevertReplace, RevertSettings, RevertMark, CritRecord
  <2> QED  BY <2>2, <1>11
<1>14. ASSUME NEW r \in Requests,
              \/ \E m \in Mutations : Begin(r, m)
              \/ ArmOpens(r) \/ ArmRefused(r) \/ Write(r) \/ WriteFails(r) \/ Discard(r)
              \/ Mark(r) \/ Abort(r) \/ See(r) \/ RevertNow(r) \/ Leave(r)
       PROVE  FileInv'
  BY <1>11, <1>14 DEF Begin, ArmOpens, ArmRefused, Write, WriteFails, Discard, Mark, Abort,
     RevertPending, EnterRevert, See, RevertNow, Leave, stores, locks
<1>15. CASE (\E p \in Procs : ReconLoad(p)) \/ Deadline \/ WatchdogCheck \/ BootCheck \/ UNCHANGED vars
  BY <1>11, <1>15 DEF ReconLoad, Deadline, WatchdogCheck, BootCheck, EnterRevert, stores, locks, vars
<1> QED
  BY <1>5, <1>6, <1>7, <1>8, <1>9, <1>10, <1>12, <1>13, <1>14, <1>15
  DEF Next, ApplyStep, OperatorStep, RevertStep, ReconStep

-----------------------------------------------------------------------------
(* The theorem *)

LEMMA InitKernel == Init => KernelInv
<1> SUFFICES ASSUME Init PROVE KernelInv
  OBVIOUS
<1>1. IInv /\ SeatInv
  BY InitInv, InitSeats
<1>2. StepsInv
  BY DEF Init, StepsInv, SuccessInv, PersistInv, OwedInv, Enforcing, ReconOff, CritOff
<1>3. RowsInv
  BY DEF Init, RowsInv, LoadedInv, RestoredInv, FileInv, OnceAccepted, ReconOff, CritOff,
         RevertBegun, Guarded
<1> QED  BY <1>1, <1>2, <1>3 DEF KernelInv

LEMMA NextKernel ==
    ASSUME NftTakes, KernelInv, [Next]_vars
    PROVE  KernelInv'
<1>1. IInv /\ IInv' /\ Structure /\ Structure' /\ SeatInv /\ SeatInv'
  BY NextInv, NextSeats DEF KernelInv, IInv
<1>2. StepsInv'
  BY <1>1, SuccessStep, PersistStep, OwedStep, ApprovedStep DEF KernelInv, StepsInv
<1>3. ASSUME ~ escaped' PROVE RowsInv'
  <2>1. DataInv /\ RowsInv
    BY <1>3, EscapedStays DEF KernelInv, IInv
  <2> QED
    BY <1>1, <1>3, <2>1, LoadedStep, RestoredStep, FileStep DEF KernelInv, StepsInv, RowsInv
<1> QED  BY <1>1, <1>2, <1>3 DEF KernelInv

LEMMA KernelInvariance == ASSUME NftTakes PROVE Spec => []KernelInv
BY InitKernel, NextKernel, PTL DEF Spec

\* When nobody runs, nobody owes the kernel a reconciliation.
LEMMA QuietSettles == KernelInv => KernelSettles
<1> SUFFICES ASSUME KernelInv PROVE KernelSettles
  OBVIOUS
<1>1. ASSUME Quiet PROVE live = db
  <2>1. ~ Owed
    BY <1>1 DEF Quiet, Owed, RevertOwes, BootOwes, RequestOwes
  <2> QED  BY <1>1, <2>1 DEF KernelInv, StepsInv, OwedInv, Enforcing, Quiet
<1>2. LiveIsApproved
  BY <1>1, AcceptedOnce
  DEF LiveIsApproved, KernelInv, StepsInv, IInv, DataInv, OnceAccepted
<1>3. BootFileIsApproved
  BY DEF BootFileIsApproved, KernelInv, RowsInv, FileInv, OnceAccepted
<1> QED  BY <1>1, <1>2, <1>3 DEF KernelSettles, KernelFollowsDatabase

LEMMA ClosesRestored ==
    ASSUME KernelInv, [Next]_vars
    PROVE  ClosesOnlyWhenRestored
<1> SUFFICES ASSUME RevertBegun, ~ escaped, crit'.stage = "persist", crit.stage # "persist"
             PROVE  InputOf(live.rows) = InputOf(pending.snapshot.rows)
  BY DEF ClosesOnlyWhenRestored, RevertBegun
<1>1. crit \in CritRecord /\ Accepted(pending.snapshot.rows) /\ RestoredInv
  BY DEF KernelInv, RowsInv, IInv, Structure, TypeOK, DataInv, RevertBegun
<1>2. RevertClear \/ \E r \in Requests : Finish(r)
  <2>1. CASE RevertStep
    <3>1. \A completed : LeaveCrit(completed) => crit'.stage = "off"
      BY DEF LeaveCrit, CritOff
    <3>2. CASE RevertRead \/ RevertReplace \/ RevertSettings \/ RevertMark
      BY <1>1, <3>1, <3>2 DEF RevertRead, RevertReplace, RevertSettings, RevertMark, CritRecord
    <3>3. CASE CritPersist
      BY <3>1, <3>3 DEF CritPersist
    <3> QED  BY <2>1, <3>2, <3>3 DEF RevertStep
  <2>2. CASE ReconPersist
    BY <1>1, <2>2 DEF ReconPersist, ReconReturns, LeaveCrit, CritOff, CritRecord
  <2>3. CASE \E r \in Requests : ApplyStep(r) \/ OperatorStep(r) \/ \E m \in Mutations : Begin(r, m)
    BY <2>3 DEF Begin, ApplyStep, ArmOpens, ArmRefused, Write, WriteFails, Discard, Mark, Abort,
       RevertPending, EnterRevert, OperatorStep, See, Confirm, RevertNow, Leave, stores, locks,
       RevertBegun
  <2>4. CASE \/ \E p \in Procs : ReconLoad(p)
             \/ ReconApply \/ Deadline \/ WatchdogCheck \/ BootCheck
             \/ \E machine \in BOOLEAN : Restart(machine)
             \/ UNCHANGED vars
    BY <2>4 DEF ReconLoad, ReconApply, Deadline, WatchdogCheck, BootCheck, Restart, EnterRevert,
                CritOff, stores, locks, vars
  <2> QED  BY <2>1, <2>2, <2>3, <2>4 DEF Next, ReconStep
<1>3. Accepted(live.rows)
  BY <1>1, <1>2 DEF RevertClear, Finish, RestoredInv
<1> QED  BY <1>1, <1>3 DEF Accepted

\* As long as nft takes what it is given and a revert is marked, every step leaves
\* the kernel and the boot file with what was accepted, or with a window that owes
\* it to them, and a revert closes its window only on restored rows.
THEOREM KernelKept == ASSUME NftTakes PROVE Spec => KernelFollows
<1>1. KernelInv /\ [Next]_vars => ClosesOnlyWhenRestored
  BY ClosesRestored
<1> QED  BY <1>1, QuietSettles, KernelInvariance, PTL DEF Spec, KernelFollows

-----------------------------------------------------------------------------
(* Decisions *)

\* Replacing rows is a step of a revert that is not marked yet, and only a
\* settled window is replaced by another.
LEMMA DecisionsStep ==
    ASSUME IInv, [Next]_vars
    PROVE  OneWindowAtATime /\ RepairsSurvive
<1> USE DEF IInv, Structure
<1>1. CASE \E r \in Requests : ArmOpens(r)
  <2>1. db' = db /\ (pending # NoPending => RevertBegun)
    BY <1>1 DEF ArmOpens, WindowFree, RevertSettled, RevertBegun
  <2> QED  BY <2>1 DEF OneWindowAtATime, RepairsSurvive, RevertBegun
<1>2. CASE \E r \in Requests : Write(r)
  BY <1>2 DEF Write, OneWindowAtATime, RepairsSurvive
<1>3. CASE RevertReplace
  BY <1>3 DEF RevertReplace, CritInv, RevertBegun, OneWindowAtATime, RepairsSurvive
<1>4. CASE RevertSettings
  <2>1. db'.rows = db.rows /\ pending' = pending
    BY <1>4 DEF RevertSettings, TypeOK, State
  <2> QED  BY <2>1 DEF OneWindowAtATime, RepairsSurvive
<1>5. CASE RevertRead \/ RevertMark \/ \E r \in Requests : Mark(r)
  <2>1. /\ db' = db
        /\ \/ pending' = pending
           \/ pending' = [pending EXCEPT !.snapshot = MergedTarget]
           \/ pending' = [pending EXCEPT !.reverting = TRUE]
           \/ pending' = [pending EXCEPT !.applied = db.rows]
    BY <1>5 DEF RevertRead, RevertMark, Mark
  <2>2. pending \in Window => pending'.id = pending.id
    BY <2>1 DEF Window
  <2> QED  BY <2>1, <2>2 DEF OneWindowAtATime, RepairsSurvive, TypeOK
<1>6. CASE db' = db /\ (pending' = pending \/ pending' = NoPending)
  BY <1>6 DEF OneWindowAtATime, RepairsSurvive
<1> QED
  BY <1>1, <1>2, <1>3, <1>4, <1>5, <1>6
  DEF Next, vars, Begin, ApplyStep, ArmRefused, WriteFails, Discard, Finish, Abort, RevertPending,
      OperatorStep, See, Confirm, RevertNow, Leave, ReconLoad, ReconStep, ReconApply, ReconPersist,
      RevertStep, RevertClear, CritPersist, Deadline, WatchdogCheck, BootCheck, Restart, stores

\* An undecided window is not replaced, and a marked revert writes no rows.
THEOREM DecisionsKept == Spec => DecisionsStand
BY Invariance, DecisionsStep, PTL DEF Spec, DecisionsStand

-----------------------------------------------------------------------------
(* The refinement, while nothing escapes *)

\* What a window guards of any table is a configuration of the abstract change.
LEMMA InputIsConfiguration ==
    ASSUME NEW st \in State
    PROVE  InputOf(st.rows) \in [Rows -> InputValues \cup {Absent}]
BY DEF InputOf, TouchesInput

LEMMA InitRefines == Init => Trial!Init
BY DEF Init, Trial!Init, Guarded, InitState

\* Each action, by what it does to the database, the window and what was accepted.
LEMMA StepRefines ==
    ASSUME IInv, db' \in State, ~ escaped, ~ escaped', [Next]_vars
    PROVE  [Trial!Next]_(Trial!trial)
<1> USE DEF IInv, Structure
<1> DEFINE Step == [Trial!Next]_(Trial!trial)
<1>0. DataInv /\ crit.stage \in CritStages /\ (pending # NoPending => pending \in Window)
  BY DEF TypeOK, CritRecord
\* A window stays, or none is there; or one opens, or closes on the accepted rows.
<1>1. ASSUME InputOf(db'.rows) = InputOf(db.rows), approved' = approved,
             pending' # NoPending <=> pending # NoPending
      PROVE  Step
  BY <1>1 DEF Trial!trial
<1>2. ASSUME db' = db, approved' = approved, pending = NoPending, pending' # NoPending
      PROVE  Step
  BY <1>2 DEF Trial!Next, Trial!Open
<1>3. ASSUME db' = db, approved' = approved, pending # NoPending, pending' = NoPending,
             Accepted(db.rows)
      PROVE  Step
  BY <1>3 DEF Trial!Next, Trial!Close, Accepted
<1>4. ASSUME pending # NoPending, pending' = pending, approved' = approved
      PROVE  Step
  BY <1>4, InputIsConfiguration DEF Trial!Next, Trial!Change
<1>5. ASSUME UNCHANGED <<db, pending, approved>> PROVE Step
  BY <1>5, <1>1
<1>6. ASSUME NEW r \in Requests, ArmOpens(r) PROVE Step
  <2>1. db' = db /\ approved' = approved /\ pending' # NoPending
    <3>1. pending' = NewWindow(r) /\ req[r].number \in WindowIds
      BY <1>6 DEF ArmOpens, RequestInv, TypeOK, ReqRecord, WindowIds
    <3>2. pending' \in Window
      BY <3>1, StateIsSnapshot DEF NewWindow, Window, TypeOK
    <3> QED  BY <1>6, <3>2, ConfirmWindowAssumption DEF ArmOpens, history
  <2> QED  BY <2>1, <1>1, <1>2
<1>7. ASSUME NEW r \in Requests, ArmRefused(r) PROVE Step
  <2>1. /\ db' = db /\ approved' = approved
        /\ pending' = pending \/ (RevertBegun /\ pending' = NoPending)
    BY <1>7 DEF ArmRefused, RevertSettled, RevertBegun, history
  <2>2. RevertBegun => Accepted(db.rows) /\ pending # NoPending
    BY <1>0 DEF DataInv, RevertBegun
  <2> QED  BY <2>1, <2>2, <1>3, <1>5
<1>8. ASSUME NEW r \in Requests, Write(r) PROVE Step
  <2>1. pending' = pending /\ approved' = approved
    BY <1>8 DEF Write
  <2>2. CASE Guarded(db') = Guarded(db)
    BY <2>1, <2>2, <1>1 DEF Guarded
  <2>3. CASE Guarded(db') # Guarded(db)
    <3>1. pending # NoPending
      BY <1>8, <2>3 DEF Write, Covered, IsOpen
    <3> QED  BY <2>1, <3>1, <1>4
  <2> QED  BY <2>2, <2>3
<1>9. ASSUME NEW r \in Requests, Discard(r) PROVE Step
  <2>1. /\ UNCHANGED <<db, approved>> /\ req[r].pc = "discard"
        /\ pending' = pending \/ (Discardable(r) /\ pending' = NoPending)
    BY <1>9 DEF Discard, history
  <2>2. Discardable(r) => Accepted(db.rows) /\ pending # NoPending
    BY <2>1, <1>0 DEF DataInv, Discardable, IsOpen
  <2> QED  BY <2>1, <2>2, <1>3, <1>5
<1>10. ASSUME (\E r \in Requests : Finish(r)) \/ RevertClear PROVE Step
  <2>1. /\ UNCHANGED <<db, approved>>
        /\ pending' = pending \/ (RevertBegun /\ pending' = NoPending)
    BY <1>10 DEF Finish, RevertClear, CritInv, history
  <2>2. RevertBegun => Accepted(db.rows) /\ pending # NoPending
    BY <1>0 DEF DataInv, RevertBegun
  <2> QED  BY <2>1, <2>2, <1>3, <1>5
<1>11. ASSUME NEW r \in Requests, Confirm(r) PROVE Step
  <2>1. CASE pending' = pending
    BY <1>11, <2>1, <1>0, <1>5 DEF Confirm, IsOpen
  <2>2. CASE pending' # pending
    <3>1. /\ db' = db /\ approved' = Guarded(db)
          /\ pending # NoPending /\ pending' = NoPending
      BY <1>11, <2>2 DEF Confirm, IsOpen
    <3>2. approved'.rows = InputOf(db.rows)
      BY <3>1 DEF Guarded
    <3> QED  BY <3>1, <3>2 DEF Trial!Next, Trial!Accept
  <2> QED  BY <2>1, <2>2
<1>12. ASSUME RevertRead \/ RevertMark \/ \E r \in Requests : Mark(r) PROVE Step
  <2>1. /\ UNCHANGED <<db, approved>>
        /\ \/ pending' = pending
           \/ pending # NoPending /\ pending' \in Window
    <3>1. CASE RevertRead \/ RevertMark
      <4>1. pending \in Window
        BY <3>1, <1>0 DEF RevertRead, RevertMark, CritInv
      <4>2. MergedTarget \in Snapshot
        BY <4>1, MergeIsTable DEF MergedTarget, Snapshot, AppliedOrSnapshot, Window, TypeOK, State
      <4>3. pending # NoPending
        BY <4>1, ConfirmWindowAssumption
      <4> QED  BY <3>1, <4>1, <4>2, <4>3 DEF RevertRead, RevertMark, history, Window
    <3>2. CASE \E r \in Requests : Mark(r)
      BY <3>2, <1>0 DEF Mark, IsOpen, history, Window, TypeOK, State
    <3> QED  BY <1>12, <3>1, <3>2
  <2>2. pending' # NoPending <=> pending # NoPending
    BY <2>1, ConfirmWindowAssumption
  <2> QED  BY <2>1, <2>2, <1>1
<1>13. ASSUME RevertReplace \/ RevertSettings PROVE Step
  <2>1. pending' = pending /\ approved' = approved /\ pending # NoPending
    BY <1>13 DEF RevertReplace, RevertSettings, CritInv, history
  <2> QED  BY <2>1, <1>4
<1> QED
  BY <1>5, <1>6, <1>7, <1>8, <1>9, <1>10, <1>11, <1>12, <1>13
  DEF Next, vars, Begin, ApplyStep, WriteFails, Abort, RevertPending, OperatorStep, See, RevertNow,
      Leave, ReconLoad, ReconStep, ReconApply, ReconPersist, RevertStep, CritPersist, Deadline,
      WatchdogCheck, BootCheck, Restart, stores, history

\* Rows that reach the input chain change only inside a window, which closes on
\* what somebody accepted, in every behaviour in which no input change is
\* written outside its window (ApplyGuarded, ConfirmPending, revert, DiscardWindow).
THEOREM ImplementsWhileCovered == Spec /\ [] ~ escaped => ImplementsTrialChange
<1>1. IInv /\ IInv' /\ ~ escaped /\ ~ escaped' /\ [Next]_vars => [Trial!Next]_(Trial!trial)
  <2>1. IInv' => db' \in State
    BY DEF IInv, Structure, TypeOK
  <2> QED  BY <2>1, StepRefines
<1> QED  BY <1>1, Invariance, InitRefines, PTL DEF Spec, ImplementsTrialChange, Trial!Spec

-----------------------------------------------------------------------------
(* The refinement, with the arming gap closed *)

\* What a row may hold: what it began with and what requests ask for it.
Contents(r) == {InitRows[r]} \cup {m[2] : m \in {n \in Mutations : n[1] = r}}

OnInput(r) == Contents(r) \subseteq InputValues \cup {Absent}

OffInput(r) == Contents(r) \cap InputValues = {}

\* No group or rule moves between the input chain and the others.
ScopesAreFixed == \A r \in Rows : OnInput(r) \/ OffInput(r)

Fits(rows) == \A r \in Rows : rows[r] \in Contents(r)

ScopeInv ==
    /\ Fits(db.rows)
    /\ pending # NoPending => Fits(pending.snapshot.rows)
    /\ Fits(crit.target.rows)

\* A request that arms a window keeps its number until it returns.
Numbered == Applying \cup {"mark", "recon", "finish", "abort"}

OwnWindowInv ==
    /\ \A r \in Requests : req[r].pc \in Numbered => req[r].wid \in {NoWindow, req[r].number}
    /\ \A q, r \in Requests : q # r /\ req[q].pc \in Numbered /\ req[r].pc \in Numbered
                                => req[q].number # req[r].number

\* A request with a window finds it open, and nobody reverting it, when it writes;
\* one without changes nothing that a window guards.
WriteInv ==
    \A r \in Requests : req[r].pc = "write" =>
        IF req[r].wid # NoWindow
        THEN IsOpen(req[r].wid) /\ ~ pending.reverting /\ ~ expired /\ crit.stage = "off"
        ELSE req[r].mutation[1] \in Rows /\ ~ OnInput(req[r].mutation[1])

PromptInv == IInv /\ SeatInv /\ ScopeInv /\ OwnWindowInv /\ WriteInv /\ ~ escaped

LEMMA MergeFits ==
    ASSUME NEW base \in RowState, NEW applied, NEW current \in RowState, Fits(base), Fits(current)
    PROVE  Fits(MergeRows(base, applied, current))
BY DEF Fits, MergeRows

LEMMA ScopeStep ==
    ASSUME IInv, ScopeInv, [Next]_vars
    PROVE  ScopeInv'
<1> USE DEF IInv, Structure
<1>1. /\ crit \in CritRecord /\ (pending # NoPending => pending \in Window)
      /\ db \in State /\ Fits(db.rows) /\ Fits(crit.target.rows)
      /\ pending # NoPending => Fits(pending.snapshot.rows)
  BY DEF TypeOK, ScopeInv
<1>2. Fits(NoTarget.rows)
  BY DEF Fits, Contents, NoTarget
\* The rows of the database, of the snapshot and of the target come from one another.
<1>3. ASSUME \/ db'.rows = db.rows
             \/ db'.rows = crit.target.rows,
             \/ crit'.target = crit.target
             \/ crit'.target = NoTarget,
             \/ pending' = NoPending
             \/ pending # NoPending /\ pending'.snapshot = pending.snapshot
             \/ pending'.snapshot = db
      PROVE  ScopeInv'
  BY <1>1, <1>2, <1>3 DEF ScopeInv
<1>4. ASSUME db' = db, pending' = pending, crit'.target \in {crit.target, NoTarget}
      PROVE  ScopeInv'
  BY <1>3, <1>4
<1>5. ASSUME NEW completed, LeaveCrit(completed) PROVE crit'.target = NoTarget
  BY <1>5 DEF LeaveCrit, CritOff
<1>6. ASSUME NEW r \in Requests, Write(r) PROVE ScopeInv'
  <2>1. req[r].mutation \in Mutations /\ UNCHANGED <<pending, crit>> /\ db' = Written(r)
    BY <1>6 DEF Write, RequestInv, locks
  <2>2. Fits(db'.rows)
    <3>1. CASE req[r].mutation[1] \in Rows
      <4>1. db'.rows = [db.rows EXCEPT ![req[r].mutation[1]] = req[r].mutation[2]]
        BY <1>1, <2>1, <3>1 DEF Written, State
      <4>2. req[r].mutation[2] \in Contents(req[r].mutation[1])
        BY <2>1 DEF Contents
      <4> QED  BY <1>1, <4>1, <4>2 DEF Fits, State, RowState
    <3>2. CASE req[r].mutation[1] \notin Rows
      BY <1>1, <2>1, <3>2 DEF Written, State
    <3> QED  BY <3>1, <3>2
  <2> QED  BY <1>1, <2>1, <2>2 DEF ScopeInv
<1>7. CASE RevertRead
  <2>1. pending \in Window /\ pending # NoPending /\ db' = db
    BY <1>1, <1>7 DEF RevertRead, CritInv
  <2>2. CASE pending' = pending /\ crit' = [crit EXCEPT !.stage = "replace", !.target = pending.snapshot]
    <3>1. crit'.target = pending.snapshot
      BY <1>1, <2>2 DEF CritRecord
    <3> QED  BY <1>1, <2>1, <2>2, <3>1 DEF ScopeInv
  <2>3. CASE /\ pending' = [pending EXCEPT !.snapshot = MergedTarget]
             /\ crit' = [crit EXCEPT !.stage = "replace", !.target = MergedTarget]
    <3>1. pending.snapshot.rows \in RowState /\ db.rows \in RowState
      BY <1>1, <2>1 DEF Window, Snapshot, State
    <3>2. Fits(MergedTarget.rows)
      BY <1>1, <2>1, <3>1, MergeFits DEF MergedTarget
    <3>3. pending'.snapshot = MergedTarget /\ crit'.target = MergedTarget
      BY <1>1, <2>1, <2>3 DEF Window, CritRecord
    <3> QED  BY <1>1, <2>1, <3>2, <3>3 DEF ScopeInv
  <2>4. CASE LeaveCrit(FALSE) /\ pending' = pending
    BY <2>1, <2>4, <1>4, <1>5
  <2> QED  BY <1>7, <2>2, <2>3, <2>4 DEF RevertRead
<1>8. CASE RevertReplace \/ RevertSettings
  <2>1. /\ pending' = pending
        /\ db'.rows = db.rows \/ db'.rows = crit.target.rows
        /\ crit'.target = crit.target \/ crit'.target = NoTarget
    <3>1. CASE RevertReplace
      BY <1>1, <1>5, <3>1 DEF RevertReplace, State, CritRecord
    <3>2. CASE RevertSettings
      BY <1>1, <3>2 DEF RevertSettings, State, CritRecord
    <3> QED  BY <1>8, <3>1, <3>2
  <2> QED  BY <2>1, <1>3
<1>9. CASE RevertMark \/ RevertClear \/ CritPersist
  <2>1. /\ db' = db
        /\ crit'.target = crit.target \/ crit'.target = NoTarget
        /\ \/ pending' = pending
           \/ pending' = NoPending
           \/ pending # NoPending /\ pending' = [pending EXCEPT !.reverting = TRUE]
    BY <1>1, <1>5, <1>9 DEF RevertMark, RevertClear, CritPersist, CritInv, CritRecord
  <2>2. pending # NoPending /\ pending' = [pending EXCEPT !.reverting = TRUE]
          => pending'.snapshot = pending.snapshot
    BY <1>1 DEF Window
  <2> QED  BY <2>1, <2>2, <1>3, <1>4
<1>10. ASSUME NEW r \in Requests, ArmOpens(r) PROVE ScopeInv'
  <2>1. db' = db /\ crit' = crit /\ pending'.snapshot = db
    BY <1>10 DEF ArmOpens, NewWindow, locks
  <2> QED  BY <2>1, <1>3
<1>11. ASSUME NEW r \in Requests, Mark(r) PROVE ScopeInv'
  <2>1. /\ db' = db /\ crit' = crit
        /\ \/ pending' = pending
           \/ pending # NoPending /\ pending' = [pending EXCEPT !.applied = db.rows]
    BY <1>11 DEF Mark, IsOpen, locks
  <2>2. pending # NoPending /\ pending' = [pending EXCEPT !.applied = db.rows]
          => pending'.snapshot = pending.snapshot
    BY <1>1 DEF Window
  <2> QED  BY <2>1, <2>2, <1>3, <1>4
<1>12. ASSUME NEW r \in Requests,
              ArmRefused(r) \/ Discard(r) \/ Finish(r) \/ Confirm(r)
       PROVE  ScopeInv'
  <2>1. /\ db' = db /\ (pending' = pending \/ pending' = NoPending)
        /\ crit' = crit \/ crit'.target = NoTarget
    BY <1>12 DEF ArmRefused, Discard, Finish, Confirm, locks
  <2> QED  BY <2>1, <1>3, <1>4
<1>13. ASSUME NEW r \in Requests,
              \/ \E m \in Mutations : Begin(r, m)
              \/ WriteFails(r) \/ Abort(r) \/ See(r) \/ RevertNow(r) \/ Leave(r)
       PROVE  ScopeInv'
  <2>1. db' = db /\ pending' = pending /\ crit'.target \in {crit.target, NoTarget}
    BY <1>13 DEF Begin, WriteFails, Abort, See, RevertNow, Leave, RevertPending, EnterRevert,
                 stores, locks
  <2> QED  BY <2>1, <1>4
<1>14. CASE ReconPersist
  <2>1. db' = db /\ pending' = pending /\ ReconReturns(recon.by, recon.outcome = "ok")
    BY <1>14 DEF ReconPersist
  <2>2. crit'.target \in {crit.target, NoTarget}
    BY <1>1, <1>5, <2>1 DEF ReconReturns, CritRecord
  <2> QED  BY <2>1, <2>2, <1>4
<1>15. CASE \/ \E p \in Procs : ReconLoad(p)
            \/ ReconApply \/ Deadline \/ WatchdogCheck \/ BootCheck
            \/ \E machine \in BOOLEAN : Restart(machine)
            \/ UNCHANGED vars
  <2>1. db' = db /\ pending' = pending /\ crit'.target \in {crit.target, NoTarget}
    BY <1>15 DEF ReconLoad, ReconApply, Deadline, WatchdogCheck, BootCheck, Restart, EnterRevert,
                 CritOff, stores, locks, vars
  <2> QED  BY <2>1, <1>4
<1> QED
  BY <1>6, <1>7, <1>8, <1>9, <1>10, <1>11, <1>12, <1>13, <1>14, <1>15
  DEF Next, ApplyStep, OperatorStep, RevertStep, ReconStep

\* A request goes from one step to the next with its number and its window.
LEMMA OwnWindowStep ==
    ASSUME IInv, SeatInv, OwnWindowInv, [Next]_vars
    PROVE  OwnWindowInv'
<1> USE DEF IInv, Structure
<1> DEFINE Keeps(q) == \/ req'[q].pc \notin Numbered
                       \/ /\ req[q].pc \in Numbered /\ req'[q].number = req[q].number
                          /\ req'[q].wid \in {req[q].wid, req[q].number}
<1>1. ASSUME \A q \in Requests : Keeps(q) PROVE OwnWindowInv'
  BY <1>1 DEF OwnWindowInv
<1>2. /\ req \in [Requests -> ReqRecord] /\ Boot \notin Requests
      /\ Idle.pc \notin Numbered
  BY ConfirmWindowAssumption DEF TypeOK, Idle, Numbered, Applying
<1>3. ASSUME NEW r \in Requests, req[r].pc \in Numbered, NEW pc, req' = [req EXCEPT ![r].pc = pc]
      PROVE  OwnWindowInv'
  <2>1. \A q \in Requests : Keeps(q)
    BY <1>2, <1>3 DEF ReqRecord
  <2> QED  BY <2>1, <1>1
<1>4. ASSUME NEW r \in Requests, req' = [req EXCEPT ![r] = Idle] PROVE OwnWindowInv'
  <2>1. \A q \in Requests : Keeps(q)
    BY <1>2, <1>4
  <2> QED  BY <2>1, <1>1
<1>5. ASSUME req' = req PROVE OwnWindowInv'
  BY <1>1, <1>5
<1>6. ASSUME NEW completed, LeaveCrit(completed) PROVE OwnWindowInv'
  <2>1. \A q \in Requests : Keeps(q)
    BY <1>2, <1>6 DEF LeaveCrit
  <2> QED  BY <2>1, <1>1
<1>7. ASSUME NEW r \in Requests, NEW m \in Mutations, Begin(r, m) PROVE OwnWindowInv'
  <2>1. /\ req'[r].number = begun + 1 /\ req'[r].wid = NoWindow
        /\ \A q \in Requests \ {r} : req'[q] = req[q]
    BY <1>2, <1>7 DEF Begin
  <2>2. \A q \in Requests : req[q].number <= begun /\ req[q].number \in Nat /\ begun \in Nat
    BY <1>2, ConfirmWindowAssumption DEF RequestInv, ReqRecord, TypeOK
  <2> QED  BY <2>1, <2>2 DEF OwnWindowInv
<1>8. ASSUME NEW r \in Requests, ArmOpens(r) PROVE OwnWindowInv'
  <2>1. \A q \in Requests : Keeps(q)
    BY <1>2, <1>8 DEF ArmOpens, ReqRecord, Numbered, Applying
  <2> QED  BY <2>1, <1>1
<1>9. ASSUME NEW r \in Requests, WriteFails(r) PROVE OwnWindowInv'
  <2>1. \/ req' = [req EXCEPT ![r] = Idle]
        \/ req' = [req EXCEPT ![r].pc = "discard"]
    BY <1>9 DEF WriteFails
  <2> QED  BY <1>3, <1>4, <1>9, <2>1 DEF WriteFails, Numbered, Applying
<1>10. ASSUME NEW r \in Requests, Write(r) \/ Mark(r) PROVE OwnWindowInv'
  <2>1. req[r].pc \in Numbered /\ \E pc \in {"recon", "mark"} : req' = [req EXCEPT ![r].pc = pc]
    BY <1>10 DEF Write, Mark, Numbered, Applying
  <2> QED  BY <1>3, <2>1
<1>11. ASSUME NEW r \in Requests,
              Finish(r) \/ Abort(r) \/ Confirm(r) \/ RevertNow(r)
       PROVE  OwnWindowInv'
  <2>1. req' = [req EXCEPT ![r] = Idle] \/ req' = [req EXCEPT ![r].pc = "busy"]
    BY <1>11, Zenon DEF Finish, Abort, Confirm, RevertNow, RevertPending
  <2>2. ASSUME req' = [req EXCEPT ![r].pc = "busy"] PROVE \A q \in Requests : Keeps(q)
    BY <1>2, <2>2 DEF Numbered, Applying, ReqRecord
  <2> QED  BY <1>1, <1>4, <2>1, <2>2
<1>12. ASSUME NEW r \in Requests, ArmRefused(r) \/ Discard(r) \/ Leave(r) PROVE OwnWindowInv'
  BY <1>4, <1>12 DEF ArmRefused, Discard, Leave
<1>13. ASSUME NEW r \in Requests, See(r) PROVE OwnWindowInv'
  <2>1. \A q \in Requests : Keeps(q)
    BY <1>2, <1>13 DEF See, Numbered, Applying, ReqRecord
  <2> QED  BY <2>1, <1>1
<1>14. CASE ReconPersist
  <2>1. ReconReturns(recon.by, recon.outcome = "ok") /\ WantsRecon(recon.by)
    BY <1>14 DEF ReconPersist, SeatInv, WaiterInv
  <2>2. CASE \E completed : LeaveCrit(completed)
    BY <2>2, <1>6
  <2>3. CASE req' = req
    BY <2>3, <1>5
  <2>4. CASE /\ ~ (recon.by = crit.by /\ crit.stage = "recon") /\ recon.by # Boot
             /\ req' = [req EXCEPT ![recon.by] =
                 IF recon.outcome = "ok"
                   THEN IF @.wid = NoWindow THEN [@ EXCEPT !.pc = "finish"] ELSE Idle
                   ELSE IF @.wid = NoWindow THEN Idle ELSE [@ EXCEPT !.pc = "abort"]]
    <3>1. recon.by \in Requests /\ req[recon.by].pc \in Numbered
      BY <2>1, <2>4 DEF WantsRecon, Numbered
    <3>2. \/ req' = [req EXCEPT ![recon.by].pc = "finish"]
          \/ req' = [req EXCEPT ![recon.by].pc = "abort"]
          \/ req' = [req EXCEPT ![recon.by] = Idle]
      BY <2>4, <3>1
    <3> QED  BY <3>1, <3>2, <1>3, <1>4
  <2> QED  BY <2>1, <2>2, <2>3, <2>4 DEF ReconReturns
<1>15. CASE RevertStep
  <2>1. req' = req \/ \E completed : LeaveCrit(completed)
    BY <1>15 DEF RevertStep, RevertRead, RevertReplace, RevertSettings, RevertMark,
                 RevertClear, CritPersist
  <2> QED  BY <2>1, <1>5, <1>6
<1>16. CASE \/ \E p \in Procs : ReconLoad(p)
            \/ ReconApply \/ Deadline \/ WatchdogCheck \/ BootCheck
            \/ UNCHANGED vars
  BY <1>5, <1>16 DEF ReconLoad, ReconApply, Deadline, WatchdogCheck, BootCheck, vars
<1>17. CASE \E machine \in BOOLEAN : Restart(machine)
  <2>1. \A q \in Requests : Keeps(q)
    BY <1>2, <1>17 DEF Restart
  <2> QED  BY <2>1, <1>1
<1> QED
  BY <1>7, <1>8, <1>9, <1>10, <1>11, <1>12, <1>13, <1>14, <1>15, <1>16, <1>17
  DEF Next, ApplyStep, OperatorStep, ReconStep

\* A write inside its window, or of a row no window guards, escapes nothing.
LEMMA WritesStayCovered ==
    ASSUME PromptInv, ScopesAreFixed, [Next]_vars
    PROVE  ~ escaped'
<1> USE DEF PromptInv, IInv, Structure
<1>1. CASE \E r \in Requests : Write(r)
  <2>1. PICK r \in Requests : Write(r)
    BY <1>1
  <2>2. CASE req[r].wid # NoWindow
    BY <2>1, <2>2 DEF WriteInv, Write, Covered
  <2>3. CASE req[r].wid = NoWindow
    <3> DEFINE m == req[r].mutation
    <3>1. m \in Mutations /\ m[1] \in Rows /\ OffInput(m[1]) /\ db' = Written(r)
      BY <2>1, <2>3 DEF Write, WriteInv, RequestInv, ScopesAreFixed
    <3>2. m[2] \notin InputValues /\ db.rows[m[1]] \notin InputValues
      <4>1. m[2] \in Contents(m[1]) /\ db.rows[m[1]] \in Contents(m[1])
        BY <3>1 DEF Contents, ScopeInv, Fits
      <4> QED  BY <3>1, <4>1 DEF OffInput
    <3>3. db'.rows = [db.rows EXCEPT ![m[1]] = m[2]] /\ db'.settings = db.settings
      BY <3>1 DEF Written, TypeOK, State
    <3>4. InputOf(db'.rows) = InputOf(db.rows)
      BY <3>2, <3>3 DEF InputOf, TouchesInput, TypeOK, State, RowState
    <3> QED  BY <2>1, <3>3, <3>4 DEF Write, Guarded
  <2> QED  BY <2>2, <2>3
<1>2. CASE ~ \E r \in Requests : Write(r)
  BY <1>2 DEF Next, vars, Begin, ApplyStep, ArmOpens, ArmRefused, WriteFails, Discard, Mark,
       Finish, Abort, RevertPending, OperatorStep, See, Confirm, RevertNow, Leave, ReconLoad,
       ReconStep, ReconApply, ReconPersist, RevertStep, RevertRead, RevertReplace,
       RevertSettings, RevertMark, RevertClear, CritPersist, Deadline, WatchdogCheck,
       BootCheck, Restart, history
<1> QED  BY <1>1, <1>2

\* A request between arming and writing keeps its window: nobody decides it, and
\* nobody else's discard, abort or settled revert is about it.
LEMMA WriteStep ==
    ASSUME PromptInv, ScopesAreFixed, PromptWrites, [Next]_vars
    PROVE  WriteInv'
<1> USE DEF PromptInv, IInv, Structure
<1> DEFINE Waits(q) == req[q].pc = "write" /\ req[q].wid # NoWindow
           Stays(q) == req'[q].pc # "write" \/ req'[q] = req[q]
<1>1. /\ req \in [Requests -> ReqRecord] /\ (pending # NoPending => pending \in Window)
      /\ Idle.pc = "idle" /\ crit \in CritRecord
  BY DEF TypeOK, Idle
<1>2. ASSUME NEW q \in Requests, Waits(q)
      PROVE  /\ pending # NoPending /\ pending.id = req[q].wid /\ ~ pending.reverting /\ ~ expired
             /\ crit.stage = "off" /\ ~ Undisturbed
  BY <1>2 DEF WriteInv, IsOpen, Undisturbed
\* Nothing about the window changes, or no request has armed one and not written.
<1>3. ASSUME \A q \in Requests : Stays(q),
             \/ UNCHANGED <<pending, expired, crit>>
             \/ \A q \in Requests : ~ Waits(q)
      PROVE  WriteInv'
  BY <1>1, <1>3 DEF WriteInv, IsOpen
<1>4. ASSUME NEW r \in Requests, req' = [req EXCEPT ![r] = Idle] PROVE \A q \in Requests : Stays(q)
  BY <1>1, <1>4
<1>5. ASSUME NEW r \in Requests, NEW pc, pc # "write", req' = [req EXCEPT ![r].pc = pc]
      PROVE  \A q \in Requests : Stays(q)
  BY <1>1, <1>5 DEF ReqRecord
<1>6. ASSUME NEW completed, LeaveCrit(completed) PROVE \A q \in Requests : Stays(q)
  BY <1>1, <1>6 DEF LeaveCrit
\* The window of a request that is past its write is not the one a request waits with.
<1>7. ASSUME NEW q \in Requests, Waits(q), NEW r \in Requests, r # q, req[r].pc \in Numbered
      PROVE  ~ IsOpen(req[r].wid)
  <2>1. req[r].wid \in {NoWindow, req[r].number} /\ req[q].wid = req[q].number
    BY <1>7 DEF OwnWindowInv, Numbered, Applying
  <2>2. req[q].number # req[r].number
    BY <1>7 DEF OwnWindowInv, Numbered, Applying
  <2> QED  BY <1>2, <1>7, <2>1, <2>2 DEF IsOpen
<1>8. ASSUME NEW r \in Requests, NEW m \in Mutations, Begin(r, m) PROVE WriteInv'
  <2>1. /\ UNCHANGED <<pending, expired, crit>>
        /\ \A q \in Requests \ {r} : req'[q] = req[q]
        /\ req'[r].wid = NoWindow /\ req'[r].mutation = m
        /\ req'[r].pc = "write" => ~ NeedsWindow(m[1], Existing(m[1]), m[2])
        /\ Existing(m[1]) # m[2]
    BY <1>1, <1>8 DEF Begin, stores, locks
  <2>2. ASSUME ~ NeedsWindow(m[1], Existing(m[1]), m[2]) PROVE m[1] \in Rows /\ ~ OnInput(m[1])
    <3>1. m[1] \in Rows /\ db.rows[m[1]] \notin InputValues /\ m[2] \notin InputValues
      BY <2>2 DEF NeedsWindow, TouchesInput, Existing
    <3>2. db.rows[m[1]] \in Contents(m[1]) /\ m[2] \in Contents(m[1]) /\ db.rows[m[1]] # m[2]
      BY <2>1, <3>1 DEF ScopeInv, Fits, Contents, Existing
    <3> QED  BY <3>1, <3>2 DEF OnInput
  <2> QED  BY <2>1, <2>2 DEF WriteInv, IsOpen
<1>9. ASSUME NEW r \in Requests, ArmOpens(r) PROVE WriteInv'
  <2>1. \A q \in Requests : ~ Waits(q)
    BY <1>2, <1>9 DEF ArmOpens, WindowFree, RevertSettled
  <2>2. /\ pending' = NewWindow(r) /\ ~ expired' /\ crit'.stage = "off"
        /\ req[r].pc = "arm" /\ req'[r].wid = req[r].number
        /\ \A q \in Requests \ {r} : req'[q] = req[q]
    BY <1>1, <1>9 DEF ArmOpens, locks, ReqRecord
  <2>3. pending' # NoPending /\ pending'.id = req[r].number /\ ~ pending'.reverting
        /\ req'[r].wid # NoWindow
    <3>1. req[r].number \in WindowIds
      BY <1>1, <2>2 DEF RequestInv, TypeOK, ReqRecord, WindowIds
    <3>2. NewWindow(r) \in Window
      BY <3>1, StateIsSnapshot DEF NewWindow, Window, TypeOK
    <3>3. pending' \in Window /\ pending' # NoPending
      BY <2>2, <3>2, ConfirmWindowAssumption
    <3>4. NoWindow \notin WindowIds
      BY DEF WindowIds, NoWindow
    <3> QED  BY <2>2, <3>1, <3>3, <3>4 DEF NewWindow
  <2> QED  BY <2>1, <2>2, <2>3 DEF WriteInv, IsOpen
<1>10. ASSUME NEW r \in Requests, ArmRefused(r) PROVE WriteInv'
  <2>1. \A q \in Requests : Stays(q)
    BY <1>4, <1>10 DEF ArmRefused
  <2>2. /\ UNCHANGED <<expired, crit>>
        /\ pending' = pending \/ RevertBegun
    BY <1>10 DEF ArmRefused, RevertSettled, RevertBegun, locks
  <2>3. RevertBegun => \A q \in Requests : ~ Waits(q)
    BY <1>2 DEF RevertBegun
  <2> QED  BY <1>3, <2>1, <2>2, <2>3
<1>11. ASSUME NEW r \in Requests, Write(r) PROVE WriteInv'
  <2>1. UNCHANGED <<pending, expired, crit>> /\ \E pc \in {"recon", "mark"} : req' = [req EXCEPT ![r].pc = pc]
    BY <1>11 DEF Write, locks
  <2> QED  BY <1>3, <1>5, <2>1
<1>12. ASSUME NEW r \in Requests, WriteFails(r) PROVE WriteInv'
  <2>1. /\ UNCHANGED <<pending, expired, crit>>
        /\ req' = [req EXCEPT ![r] = Idle] \/ req' = [req EXCEPT ![r].pc = "discard"]
    BY <1>12 DEF WriteFails, stores, locks
  <2> QED  BY <1>3, <1>4, <1>5, <2>1
<1>13. ASSUME NEW r \in Requests, Discard(r) PROVE WriteInv'
  <2>1. \A q \in Requests : Stays(q)
    BY <1>4, <1>13 DEF Discard
  <2>2. /\ UNCHANGED <<expired, crit>> /\ req[r].pc = "discard"
        /\ pending' = pending \/ IsOpen(req[r].wid)
    BY <1>13 DEF Discard, Discardable, locks
  <2>3. IsOpen(req[r].wid) => \A q \in Requests : ~ Waits(q)
    BY <1>7, <2>2 DEF Numbered, Applying
  <2> QED  BY <1>3, <2>1, <2>2, <2>3
<1>14. ASSUME NEW r \in Requests, Mark(r) PROVE WriteInv'
  <2>1. /\ UNCHANGED <<expired, crit>> /\ req' = [req EXCEPT ![r].pc = "recon"]
        /\ pending' = pending \/ (pending # NoPending /\ pending' = [pending EXCEPT !.applied = db.rows])
    BY <1>14 DEF Mark, locks, IsOpen
  <2>2. \A q \in Requests : Stays(q)
    BY <2>1, <1>5
  <2>3. CASE pending' = pending
    BY <1>3, <2>1, <2>2, <2>3
  <2>4. CASE pending # NoPending /\ pending' = [pending EXCEPT !.applied = db.rows]
    <3>1. /\ pending' \in Window /\ pending'.id = pending.id /\ pending'.reverting = pending.reverting
      BY <1>1, <2>4 DEF Window, TypeOK, State
    <3> QED  BY <1>1, <2>1, <2>2, <2>4, <3>1, ConfirmWindowAssumption DEF WriteInv, IsOpen
  <2> QED  BY <2>1, <2>3, <2>4
<1>15. ASSUME NEW r \in Requests, Finish(r) PROVE WriteInv'
  <2>1. /\ expired' = expired
        /\ req' = [req EXCEPT ![r] = Idle] \/ req' = [req EXCEPT ![r].pc = "busy"]
        /\ UNCHANGED <<pending, crit>> \/ RevertBegun
    BY <1>15, Zenon DEF Finish
  <2>2. RevertBegun => \A q \in Requests : ~ Waits(q)
    BY <1>2 DEF RevertBegun
  <2> QED  BY <1>3, <1>4, <1>5, <2>1, <2>2
<1>16. ASSUME NEW r \in Requests, Abort(r) \/ RevertNow(r) PROVE WriteInv'
  <2>1. /\ UNCHANGED <<pending, expired>>
        /\ req' = [req EXCEPT ![r] = Idle] \/ req' = [req EXCEPT ![r].pc = "busy"]
        /\ crit' = crit \/ IsOpen(req[r].wid)
        /\ req[r].pc = "abort" \/ Undisturbed
        /\ req[r].pc \in {"abort", "decide"}
    BY <1>16, Zenon DEF Abort, RevertNow, RevertPending, stores
  <2>2. \/ crit' = crit
        \/ \A q \in Requests : ~ Waits(q)
    BY <1>2, <1>7, <2>1 DEF Numbered
  <2> QED  BY <1>3, <1>4, <1>5, <2>1, <2>2
<1>17. ASSUME NEW r \in Requests, Confirm(r) PROVE WriteInv'
  <2>1. /\ Undisturbed
        /\ req' = [req EXCEPT ![r] = Idle] \/ req' = [req EXCEPT ![r].pc = "busy"]
    BY <1>17, Zenon DEF Confirm
  <2> QED  BY <1>2, <1>3, <1>4, <1>5, <2>1
<1>18. ASSUME NEW r \in Requests, See(r) \/ Leave(r) PROVE WriteInv'
  <2>1. UNCHANGED <<pending, expired, crit>> /\ \A q \in Requests : Stays(q)
    BY <1>1, <1>18 DEF See, Leave, stores, locks, ReqRecord
  <2> QED  BY <1>3, <2>1
<1>19. CASE RevertStep
  <2>1. crit.stage # "off" /\ (req' = req \/ \E completed : LeaveCrit(completed))
    BY <1>19 DEF RevertStep, RevertRead, RevertReplace, RevertSettings, RevertMark,
                 RevertClear, CritPersist
  <2> QED  BY <1>2, <1>3, <1>6, <2>1
<1>20. CASE ReconPersist
  <2>1. UNCHANGED <<pending, expired>> /\ ReconReturns(recon.by, recon.outcome = "ok")
    BY <1>20 DEF ReconPersist
  <2>2. \A q \in Requests : Stays(q)
    <3>1. \/ req' = req \/ LeaveCrit(FALSE)
          \/ req' = [req EXCEPT ![recon.by] = Idle]
          \/ \E pc \in {"finish", "abort"} : req' = [req EXCEPT ![recon.by].pc = pc]
      BY <2>1 DEF ReconReturns
    <3>2. CASE recon.by \in Requests
      BY <1>4, <1>5, <1>6, <3>1, <3>2
    <3>3. CASE recon.by \notin Requests
      BY <1>1, <1>6, <3>1, <3>3
    <3> QED  BY <3>2, <3>3
  <2>3. crit' = crit \/ crit.stage # "off"
    BY <2>1 DEF ReconReturns
  <2> QED  BY <1>2, <1>3, <2>1, <2>2, <2>3
<1>21. CASE WatchdogCheck
  <2>1. req' = req /\ \A q \in Requests : ~ Waits(q)
    BY <1>2, <1>21 DEF WatchdogCheck, RevertDue
  <2> QED  BY <1>3, <2>1
<1>22. CASE BootCheck \/ Deadline
  <2>1. req' = req /\ (UNCHANGED <<pending, expired, crit>> \/ Undisturbed)
    BY <1>22 DEF BootCheck, Deadline, stores, locks
  <2> QED  BY <1>2, <1>3, <2>1
<1>23. CASE (\E p \in Procs : ReconLoad(p)) \/ ReconApply \/ UNCHANGED vars
  BY <1>3, <1>23 DEF ReconLoad, ReconApply, stores, vars
<1>24. CASE \E machine \in BOOLEAN : Restart(machine)
  BY <1>1, <1>24 DEF Restart, WriteInv
<1> QED
  BY <1>8, <1>9, <1>10, <1>11, <1>12, <1>13, <1>14, <1>15, <1>16, <1>17, <1>18, <1>19, <1>20,
     <1>21, <1>22, <1>23, <1>24
  DEF Next, ApplyStep, OperatorStep, ReconStep

LEMMA InitPrompt == Init => PromptInv
<1> SUFFICES ASSUME Init PROVE PromptInv
  OBVIOUS
<1>1. ScopeInv
  BY DEF Init, ScopeInv, Fits, Contents, InitState, CritOff, NoTarget
<1>2. OwnWindowInv /\ WriteInv
  BY DEF Init, OwnWindowInv, WriteInv, Idle, Numbered, Applying
<1> QED  BY <1>1, <1>2, InitInv, InitSeats DEF Init, PromptInv

LEMMA NextPrompt ==
    ASSUME PromptInv, ScopesAreFixed, PromptWrites, [Next]_vars
    PROVE  PromptInv'
BY NextInv, NextSeats, ScopeStep, OwnWindowStep, WritesStayCovered, WriteStep DEF PromptInv, IInv

\* When every decision waits for the write of the window it decides and no row
\* changes scope, the protocol implements the abstract change, whatever fails and
\* however often: the arming gap and the stale scope are all that is in its way.
THEOREM PromptImplements ==
    ASSUME PromptWrites, ScopesAreFixed
    PROVE  Spec => ImplementsTrialChange
<1>1. PromptInv /\ [Next]_vars => PromptInv'
  BY NextPrompt
<1>2. PromptInv => ~ escaped
  BY DEF PromptInv
<1> QED  BY <1>1, <1>2, InitPrompt, ImplementsWhileCovered, PTL DEF Spec

=============================================================================
