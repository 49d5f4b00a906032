----------------------------- MODULE InterfaceTrial -----------------------------
(***************************************************************************)
(* A change of address of a network interface is written and loaded, and   *)
(* then recorded as pending with what was there before; Confirm keeps it,   *)
(* Rollback and the sweep of expired changes put the earlier file back.     *)
(* No lock is held: the calls interleave, and the process may die between   *)
(* any two steps.  One interface; its rendered file is a model value.       *)
(***************************************************************************)
EXTENDS Naturals, FiniteSets

CONSTANTS
    Changers,      \* ApplyChange calls, one request each
    Contents,      \* files a change may render
    MaxTrialFaults \* bound on failed commands, failed statements, crashes

ASSUME InterfaceTrialAssumption == MaxTrialFaults \in Nat

VARIABLES
    ifaceFile,   \* the .network file
    loaded,      \* what networkd loaded last
    managed,     \* row of managed_interfaces
    row,         \* row of pending_interface_changes
    changer,     \* [Changers -> where each ApplyChange is]
    resolver,    \* [{"confirm", "rollback", "sweep"} -> where each is]
    accepted,    \* what the file was, or the operator confirmed
    torn,        \* a change was cut before it was recorded, a confirmation before
                 \* its row was deleted, two calls crossed, or the operator
                 \* confirmed what a failed rollback had half undone
    trialFaults

trialVars == <<ifaceFile, loaded, managed, row, changer, resolver, accepted, torn, trialFaults>>

Absent == "no file"
Files == Contents \cup {Absent}
NoRow == [old |-> "no row"]
Resolvers == {"confirm", "rollback", "sweep"}
NotCalled == [at |-> "idle"]
ChangeDone == [at |-> "done"]

InterfaceInit ==
    /\ ifaceFile \in Files /\ loaded = ifaceFile /\ accepted = ifaceFile
    /\ managed = ifaceFile
    /\ row = NoRow
    /\ changer = [c \in Changers |-> NotCalled]
    /\ resolver = [r \in Resolvers |-> NotCalled]
    /\ torn = FALSE /\ trialFaults = 0

TrialFault == trialFaults < MaxTrialFaults /\ trialFaults' = trialFaults + 1
Resolving == \E r \in Resolvers : resolver[r].at # "idle"
Changing == \E c \in Changers : changer[c].at \in {"write", "load", "record"}

-----------------------------------------------------------------------------
(* ApplyChange.                                                            *)

MayChange == row = NoRow

\* An error reading the old file is taken for a file that is not there.
OldContent == {ifaceFile} \cup (IF trialFaults < MaxTrialFaults THEN {Absent} ELSE {})

ChangeReads(c) ==
    /\ changer[c].at = "idle" /\ MayChange
    /\ \E new \in Contents, old \in OldContent :
         /\ changer' = [changer EXCEPT ![c] = [at |-> "write", new |-> new, old |-> old]]
         /\ torn' = (torn \/ old # ifaceFile \/ Changing \/ Resolving)
         /\ trialFaults' = IF old = ifaceFile THEN trialFaults ELSE trialFaults + 1
    /\ UNCHANGED <<ifaceFile, loaded, managed, row, resolver, accepted>>

ChangeWrites(c) ==
    /\ changer[c].at = "write"
    /\ \/ /\ ifaceFile' = changer[c].new
          /\ changer' = [changer EXCEPT ![c].at = "load"]
          /\ UNCHANGED trialFaults
       \/ TrialFault /\ changer' = [changer EXCEPT ![c] = ChangeDone] /\ UNCHANGED ifaceFile
    /\ UNCHANGED <<loaded, managed, row, resolver, accepted, torn>>

\* networkctl reload; when it fails the file stays and nothing is recorded.
ChangeLoads(c) ==
    /\ changer[c].at = "load"
    /\ \/ /\ loaded' = ifaceFile
          /\ changer' = [changer EXCEPT ![c].at = "record"]
          /\ UNCHANGED <<torn, trialFaults>>
       \/ /\ TrialFault /\ torn' = TRUE
          /\ changer' = [changer EXCEPT ![c] = ChangeDone]
          /\ UNCHANGED loaded
    /\ UNCHANGED <<ifaceFile, managed, row, resolver, accepted>>

\* CreatePendingInterfaceChange: one row for each interface.
ChangeRecords(c) ==
    /\ changer[c].at = "record"
    /\ \/ /\ row = NoRow
          /\ row' = [old |-> changer[c].old, new |-> changer[c].new, due |-> FALSE]
          /\ UNCHANGED <<torn, trialFaults>>
       \/ row # NoRow /\ torn' = TRUE /\ UNCHANGED <<row, trialFaults>>
       \/ TrialFault /\ torn' = TRUE /\ UNCHANGED row
    /\ changer' = [changer EXCEPT ![c] = ChangeDone]
    /\ UNCHANGED <<ifaceFile, loaded, managed, resolver, accepted>>

ChangeStep(c) == ChangeWrites(c) \/ ChangeLoads(c) \/ ChangeRecords(c)

-----------------------------------------------------------------------------
(* Confirm, Rollback and sweepExpiredOnce.                                 *)

\* Mutant: the sweep leaves alone a file that is not the one the change wrote.
MayTakeUntouched(r) == row # NoRow /\ (r = "sweep" => row.due /\ ifaceFile = row.new)

MayTake(r) == row # NoRow /\ (r = "sweep" => row.due)

Takes(r) ==
    /\ resolver[r].at = "idle" /\ MayTake(r)
    /\ resolver' = [resolver EXCEPT ![r] = [at |-> IF r = "confirm" THEN "adopt" ELSE "restore",
                                            taken |-> row]]
    /\ torn' = (torn \/ Resolving \/ (r = "confirm" /\ ifaceFile # row.new))
    /\ UNCHANGED <<ifaceFile, loaded, managed, row, changer, accepted, trialFaults>>

\* Mutant: the row is deleted though the file was not restored.
AfterFailureDeletes(r) == [resolver EXCEPT ![r].at = "delete"]

\* The row stays when the restoration failed: the sweep comes back.
AfterFailure(r) == [resolver EXCEPT ![r] = NotCalled]

ConfirmAdopts ==
    /\ resolver["confirm"].at = "adopt"
    /\ \/ /\ managed' = resolver["confirm"].taken.new
          /\ accepted' = managed'
          /\ resolver' = [resolver EXCEPT !["confirm"].at = "delete"]
          /\ UNCHANGED trialFaults
       \/ TrialFault /\ resolver' = [resolver EXCEPT !["confirm"] = NotCalled] /\ UNCHANGED <<managed, accepted>>
    /\ UNCHANGED <<ifaceFile, loaded, row, changer, torn>>

\* restorePendingFiles: without an earlier file the new one is removed.
Restored(r) == resolver[r].taken.old

Restores(r) ==
    /\ resolver[r].at = "restore"
    /\ \/ /\ ifaceFile' = Restored(r)
          /\ resolver' = [resolver EXCEPT ![r].at = "reload"]
          /\ UNCHANGED trialFaults
       \/ TrialFault /\ resolver' = AfterFailure(r) /\ UNCHANGED ifaceFile
    /\ UNCHANGED <<loaded, managed, row, changer, accepted, torn>>

ReloadsRestored(r) ==
    /\ resolver[r].at = "reload"
    /\ \/ /\ loaded' = ifaceFile
          /\ resolver' = [resolver EXCEPT ![r].at = "delete"]
          /\ UNCHANGED trialFaults
       \/ TrialFault /\ resolver' = AfterFailure(r) /\ UNCHANGED loaded
    /\ UNCHANGED <<ifaceFile, managed, row, changer, accepted, torn>>

\* DeletePendingInterfaceChange, by the name of the interface.
DeletesRow(r) ==
    /\ resolver[r].at = "delete"
    /\ \/ row' = NoRow /\ UNCHANGED trialFaults
       \/ TrialFault /\ UNCHANGED row
    /\ torn' = (torn \/ (r = "confirm" /\ row' # NoRow))
    /\ resolver' = [resolver EXCEPT ![r] = NotCalled]
    /\ UNCHANGED <<ifaceFile, loaded, managed, changer, accepted>>

ResolveStep(r) == Restores(r) \/ ReloadsRestored(r) \/ DeletesRow(r) \/ (r = "confirm" /\ ConfirmAdopts)

-----------------------------------------------------------------------------

DeadlinePasses ==
    /\ row # NoRow /\ ~row.due
    /\ row' = [row EXCEPT !.due = TRUE]
    /\ UNCHANGED <<ifaceFile, loaded, managed, changer, resolver, accepted, torn, trialFaults>>

\* The row survives, what the calls were doing does not.
TrialRestart ==
    /\ TrialFault
    /\ changer' = [c \in Changers |-> IF changer[c].at = "idle" THEN NotCalled ELSE ChangeDone]
    /\ resolver' = [r \in Resolvers |-> NotCalled]
    /\ torn' = (torn \/ resolver["confirm"].at = "delete"
                     \/ \E c \in Changers : changer[c].at \in {"load", "record"})
    /\ UNCHANGED <<ifaceFile, loaded, managed, row, accepted>>

InterfaceNext ==
    \/ DeadlinePasses \/ TrialRestart
    \/ \E c \in Changers : ChangeReads(c) \/ ChangeStep(c)
    \/ \E r \in Resolvers : Takes(r) \/ ResolveStep(r)

InterfaceSpec == InterfaceInit /\ [][InterfaceNext]_trialVars

-----------------------------------------------------------------------------
\* Type invariant of the trial of an interface.
InterfaceTypeOK ==
    /\ {ifaceFile, loaded, managed, accepted} \subseteq Files
    /\ row = NoRow \/ (row.old \in Files /\ row.new \in Contents /\ row.due \in BOOLEAN)
    /\ \A c \in Changers : changer[c].at \in {"idle", "write", "load", "record", "done"}
    /\ \A r \in Resolvers : resolver[r].at \in {"idle", "adopt", "restore", "reload", "delete"}
    /\ torn \in BOOLEAN /\ trialFaults \in 0..MaxTrialFaults

\* ApplyChange, Confirm, Rollback, sweep: with nothing pending and no call
\* running, the file and what networkd loaded are what the operator had or
\* confirmed last, across failures and crashes of the calls that resolve.
UndoneUnlessConfirmed ==
    ~torn /\ row = NoRow /\ ~Changing /\ ~Resolving => ifaceFile = accepted /\ loaded = accepted

\* "Confirm accepts a pending change: it becomes the interface's managed
\* config permanently": with nothing pending, what is managed is loaded.
ManagedIsLoaded == row = NoRow /\ ~Changing /\ ~Resolving => loaded = managed

\* sweepExpiredOnce: "não perder o rastro": a pending row goes away only when
\* the change was confirmed or what was there before is loaded again.
TrackIsKept ==
    row # NoRow /\ row' = NoRow /\ ~torn =>
      loaded = row.old \/ (managed = row.new /\ loaded = row.new)

\* sweepExpiredOnce, persisted deadline: every change that was recorded is
\* confirmed or undone, also across restarts and failed restorations.
TrialEnds == row # NoRow ~> row = NoRow
=============================================================================
