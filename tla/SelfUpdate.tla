------------------------------ MODULE SelfUpdate ------------------------------
(* The update the panel starts (updater, handlers/update.go): the answer goes *)
(* out first, and the download, the check of its sum and the installation     *)
(* follow, by dpkg in a transient unit of systemd that outlives the service.  *)
(* The package restarts the service, so success too looks like an error to    *)
(* who waits for the unit: dpkg is then asked what is installed.              *)
EXTENDS Naturals, FiniteSets

CONSTANTS
    UpdateCalls,      \* requests to update
    MaxVersion,       \* bound on the versions released; the machine starts at 1
    MaxUpdateEvents,  \* bound on releases, withdrawals, restarts and dismissals
    MaxUpdateFaults   \* bound on failures of the network, of dpkg and of writes

ASSUME UpdateAssumption ==
    MaxVersion \in Nat \ {0} /\ MaxUpdateEvents \in Nat /\ MaxUpdateFaults \in Nat

VARIABLES
    release,      \* the latest release, and which of its files are up
    installed,    \* the version dpkg has, and whether its file was the one released
    entered,      \* history: the calls whose package went in
    current,      \* the version that runs; a restart takes the installed one
    stopping,     \* the package is restarting the service
    unit,         \* the call whose dpkg runs in the transient unit: at most one
    updates,      \* what became of each call
    spool,        \* the calls whose download is in the spool
    updateAlert,  \* an alert of a failed update is open
    excused,      \* history: calls cut, whose alert was not written, or was dismissed
    updateEvents, updateFaults

updateVars == <<release, installed, entered, current, stopping, unit, updates, spool,
                updateAlert, excused, updateEvents, updateFaults>>

Versions == 1..MaxVersion
NoUpdate == [at |-> "none", v |-> 0, deb |-> FALSE, sums |-> FALSE, intact |-> FALSE, late |-> FALSE]
InFlight == {"told", "read", "downloaded", "verified", "waiting", "asking", "failed"}
AllUp(v) == [v |-> v, deb |-> TRUE, sums |-> TRUE]

UpdateInit ==
    /\ release = AllUp(1)
    /\ installed = [v |-> 1, intact |-> TRUE] /\ entered = {} /\ current = 1
    /\ stopping = FALSE /\ unit = {}
    /\ updates = [c \in UpdateCalls |-> NoUpdate]
    /\ spool = {} /\ updateAlert = FALSE /\ excused = {}
    /\ updateEvents = 0 /\ updateFaults = 0

UpdateEvent == updateEvents < MaxUpdateEvents /\ updateEvents' = updateEvents + 1 /\ UNCHANGED updateFaults
UpdateFault == updateFaults < MaxUpdateFaults /\ updateFaults' = updateFaults + 1 /\ UNCHANGED updateEvents
NoUpdateEvent == UNCHANGED <<updateEvents, updateFaults>>

UpdateIs(c, u) == updates' = [updates EXCEPT ![c] = u]
UpdateGoes(c, at) == UpdateIs(c, [updates[c] EXCEPT !.at = at])

\* Mutant: what was downloaded stays when the update fails.
FailsOnly(c) == UpdateGoes(c, "failed") /\ UNCHANGED spool

\* Apply returns an error: the download is removed as it returns.
Fails(c) == UpdateGoes(c, "failed") /\ spool' = spool \ {c}

MachineStays == UNCHANGED <<release, installed, entered, current, stopping, unit>>
AlertKept == UNCHANGED <<updateAlert, excused>>

-----------------------------------------------------------------------------
\* The releases: one is created before its files are up, and may be withdrawn.
ReleaseMoves ==
    /\ \/ /\ UpdateEvent
          /\ \/ release.v < MaxVersion /\ release' = [v |-> release.v + 1, deb |-> FALSE, sums |-> FALSE]
             \/ release.v > 1 /\ release' = AllUp(release.v - 1)
       \/ /\ NoUpdateEvent
          /\ \/ ~release.deb /\ release' = [release EXCEPT !.deb = TRUE]
             \/ ~release.sums /\ release' = [release EXCEPT !.sums = TRUE]
    /\ UNCHANGED <<installed, entered, current, stopping, unit, updates, spool>> /\ AlertKept

\* Apply, the handler: what Check says decides, and the answer goes out.
AsksUpdate(c) ==
    /\ updates[c].at = "none"
    /\ \/ /\ release.v > current /\ release.deb
          /\ UpdateGoes(c, "told") /\ NoUpdateEvent
       \/ /\ release.v <= current \/ ~release.deb
          /\ UpdateGoes(c, "refused") /\ NoUpdateEvent
       \/ UpdateGoes(c, "refused") /\ UpdateFault
    /\ MachineStays /\ AlertKept /\ UNCHANGED spool

\* Apply, the service: the latest release is read again.
ReadsRelease(c) ==
    /\ updates[c].at = "told"
    /\ \/ /\ release.deb /\ NoUpdateEvent
          /\ UpdateIs(c, [updates[c] EXCEPT !.at = "read", !.v = release.v, !.sums = release.sums])
          /\ UNCHANGED spool
       \/ ~release.deb /\ Fails(c) /\ NoUpdateEvent
       \/ Fails(c) /\ UpdateFault
    /\ MachineStays /\ AlertKept

\* downloadAsset: what arrives may not be what was released.
Downloads(c) ==
    /\ updates[c].at = "read"
    /\ \/ /\ UpdateIs(c, [updates[c] EXCEPT !.at = "downloaded", !.intact = TRUE])
          /\ spool' = spool \cup {c} /\ NoUpdateEvent
       \/ /\ UpdateIs(c, [updates[c] EXCEPT !.at = "downloaded", !.intact = FALSE])
          /\ spool' = spool \cup {c} /\ UpdateFault
       \/ Fails(c) /\ UpdateFault
    /\ MachineStays /\ AlertKept

\* verifyChecksum: a package whose sum is not listed, or differs, is refused.
Verifies(c) ==
    /\ updates[c].at = "downloaded"
    /\ \/ updates[c].intact /\ updates[c].sums /\ UpdateGoes(c, "verified") /\ UNCHANGED spool /\ NoUpdateEvent
       \/ ~(updates[c].intact /\ updates[c].sums) /\ Fails(c) /\ NoUpdateEvent
       \/ Fails(c) /\ UpdateFault
    /\ MachineStays /\ AlertKept

\* systemd-run: the unit has one name, and a second one is refused while it
\* runs; an error leads to the question of what is installed.
RunsUnit(c) ==
    /\ updates[c].at = "verified"
    /\ IF unit = {} THEN unit' = {c} /\ UpdateGoes(c, "waiting") ELSE UNCHANGED unit /\ UpdateGoes(c, "asking")
    /\ NoUpdateEvent /\ AlertKept
    /\ UNCHANGED <<release, installed, entered, current, stopping, spool>>

\* dpkg, in the unit: it fails, before its package is in or after, and the
\* error reaches who waits, if anybody does still; or the package goes in.
DpkgFails ==
    /\ ~stopping
    /\ \E c \in unit :
         /\ IF c \in spool THEN UpdateFault ELSE NoUpdateEvent
         /\ updates' = [updates EXCEPT ![c].at = IF @ = "waiting" THEN "asking" ELSE @]
    /\ unit' = {}
    /\ UNCHANGED <<release, installed, entered, current, stopping, spool>> /\ AlertKept

DpkgInstalls ==
    /\ unit \cap entered = {} /\ ~stopping
    /\ \E c \in unit :
         /\ installed' = [v |-> updates[c].v, intact |-> updates[c].intact]
         /\ entered' = entered \cup {c}
    /\ NoUpdateEvent /\ AlertKept /\ UNCHANGED <<release, current, stopping, unit, updates, spool>>

\* The package's own script: it restarts the service, or could not and ends.
PackageRestarts ==
    /\ unit \cap entered # {} /\ ~stopping
    /\ \/ stopping' = TRUE /\ UNCHANGED <<unit, updates, spool>> /\ NoUpdateEvent
       \/ /\ UpdateFault /\ unit' = {} /\ UNCHANGED stopping
          /\ \E c \in unit :
               IF updates[c].at = "waiting" THEN UpdateGoes(c, "done") /\ spool' = spool \ {c}
               ELSE UNCHANGED <<updates, spool>>
    /\ AlertKept /\ UNCHANGED <<release, installed, entered, current>>

\* The client of systemd-run dies with the service it is a child of.
ClientDies(c) ==
    /\ stopping /\ updates[c].at = "waiting" /\ UpdateGoes(c, "asking")
    /\ NoUpdateEvent /\ MachineStays /\ AlertKept /\ UNCHANGED spool

\* installedVersion: dpkg says whether the package is the one that was wanted.
AsksDpkg(c) ==
    /\ updates[c].at = "asking"
    /\ \/ installed.v = updates[c].v /\ UpdateGoes(c, "done") /\ spool' = spool \ {c} /\ NoUpdateEvent
       \/ installed.v # updates[c].v /\ Fails(c) /\ NoUpdateEvent
       \/ /\ UpdateFault /\ spool' = spool \ {c}
          /\ UpdateIs(c, [updates[c] EXCEPT !.at = "failed", !.late = TRUE])
    /\ MachineStays /\ AlertKept

\* Five minutes: the client is killed, dpkg is not, and it cannot be asked.
TimesOut(c) ==
    /\ UpdateEvent
    /\ updates[c].at \in {"read", "downloaded", "verified", "waiting"}
    /\ UpdateIs(c, [updates[c] EXCEPT !.at = "failed", !.late = TRUE]) /\ spool' = spool \ {c}
    /\ MachineStays /\ AlertKept

\* falhouAtualizar: an alert that is open already stands for this one.
TellsFailure(c) ==
    /\ updates[c].at = "failed"
    /\ UpdateGoes(c, "shown")
    /\ \/ updateAlert' = TRUE /\ UNCHANGED excused /\ NoUpdateEvent
       \/ excused' = excused \cup {c} /\ UNCHANGED updateAlert /\ UpdateFault
    /\ MachineStays /\ UNCHANGED spool

DismissesAlert ==
    /\ UpdateEvent /\ updateAlert /\ updateAlert' = FALSE
    /\ excused' = excused \cup {c \in UpdateCalls : updates[c].at = "shown"}
    /\ MachineStays /\ UNCHANGED <<updates, spool>>

\* The service is restarted, by the package or by somebody: the calls are cut
\* where they are, their files stay, and the unit goes on.
ServiceRestarts ==
    /\ \/ stopping /\ NoUpdateEvent /\ unit' = {}
       \/ ~stopping /\ UpdateEvent /\ UNCHANGED unit
    /\ stopping' = FALSE /\ current' = installed.v
    /\ LET cut == {c \in UpdateCalls : updates[c].at \in InFlight}
       IN /\ updates' = [c \in UpdateCalls |-> IF c \in cut THEN [updates[c] EXCEPT !.at = "cut"] ELSE updates[c]]
          /\ excused' = excused \cup cut
    /\ UNCHANGED <<release, installed, entered, spool, updateAlert>>

UpdateNext ==
    \/ \E c \in UpdateCalls :
         \/ AsksUpdate(c) \/ ReadsRelease(c) \/ Downloads(c) \/ Verifies(c) \/ RunsUnit(c)
         \/ ClientDies(c) \/ AsksDpkg(c) \/ TimesOut(c) \/ TellsFailure(c)
    \/ ReleaseMoves \/ DpkgFails \/ DpkgInstalls \/ PackageRestarts \/ DismissesAlert \/ ServiceRestarts

UpdateSpec == UpdateInit /\ [][UpdateNext]_updateVars

-----------------------------------------------------------------------------
\* Type invariant of the update.
UpdateTypeOK ==
    /\ release.v \in Versions /\ installed.v \in Versions /\ current \in Versions
    /\ \A c \in UpdateCalls :
         /\ updates[c].at \in InFlight \cup {"none", "refused", "done", "shown", "cut"}
         /\ updates[c].v \in 0..MaxVersion
    /\ unit \subseteq UpdateCalls /\ Cardinality(unit) <= 1
    /\ {spool, entered, excused} \subseteq SUBSET UpdateCalls
    /\ {stopping, updateAlert} \subseteq BOOLEAN

\* dpkg is given only what was released: whatever is installed was compared
\* with the sums of its release.
OnlyVerifiedGoesIn == installed.intact

\* An update that ended without its package is told to the operator, and one
\* that ended in silence has it, or had it from the start; a package that went in is not told as a
\* failure, unless dpkg could not be asked in time or another version went in.
UpdateIsTold ==
    \A c \in UpdateCalls :
      /\ updates[c].at = "shown" => updateAlert \/ c \in excused
      /\ updates[c].at = "done" => updates[c].v \in {1} \cup {updates[d].v : d \in entered}
      /\ (updates[c].at = "shown" /\ c \in entered) =>
           updates[c].late \/ \E d \in entered : updates[d].v # updates[c].v

\* The spool holds the downloads of the updates in flight, and those that a
\* restart cut.
SpoolIsEmptied == \A c \in spool : updates[c].at \in InFlight \cup {"cut"}
=============================================================================
