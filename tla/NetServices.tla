------------------------------ MODULE NetServices ------------------------------
(***************************************************************************)
(* DHCP and DNS: the panel saves one row of configuration and arms a timer; *)
(* a reload (the timer's, the button's, the VPN's) renders it, validates    *)
(* both files, writes them and reloads kea and unbound, with no lock around *)
(* it.  unbound reopens its sockets only when it is restarted, so a reload  *)
(* compares what it listens on with the configuration activated last.       *)
(* Reservations, the blocklist and the tunnel's listener are part of        *)
(* "names" and "range"; a value "bad" is one the daemon's checker refuses.  *)
(***************************************************************************)
EXTENDS Naturals, FiniteSets

CONSTANTS
    Reloads,       \* reloads that may overlap
    MaxNetEdits,   \* bound on the panel's edits and requests
    MaxNetFaults,  \* bound on failed calls and on addresses that go away
    MaxReboots     \* bound on reboots of the machine

ASSUME NetAssumption == MaxNetEdits \in Nat /\ MaxNetFaults \in Nat /\ MaxReboots \in Nat

VARIABLES
    saved,     \* the row netsvc_config
    draft,     \* the row an edit has read
    armed,     \* the debounce timer of autoApplier
    present,   \* addresses that exist on the machine
    lost,      \* addresses that existed and went away
    keaFile, unboundFile,  \* the files under /etc
    marker,    \* where unbound listened when it was activated last
    unbound,   \* the sockets and the names of the running daemon
    guard,     \* the DNS redirect rules in the kernel
    reload,    \* [Reloads -> where each reload is]
    status,    \* netsvc_last_apply
    deps,      \* the alert of the missing packages is open
    overlapped, \* two reloads ran at once since one last ran alone
    strayed,   \* unbound was started on a file the marker does not describe
    forgotten, \* a restart lost an armed timer or a running reload
    netSpent

netVars == <<saved, draft, armed, present, lost, keaFile, unboundFile, marker, unbound, guard, reload,
             status, deps, overlapped, strayed, forgotten, netSpent>>

Addresses == {"lan", "new"}
Nowhere == "loopback"
Configs == [addr : Addresses, range : {"good", "bad"}, names : {"good", "other", "bad"}, force : BOOLEAN]
NotStarted == [listen |-> "dead", names |-> "none"]
NoFile == [listen |-> "none", names |-> "none"]
NotReloading == [at |-> "idle"]
NoDraft == [by |-> "nobody"]

NetInit ==
    /\ saved = [addr |-> "lan", range |-> "good", names |-> "good", force |-> FALSE]
    /\ draft = NoDraft /\ armed = FALSE
    /\ present \in {{"lan"}, Addresses} /\ lost = {}
    /\ keaFile = "good"
    /\ unboundFile = [listen |-> "lan", names |-> "good"]
    /\ marker = "lan" /\ unbound = unboundFile
    /\ guard = FALSE
    /\ reload = [r \in Reloads |-> NotReloading]
    /\ status = "ok" /\ deps = FALSE
    /\ overlapped = FALSE /\ strayed = FALSE /\ forgotten = FALSE
    /\ netSpent = [edits |-> 0, faults |-> 0, reboots |-> 0]

NetFault ==
    /\ netSpent.faults < MaxNetFaults
    /\ netSpent' = [netSpent EXCEPT !.faults = @ + 1]

-----------------------------------------------------------------------------
(* The panel: an edit reads the row, changes its own fields, writes all.   *)

EditReads ==
    /\ draft = NoDraft /\ netSpent.edits < MaxNetEdits
    /\ \/ \E a \in Addresses, g \in {"good", "bad"} :
            draft' = [by |-> "dhcp", row |-> [saved EXCEPT !.addr = a, !.range = g]]
       \/ \E n \in {"good", "other", "bad"}, f \in BOOLEAN :
            draft' = [by |-> "dns", row |-> [saved EXCEPT !.names = n, !.force = f]]
    /\ netSpent' = [netSpent EXCEPT !.edits = @ + 1]
    /\ UNCHANGED <<saved, armed, present, lost, keaFile, unboundFile, marker, unbound, guard, reload,
                   status, deps, overlapped, strayed, forgotten>>

\* The write, and schedule: the timer is armed again from zero.
EditSaves ==
    /\ draft # NoDraft
    /\ \/ /\ saved' = draft.row /\ armed' = TRUE
          /\ UNCHANGED netSpent
       \/ NetFault /\ UNCHANGED <<saved, armed>>
    /\ draft' = NoDraft
    /\ UNCHANGED <<present, lost, keaFile, unboundFile, marker, unbound, guard, reload, status, deps,
                   overlapped, strayed, forgotten>>

-----------------------------------------------------------------------------
(* ReloadConfigs, called by doReload.                                      *)

Begins(r) ==
    /\ reload[r].at = "idle"
    /\ reload' = [reload EXCEPT ![r] = [at |-> "packages", row |-> saved]]
    /\ overlapped' = (\E o \in Reloads \ {r} : reload[o].at # "idle")
    /\ forgotten' = FALSE
    /\ UNCHANGED <<saved, draft, present, lost, keaFile, unboundFile, marker, unbound, guard, status,
                   deps, strayed>>

TimerReload(r) == armed /\ Begins(r) /\ armed' = FALSE /\ UNCHANGED netSpent

\* "Aplicar agora", and the reload the VPN asks for.
AskedReload(r) ==
    /\ netSpent.edits < MaxNetEdits
    /\ netSpent' = [netSpent EXCEPT !.edits = @ + 1]
    /\ Begins(r) /\ UNCHANGED armed

Refuse(r) == reload' = [reload EXCEPT ![r].at = "guard", ![r].result = "failed"]

\* ensurePackages: what is missing is installed, or the reload ends.
EnsurePackages(r) ==
    /\ reload[r].at = "packages"
    /\ \/ /\ reload' = [reload EXCEPT ![r] = [at |-> "render", row |-> @.row, result |-> "ok"]]
          /\ deps' = deps /\ UNCHANGED netSpent
       \/ /\ NetFault
          /\ reload' = [reload EXCEPT ![r] = [at |-> "guard", row |-> @.row, result |-> "failed"]]
          /\ deps' = TRUE
    /\ UNCHANGED <<saved, draft, armed, present, lost, keaFile, unboundFile, marker, unbound, guard,
                   status, overlapped, strayed, forgotten>>

\* Mutant: the address is rendered whether the machine has it or not.
ListenUnchecked(row) == row.addr

\* enderecoBindavel: an address the machine does not have is left out.
Listen(row) == IF row.addr \in present THEN row.addr ELSE Nowhere

\* GenerateUnboundConfig, as far as it decides anything here.
UnboundText(row) == [listen |-> Listen(row), names |-> row.names]

\* Mutant: one refused file keeps the other from being written.
KeaRefusedBlocks(row) == row.range = "bad" \/ row.names = "bad"

\* A refused unbound file stops both; a refused kea file stops only kea.
Blocks(row) == row.names = "bad"

Render(r) ==
    /\ reload[r].at = "render"
    /\ LET row == reload[r].row
           text == UnboundText(row)
           kea == row.range # "bad"
       IN IF Blocks(row)
          THEN Refuse(r)
          ELSE reload' = [reload EXCEPT ![r] =
                 [at |-> "writeKea", row |-> row, kea |-> kea,
                  file |-> text,
                  restart |-> marker # text.listen,
                  result |-> IF ~kea THEN "failed"
                             ELSE IF text.listen = Nowhere THEN "warned" ELSE "ok"]]
    /\ UNCHANGED <<saved, draft, armed, present, lost, keaFile, unboundFile, marker, unbound, guard,
                   status, deps, overlapped, strayed, forgotten, netSpent>>

WritesKea(r) == reload[r].kea

WriteKea(r) ==
    /\ reload[r].at = "writeKea"
    /\ \/ /\ keaFile' = IF WritesKea(r) THEN reload[r].row.range ELSE keaFile
          /\ reload' = [reload EXCEPT ![r].at = "writeUnbound"]
          /\ UNCHANGED netSpent
       \/ NetFault /\ Refuse(r) /\ UNCHANGED keaFile
    /\ UNCHANGED <<saved, draft, armed, present, lost, unboundFile, marker, unbound, guard, status, deps,
                   overlapped, strayed, forgotten>>

WriteUnbound(r) ==
    /\ reload[r].at = "writeUnbound"
    /\ \/ /\ unboundFile' = reload[r].file
          /\ reload' = [reload EXCEPT ![r].at = "reloadKea"]
          /\ UNCHANGED netSpent
       \/ NetFault /\ Refuse(r) /\ UNCHANGED unboundFile
    /\ UNCHANGED <<saved, draft, armed, present, lost, keaFile, marker, unbound, guard, status, deps,
                   overlapped, strayed, forgotten>>

\* The lease database survives; a failure ends the reload before unbound's.
ReloadKea(r) ==
    /\ reload[r].at = "reloadKea"
    /\ \/ reload' = [reload EXCEPT ![r].at = "reloadUnbound"] /\ UNCHANGED netSpent
       \/ reload[r].kea /\ NetFault /\ Refuse(r)
    /\ UNCHANGED <<saved, draft, armed, present, lost, keaFile, unboundFile, marker, unbound, guard,
                   status, deps, overlapped, strayed, forgotten>>

Started == IF unboundFile.listen \in present \cup {Nowhere} THEN unboundFile ELSE NotStarted

\* SIGHUP reads the file again but keeps the sockets; a dead daemon starts.
Reloaded == IF unbound = NotStarted THEN Started
            ELSE [listen |-> unbound.listen, names |-> unboundFile.names]

ReloadUnbound(r) ==
    /\ reload[r].at = "reloadUnbound"
    /\ unbound' = IF reload[r].restart THEN Started ELSE Reloaded
    /\ strayed' = (strayed /\ ~reload[r].restart /\ unbound # NotStarted)
    /\ IF unbound' = NotStarted THEN Refuse(r)
       ELSE reload' = [reload EXCEPT ![r].at = "mark"]
    /\ UNCHANGED <<saved, draft, armed, present, lost, keaFile, unboundFile, marker, guard, status, deps,
                   overlapped, forgotten, netSpent>>

Marked(r) == reload[r].file.listen

\* The marker is best effort, and the old one stays when the write fails.
Mark(r) ==
    /\ reload[r].at = "mark"
    /\ \/ marker' = Marked(r) /\ UNCHANGED netSpent
       \/ NetFault /\ UNCHANGED marker
    /\ strayed' = (strayed \/ marker' # unbound.listen)
    /\ reload' = [reload EXCEPT ![r].at = "guard"]
    /\ UNCHANGED <<saved, draft, armed, present, lost, keaFile, unboundFile, unbound, guard, status, deps,
                   overlapped, forgotten>>

-----------------------------------------------------------------------------
(* The rest of doReload: the alert, the redirect rules, the status.        *)

ResultAfterGuard(r) == "failed"

\* EnsureDNSGuard rebuilds both chains from the row, empty when it is off.
Guarded(row) == row.force

\* ReconcileDNSGuard reads the row again; it runs also after a failure.
ReconcileGuard(r) ==
    /\ reload[r].at = "guard"
    /\ deps' = (deps /\ reload[r].result = "failed")
    /\ \/ /\ guard' = Guarded(saved)
          /\ reload' = [reload EXCEPT ![r].at = "record"]
          /\ UNCHANGED netSpent
       \/ /\ NetFault /\ UNCHANGED guard
          /\ reload' = [reload EXCEPT ![r].at = "record", ![r].result = ResultAfterGuard(r)]
    /\ UNCHANGED <<saved, draft, armed, present, lost, keaFile, unboundFile, marker, unbound, status,
                   overlapped, strayed, forgotten>>

Record(r) ==
    /\ reload[r].at = "record"
    /\ status' = reload[r].result
    /\ reload' = [reload EXCEPT ![r] = NotReloading]
    /\ UNCHANGED <<saved, draft, armed, present, lost, keaFile, unboundFile, marker, unbound, guard, deps,
                   overlapped, strayed, forgotten, netSpent>>

ReloadStep(r) ==
    \/ EnsurePackages(r) \/ Render(r) \/ WriteKea(r) \/ WriteUnbound(r)
    \/ ReloadKea(r) \/ ReloadUnbound(r) \/ Mark(r) \/ ReconcileGuard(r) \/ Record(r)

-----------------------------------------------------------------------------
(* The machine.                                                            *)

AddressGoes ==
    /\ NetFault
    /\ \E a \in present : present' = present \ {a} /\ lost' = lost \cup {a}
    /\ UNCHANGED <<saved, draft, armed, keaFile, unboundFile, marker, unbound, guard, reload, status,
                   deps, overlapped, strayed, forgotten>>

\* systemd starts unbound on the file that is on disk, the panel starts
\* without timer or reload, ReconcileDNSGuardOnBoot writes the rules.
Reboot ==
    /\ netSpent.reboots < MaxReboots
    /\ netSpent' = [netSpent EXCEPT !.reboots = @ + 1]
    /\ unbound' = Started
    /\ strayed' = (unboundFile.listen # marker)
    /\ forgotten' = (forgotten \/ armed \/ \E r \in Reloads : reload[r].at # "idle")
    /\ armed' = FALSE /\ draft' = NoDraft
    /\ reload' = [r \in Reloads |-> NotReloading]
    /\ guard' = Guarded(saved)
    /\ UNCHANGED <<saved, present, lost, keaFile, unboundFile, marker, status, deps, overlapped>>

NetNext ==
    \/ EditReads \/ EditSaves \/ AddressGoes \/ Reboot
    \/ \E r \in Reloads : TimerReload(r) \/ AskedReload(r) \/ ReloadStep(r)

NetSpec == NetInit /\ [][NetNext]_netVars

-----------------------------------------------------------------------------
\* Type invariant of DHCP and DNS.
NetTypeOK ==
    /\ saved \in Configs
    /\ draft = NoDraft \/ (draft.by \in {"dhcp", "dns"} /\ draft.row \in Configs)
    /\ present \subseteq Addresses /\ lost \subseteq Addresses \ present
    /\ keaFile \in {"good", "bad"}
    /\ {unboundFile.listen, marker} \subseteq Addresses \cup {Nowhere}
    /\ unbound.listen \in Addresses \cup {Nowhere, "dead"}
    /\ \A r \in Reloads : reload[r].at \in {"idle", "packages", "render", "writeKea", "writeUnbound",
                                            "reloadKea", "reloadUnbound", "mark", "guard", "record"}
    /\ status \in {"ok", "warned", "failed"}
    /\ \A f \in {armed, guard, deps, overlapped, strayed, forgotten} : f \in BOOLEAN
    /\ netSpent.edits \in 0..MaxNetEdits /\ netSpent.faults \in 0..MaxNetFaults
    /\ netSpent.reboots \in 0..MaxReboots

Quiet == ~armed /\ draft = NoDraft /\ \A r \in Reloads : reload[r].at = "idle"

\* "Config aplicada": when nothing is under way and the panel says the last
\* reload succeeded, the files, the daemon's sockets and names, the rules and
\* the alert are what the row says; except after reloads that overlapped, a
\* restart that lost one, or while the marker is not what unbound started on.
OkMeansServed ==
    Quiet /\ status = "ok" /\ ~overlapped /\ ~forgotten /\ ~strayed =>
      /\ unboundFile = [listen |-> saved.addr, names |-> saved.names]
      /\ unbound = unboundFile \/ saved.addr \notin present
      /\ keaFile = saved.range /\ guard = Guarded(saved) /\ ~deps

\* enderecoBindavel, and validating before writing: across any failure
\* and boot the resolver of the LAN runs, unless an address went away under
\* it, and no file that its daemon refuses is ever on disk.
NoBlackout ==
    /\ unbound = NotStarted => lost # {}
    /\ keaFile # "bad" /\ unboundFile.names # "bad"

\* A range of DHCP that kea refuses freezes no change of DNS: what the row
\* says about names reaches the daemon, unless something failed or overlapped.
DnsIsNotFrozen ==
    \A n \in {"good", "other"} :
      (armed /\ saved.names = n)
        ~> (unbound.names = n \/ saved.names # n \/ overlapped \/ netSpent.faults > 0 \/ netSpent.reboots > 0)
=============================================================================
