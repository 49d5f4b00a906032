----------------------------- MODULE QueueControl -----------------------------
(***************************************************************************)
(* The queue control of one WAN interface (a CAKE root, an IFB with a CAKE  *)
(* root of its own and the redirect that feeds it) and the stress test that *)
(* puts a fault on the same interface.  Every change runs under the lock of *)
(* the interface, one command after another; a lease in SQLite says how to  *)
(* come back, the process may die between any two steps, and the boot pass  *)
(* consumes what it left.  A plan is a pair of bandwidths and a mode.       *)
(***************************************************************************)
EXTENDS Naturals, Sequences

CONSTANTS
    Plans,          \* enabled configurations
    MaxQueueEdits,  \* bound on operator requests
    MaxQueueFaults  \* bound on failed commands and statements, deaths, and a
                    \* root qdisc of another program

ASSUME QueueControlAssumption ==
    /\ MaxQueueEdits \in Nat /\ MaxQueueFaults \in Nat
    /\ Plans \cap {"off", "none", "netem", "foreign"} = {}

VARIABLES
    link,       \* row of the link: exists, enabled, persisted QoS
    chain,      \* what tc and ip show: egress root, IFB, its root, redirect
    carrier,    \* the interface is administratively up
    lease,      \* row of qos_operation_lease
    stress,     \* row of stress_recovery_lease: its mode, or "none"
    test,       \* where the stress test of this process is
    mode,       \* and what it does, or the boot pass found a test had done
    watchdog,   \* its watchdog is armed
    job,        \* who holds the lock of the interface, and what it does next
    due,        \* what the boot pass, or a link edit, still has to do
    listed,     \* the lease RecoverInterrupted read, before it took the lock
    alien,      \* another program put its own root qdisc on the interface
    unrecorded,     \* a change no lease describes was cut, or undone in part; a
                \* reconciliation failed; recovery met a running fault, failed on
                \* a lease that had ended, or brought back the queue of a deleted
                \* link; a link was deleted before the boot pass reached it
    queueEdits, queueFaults

queueVars == <<link, chain, carrier, lease, stress, test, mode, watchdog, job, due, listed, alien,
               unrecorded, queueEdits, queueFaults>>

Off == "off"
NoLease == [target |-> "no lease"]
Free == [kind |-> "free"]
Restorers == {"half", "close", "watchdog", "boot"}
Unleased == {"link", "putback"} \cup Restorers
Bare == [eg |-> "none", ifb |-> FALSE, ing |-> "none", red |-> FALSE]
WholeChain(p) == [eg |-> p, ifb |-> TRUE, ing |-> p, red |-> TRUE]

\* effectiveQosConfig
Effective == IF link.on THEN link.qos ELSE Off

QueueInit ==
    /\ link \in [exists : {TRUE}, on : BOOLEAN, qos : Plans \cup {Off}]
    /\ chain = IF Effective = Off THEN Bare ELSE WholeChain(Effective)
    /\ carrier = TRUE
    /\ lease = NoLease /\ stress = "none"
    /\ test = "none" /\ mode = "outage" /\ watchdog = FALSE
    /\ job = Free /\ due = "nothing" /\ listed = NoLease
    /\ alien = FALSE /\ unrecorded = FALSE
    /\ queueEdits = 0 /\ queueFaults = 0

QueueEdit == queueEdits < MaxQueueEdits /\ queueEdits' = queueEdits + 1
QueueFault == queueFaults < MaxQueueFaults /\ queueFaults' = queueFaults + 1

-----------------------------------------------------------------------------
(* Ownership.                                                              *)

\* inspectOwnership: the three signatures together make the chain LinkGuard's.
ChainOwned == chain.eg \in Plans /\ chain.ifb /\ chain.ing \in Plans /\ chain.red
EgressOwned == IF chain.ifb THEN ChainOwned ELSE chain.eg \in Plans

\* validateApplyOwnership
MayApply(p) ==
    \/ p = Off \/ ChainOwned
    \/ (chain.eg = "none" \/ EgressOwned) /\ chain.ing = "none" /\ ~chain.red

\* restoreAfterNetem: the fault's own root, over a whole chain or over none.
OverNetem == chain.eg = "netem" /\ (chain.ing \in Plans) = chain.red
MayRestore(p) ==
    \/ chain.eg = "none" /\ MayApply(p)
    \/ chain.eg \in Plans /\ ChainOwned
    \/ OverNetem

Set(part, to) == <<[part |-> part, to |-> to]>>
When(c, s) == IF c THEN s ELSE <<>>

\* applyWithOwnership, disableWithOwnership and the order of their commands.
Writes(p) ==
    IF p = Off
    THEN IF chain.eg = "netem" /\ job.kind \in Restorers
         THEN When(chain.red, Set("red", FALSE)) \o Set("eg", "none")
              \o When(chain.ing \in Plans, Set("ing", "none") \o Set("ifb", FALSE))
         ELSE When(ChainOwned, Set("red", FALSE)) \o When(EgressOwned, Set("eg", "none"))
              \o When(ChainOwned, Set("ing", "none") \o Set("ifb", FALSE))
    ELSE When(chain.eg = "netem", Set("eg", "none")) \o Set("eg", p)
         \o When(~chain.ifb, Set("ifb", TRUE)) \o Set("ing", p) \o Set("red", TRUE)

\* An IFB nothing hangs from does no harm.
Fits == IF Effective = Off THEN [chain EXCEPT !.ifb = FALSE] = Bare ELSE chain = WholeChain(Effective)

\* Neither whole nor absent: the next inspection takes it for somebody else's.
Torn == IF chain.eg = "netem" THEN ~OverNetem
        ELSE ~ChainOwned /\ (chain.ing # "none" \/ chain.red \/ (chain.eg \in Plans /\ chain.ifb))

-----------------------------------------------------------------------------
(* Taking the lock.                                                        *)

JobFor(kind, goals) ==
    [kind |-> kind, at |-> "next", goals |-> goals, todo |-> <<>>, undo |-> <<>>,
     ok |-> TRUE, bad |-> FALSE, new |-> link, had |-> stress]

\* beginOperation: one lease for each interface, an earlier one refuses it.
Leases(kind, target, recovery, goals, new) ==
    /\ job = Free /\ lease = NoLease /\ MayApply(target)
    /\ lease' = [target |-> target, recovery |-> recovery,
                 before |-> IF ChainOwned THEN {chain.eg, chain.ing} ELSE {},
                 ifb |-> chain.ifb /\ ~ChainOwned]
    /\ job' = [JobFor(kind, goals) EXCEPT !.new = new]
    /\ UNCHANGED <<link, chain, carrier, stress, test, mode, watchdog, listed, alien, unrecorded, queueFaults>>

\* PUT /links/{id}/qos: ApplyCurrentAndPersist.
Update ==
    /\ QueueEdit /\ link.exists
    /\ \E p \in Plans \cup {Off} :
         LET target == IF link.on THEN p ELSE Off
         IN Leases("update", target, Effective, <<target>>, [link EXCEPT !.qos = p])
    /\ UNCHANGED due

\* BenchmarkCurrent: a phase without the chain, a phase with it.
Benchmark ==
    /\ QueueEdit /\ link.exists /\ Effective # Off
    /\ Leases("bench", Effective, Effective, <<Off, Effective>>, link)
    /\ UNCHANGED due

\* ApplyCurrent, from reconcileQoSOnBoot or after a link edit.  An error is
\* logged; nobody tries again.
ReconcileQueue ==
    /\ due = "reconcile" /\ due' = "nothing"
    /\ \/ link.exists /\ Leases("current", Effective, Effective, <<Effective>>, link)
       \/ /\ job = Free /\ (~link.exists \/ lease # NoLease \/ ~MayApply(Effective))
          /\ UNCHANGED <<link, chain, carrier, lease, stress, test, mode, watchdog, job, listed, alien,
                         unrecorded, queueFaults>>
    /\ UNCHANGED queueEdits

\* PUT and DELETE /links/{id}: no lease; the chain goes before the row does.
EditLink ==
    /\ QueueEdit /\ job = Free /\ link.exists
    /\ \E new \in {[link EXCEPT !.on = ~link.on], [exists |-> FALSE, on |-> FALSE, qos |-> Off]} :
         job' = [JobFor("link", IF link.qos # Off /\ ~new.on THEN <<Off>> ELSE <<>>) EXCEPT !.new = new]
    /\ UNCHANGED <<link, chain, carrier, lease, stress, test, mode, watchdog, due, listed, alien, unrecorded,
                   queueFaults>>

\* RecoverInterrupted reads the leases, and takes the lock afterwards.
ListLeases ==
    /\ due = "qos"
    /\ listed' = lease
    /\ due' = IF lease = NoLease THEN "stress" ELSE "lock"
    /\ UNCHANGED <<link, chain, carrier, lease, stress, test, mode, watchdog, job, alien, unrecorded,
                   queueEdits, queueFaults>>

\* recoverLeaseLocked takes the pieces whose signature the lease records.
Recorded(piece) == piece \in ({listed.target, listed.recovery} \ {Off}) \cup listed.before
Tears ==
    LET egFits == chain.eg = "none" \/ Recorded(chain.eg)
        ingFits == chain.ing = "none" \/ Recorded(chain.ing)
    IN [ok |-> egFits /\ ingFits,
        todo |-> When(chain.red, Set("red", FALSE))
                 \o When(egFits /\ chain.eg # "none", Set("eg", "none"))
                 \o When(egFits /\ ingFits /\ chain.ing # "none", Set("ing", "none"))
                 \o When(egFits /\ ingFits /\ chain.ifb /\ ~listed.ifb, Set("ifb", FALSE))]

RecoverLease ==
    /\ due = "lock" /\ due' = "recovering" /\ job = Free
    /\ job' = [JobFor("tear", IF listed.recovery = Off THEN <<>> ELSE <<listed.recovery>>)
                 EXCEPT !.at = "write", !.ok = Tears.ok, !.todo = Tears.todo]
    /\ unrecorded' = (unrecorded \/ chain.eg = "netem" \/ (~link.exists /\ listed.recovery # Off))
    /\ UNCHANGED <<link, chain, carrier, lease, stress, test, mode, watchdog, listed, alien, queueEdits,
                   queueFaults>>

\* Start: the durable lease first, then the run and its watchdog; lifecycleMu
\* keeps it and RecoverInterrupted apart.
StartTest ==
    /\ QueueEdit /\ link.exists /\ link.on /\ stress = "none"
    /\ test \notin {"inject", "fault", "close"} /\ due # "restoring"
    /\ mode' \in {"outage", "degrade"} /\ stress' = mode'
    /\ test' = "inject" /\ watchdog' = TRUE
    /\ UNCHANGED <<link, chain, carrier, lease, job, due, listed, alien, unrecorded, queueFaults>>

\* applyFault: the interface down, or a netem root over what is LinkGuard's.
Inject ==
    /\ test = "inject" /\ job = Free
    /\ \/ /\ mode = "outage" /\ carrier' = FALSE /\ test' = "fault" /\ UNCHANGED <<chain, queueFaults>>
       \/ /\ mode = "degrade" /\ (ChainOwned \/ (chain.eg = "none" /\ chain.ing = "none" /\ ~chain.red))
          /\ chain' = [chain EXCEPT !.eg = "netem"]
          /\ test' = "fault" /\ UNCHANGED <<carrier, queueFaults>>
       \/ QueueFault /\ test' = "close" /\ UNCHANGED <<chain, carrier>>
       \/ /\ mode = "degrade" /\ ~ChainOwned /\ (chain.eg # "none" \/ chain.ing # "none" \/ chain.red)
          /\ test' = "close" /\ UNCHANGED <<chain, carrier, queueFaults>>
    /\ UNCHANGED <<link, lease, stress, mode, watchdog, job, due, listed, alien, unrecorded, queueEdits>>

\* restoreInterface, at half of the test or when it is stopped (removeFault),
\* at its end (restore), when the watchdog fires, and at boot.
RestoreCalled(who) ==
    CASE who = "half"     -> test = "fault"
      [] who = "close"    -> test = "close"
      [] who = "watchdog" -> watchdog /\ test # "inject"
      [] who = "boot"     -> due = "stress" /\ stress # "none" /\ test \notin {"inject", "fault", "close"}

Restore(who) ==
    /\ RestoreCalled(who) /\ job = Free
    /\ mode' = IF who = "boot" THEN stress ELSE mode
    /\ \/ /\ job' = JobFor(who, <<IF link.exists THEN Effective ELSE Off>>)
          /\ carrier' = (carrier \/ mode' = "outage")
          /\ UNCHANGED queueFaults
       \/ /\ QueueFault /\ job' = [JobFor(who, <<>>) EXCEPT !.ok = FALSE]
          /\ UNCHANGED carrier
    /\ due' = IF who = "boot" THEN "restoring" ELSE due
    /\ watchdog' = (watchdog /\ who # "watchdog")
    /\ UNCHANGED <<link, chain, lease, stress, test, listed, alien, unrecorded, queueEdits>>

\* RecoverInterrupted finds no lease, or the lease of a running test.
NothingToRestore ==
    /\ due = "stress" /\ ~RestoreCalled("boot")
    /\ due' = "reconcile"
    /\ UNCHANGED <<link, chain, carrier, lease, stress, test, mode, watchdog, job, listed, alien, unrecorded,
                   queueEdits, queueFaults>>

-----------------------------------------------------------------------------
(* Holding the lock: one command after another.                            *)

JobOnly == UNCHANGED <<link, carrier, lease, stress, test, mode, watchdog, due, listed, alien, unrecorded, queueEdits>>

MayGo(p) == IF job.kind \in Restorers /\ mode = "degrade" THEN MayRestore(p) ELSE MayApply(p)

\* inspectOwnership and its verdict; a failed read stops the operation.
NextGoal ==
    /\ job # Free /\ job.at = "next"
    /\ IF ~job.ok \/ job.goals = <<>>
       THEN job' = [job EXCEPT !.at = "end"] /\ UNCHANGED queueFaults
       ELSE \/ /\ MayGo(Head(job.goals))
               /\ job' = [job EXCEPT !.at = "write", !.todo = Writes(Head(job.goals)), !.undo = <<>>,
                                     !.goals = Tail(@), !.kind = IF @ = "tear" THEN "recover" ELSE @]
               /\ UNCHANGED queueFaults
            \/ /\ IF MayGo(Head(job.goals)) THEN QueueFault ELSE UNCHANGED queueFaults
               /\ job' = [job EXCEPT !.at = "end", !.ok = FALSE]
    /\ UNCHANGED chain /\ JobOnly

Remember(w) == IF job.kind = "tear" THEN <<>> ELSE Set(w.part, chain[w.part]) \o job.undo

\* mutationJournal.run: the command, then the stage in the lease.  When either
\* fails what was done is undone, the last first.
RunCommand ==
    /\ job # Free /\ job.at = "write"
    /\ IF job.todo = <<>>
       THEN job' = [job EXCEPT !.at = "next"] /\ UNCHANGED <<chain, queueFaults>>
       ELSE LET w == Head(job.todo)
                done == [chain EXCEPT ![w.part] = w.to]
            IN \/ /\ chain' = done
                  /\ job' = [job EXCEPT !.todo = Tail(@), !.undo = Remember(w)]
                  /\ UNCHANGED queueFaults
               \/ /\ QueueFault
                  /\ \/ UNCHANGED chain /\ job' = [job EXCEPT !.at = "undo", !.ok = FALSE]
                     \/ /\ job.kind \in {"update", "current"}
                        /\ chain' = done
                        /\ job' = [job EXCEPT !.at = "undo", !.ok = FALSE, !.undo = Remember(w)]
    /\ JobOnly

\* compensate: an undo that fails does not stop the others; an IFB somebody
\* else's root hangs from is not removed.
Undo ==
    /\ job # Free /\ job.at = "undo"
    /\ IF job.undo = <<>>
       THEN job' = [job EXCEPT !.at = "end"] /\ UNCHANGED <<chain, queueFaults>>
       ELSE LET w == Head(job.undo)
                skipped == [job EXCEPT !.undo = Tail(@), !.bad = TRUE]
            IN IF w.part = "ifb" /\ ~w.to /\ chain.ing # "none"
               THEN job' = skipped /\ UNCHANGED <<chain, queueFaults>>
               ELSE \/ /\ chain' = [chain EXCEPT ![w.part] = w.to]
                       /\ job' = [job EXCEPT !.undo = Tail(@)]
                       /\ UNCHANGED queueFaults
                    \/ QueueFault /\ job' = skipped /\ UNCHANGED chain
    /\ JobOnly

-----------------------------------------------------------------------------
(* Releasing the lock.                                                     *)

Ends(kinds) == job # Free /\ job.at = "end" /\ job.kind \in kinds

\* clearOperation and clearCompensatedOperation: what could not be undone
\* keeps its lease.
CloseLease ==
    /\ job' = Free
    /\ \/ ~job.bad /\ lease' = NoLease /\ UNCHANGED queueFaults
       \/ job.bad /\ UNCHANGED <<lease, queueFaults>>
       \/ QueueFault /\ UNCHANGED lease

\* The lease stays, and the rollback runs under it.
Repairs == job' = JobFor("repair", <<lease.recovery>>) /\ UNCHANGED lease

\* Mutant: the row and the lease are two statements, the lease first.
PersistLeaseFirst ==
    \/ link' = job.new /\ lease' = NoLease /\ job' = Free /\ UNCHANGED queueFaults
    \/ QueueFault /\ lease' = NoLease /\ job' = Free /\ UNCHANGED link

\* UpdateLinkQoSIfCurrentAndClearOperation: the row and the lease together.
Persist ==
    \/ link' = job.new /\ lease' = NoLease /\ job' = Free /\ UNCHANGED queueFaults
    \/ QueueFault /\ Repairs /\ UNCHANGED link

EndOperation ==
    /\ \/ Ends({"update"}) /\ job.ok /\ Persist
       \/ Ends({"update"}) /\ ~job.ok /\ CloseLease /\ UNCHANGED link
       \/ Ends({"current"}) /\ CloseLease /\ UNCHANGED link
       \/ Ends({"bench"}) /\ Repairs /\ UNCHANGED <<link, queueFaults>>
       \/ Ends({"repair"}) /\ job.ok /\ CloseLease /\ UNCHANGED link
       \/ Ends({"repair"}) /\ ~job.ok /\ job' = Free /\ UNCHANGED <<link, lease, queueFaults>>
    /\ unrecorded' = (unrecorded \/ (job.kind = "current" /\ ~job.ok))
    /\ UNCHANGED <<chain, carrier, stress, test, mode, watchdog, due, listed, alien, queueEdits>>

\* Links.Update and Links.Delete; reconcileWANDerived follows.
EndLink ==
    /\ Ends({"link", "putback"})
    /\ \/ /\ job.kind = "link" /\ job.ok
          /\ link' = job.new /\ job' = Free /\ UNCHANGED queueFaults
       \/ /\ job.kind = "link" /\ job.ok /\ QueueFault
          /\ job' = IF link.qos # Off /\ ~job.new.on THEN JobFor("putback", <<Effective>>) ELSE Free
          /\ UNCHANGED link
       \/ (job.kind = "putback" \/ ~job.ok) /\ job' = Free /\ UNCHANGED <<link, queueFaults>>
    /\ due' = IF due = "nothing" /\ (link' # link \/ job.kind = "putback") THEN "reconcile" ELSE due
    /\ unrecorded' = (unrecorded \/ (job.bad /\ (Torn \/ (job.kind = "link" /\ ~Fits)))
                                \/ (link'.exists # link.exists /\ due # "nothing"))
    /\ UNCHANGED <<chain, carrier, lease, stress, test, mode, watchdog, listed, alien, queueEdits>>

\* recoverLeaseLocked clears the lease it read, and no other.
EndRecovery ==
    /\ Ends({"tear", "recover"})
    /\ \/ job.ok /\ lease' = (IF lease = listed THEN NoLease ELSE lease) /\ UNCHANGED queueFaults
       \/ ~job.ok /\ UNCHANGED <<lease, queueFaults>>
       \/ job.ok /\ QueueFault /\ UNCHANGED lease
    /\ job' = Free /\ due' = "stress" /\ listed' = NoLease
    /\ unrecorded' = (unrecorded \/ (~job.ok /\ lease # listed))
    /\ UNCHANGED <<link, chain, carrier, stress, test, mode, watchdog, alien, queueEdits>>

\* clearRecoveryLease clears the lease of its own test only.
LeaseOf == IF job.ok /\ job.had # "none" THEN "none" ELSE stress

\* Once the interface is restored; removeFault keeps the lease.
EndRestore ==
    /\ Ends(Restorers)
    /\ \/ stress' = (IF job.kind = "half" THEN stress ELSE LeaseOf) /\ UNCHANGED queueFaults
       \/ job.ok /\ QueueFault /\ UNCHANGED stress
    /\ test' = CASE job.kind = "half" -> "close"
                 [] job.kind = "close" -> "ended"
                 [] OTHER -> test
    /\ watchdog' = IF job.kind = "close" /\ job.ok /\ stress' = "none" THEN FALSE ELSE watchdog
    /\ due' = IF job.kind = "boot" THEN "reconcile" ELSE due
    /\ unrecorded' = (unrecorded \/ (job.bad /\ Torn))
    /\ job' = Free
    /\ UNCHANGED <<link, chain, carrier, lease, mode, listed, alien, queueEdits>>

-----------------------------------------------------------------------------
(* Deaths, the second pass of the provisioning, and another program.       *)

\* No lease says how to come back from where the holder of the lock is: it
\* takes none and has done a part, or it recovers from one that ended before
\* it took the lock.
Uncovered ==
    /\ job # Free
    /\ (job.kind \in Unleased /\ Torn) \/ (job.kind \in {"tear", "recover"} /\ lease # listed)

\* The process dies; when the machine goes with it, the kernel starts bare.
Dies ==
    /\ QueueFault
    /\ \/ UNCHANGED <<chain, carrier, alien>>
       \/ chain' = Bare /\ carrier' = TRUE /\ alien' = FALSE
    /\ unrecorded' = (unrecorded \/ (Uncovered /\ chain' = chain))
    /\ job' = Free /\ test' = "none" /\ watchdog' = FALSE
    /\ due' = "qos" /\ listed' = NoLease
    /\ UNCHANGED <<link, lease, stress, mode, queueEdits>>

\* provisionSystem runs again once the base is installed.
SecondPass ==
    /\ QueueEdit /\ due = "nothing" /\ due' = "qos"
    /\ UNCHANGED <<link, chain, carrier, lease, stress, test, mode, watchdog, job, listed, alien, unrecorded,
                   queueFaults>>

\* Between two operations: what arrives between the inspection and the command
\* is replaced by it.
ForeignArrives ==
    /\ QueueFault /\ job = Free
    /\ chain' = [chain EXCEPT !.eg = "foreign"] /\ alien' = TRUE
    /\ UNCHANGED <<link, carrier, lease, stress, test, mode, watchdog, job, due, listed, unrecorded, queueEdits>>

BootStep == ListLeases \/ RecoverLease \/ NothingToRestore \/ Restore("boot") \/ ReconcileQueue
LockStep == NextGoal \/ RunCommand \/ Undo \/ EndOperation \/ EndLink \/ EndRecovery \/ EndRestore
TestStep == Inject \/ Restore("half") \/ Restore("close")

QueueNext ==
    \/ Update \/ Benchmark \/ EditLink \/ StartTest
    \/ BootStep \/ LockStep \/ TestStep \/ Restore("watchdog")
    \/ Dies \/ SecondPass \/ ForeignArrives

-----------------------------------------------------------------------------
\* Type invariant.
QueueTypeOK ==
    /\ link \in [exists : BOOLEAN, on : BOOLEAN, qos : Plans \cup {Off}]
    /\ chain \in [eg : Plans \cup {"none", "netem", "foreign"}, ifb : BOOLEAN,
                  ing : Plans \cup {"none"}, red : BOOLEAN]
    /\ stress \in {"none", "outage", "degrade"}
    /\ test \in {"none", "inject", "fault", "close", "ended"}
    /\ due \in {"nothing", "qos", "lock", "recovering", "stress", "restoring", "reconcile"}
    /\ {carrier, watchdog, alien, unrecorded} \subseteq BOOLEAN

\* While nobody holds the lock, what the kernel has is what the row asks for,
\* or a lease that survives a death says how to get there, or the boot pass
\* has not ended: no operation, at whichever step it is cut, leaves a queue
\* that neither the row nor a lease explains.
MidwayIsRecorded ==
    job = Free /\ ~unrecorded /\ ~alien =>
        Fits \/ lease # NoLease \/ stress # "none" \/ due # "nothing"

\* A fault on the interface has a lease in the database at every instant, so
\* a death cannot make it permanent.
FaultHasLease == chain.eg = "netem" \/ ~carrier => stress # "none"

\* A root qdisc of another program is never replaced or removed.
ForeignIsKept == alien => chain.eg = "foreign"

\* After at most one failure the queue ends up being what the row asks for.
QueueSettles == <>[](Fits \/ unrecorded \/ alien)

\* After at most one failure the fault of a stress test leaves the interface.
FaultEnds == (chain.eg = "netem" \/ ~carrier) ~> (unrecorded \/ alien \/ (chain.eg # "netem" /\ carrier))
=============================================================================
