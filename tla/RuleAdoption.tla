----------------------------- MODULE RuleAdoption -----------------------------
(* How the rules an admin already had become rows in groups (firewallrules,   *)
(* ImportOnce, EnsureSystemGroups and MigrateRulesIntoDefaultGroup): each     *)
(* runs once, behind a latch, at a boot that serves the panel meanwhile and   *)
(* goes on when a step fails. A reconciliation is one step here.              *)
EXTENDS Naturals, Sequences, FiniteSets

CONSTANTS
    PlainRules,       \* rules of the old chain the fields of a row can say
    RichRules,        \* rules they cannot: these are imported switched off
    LongestChain,     \* bound on the rules of the old chain
    MaxAdoptEdits,    \* bound on changes by the admin
    MaxAdoptFaults    \* bound on failures and restarts

ASSUME AdoptAssumption ==
    /\ PlainRules \cap RichRules = {}
    /\ LongestChain \in Nat /\ MaxAdoptEdits \in Nat /\ MaxAdoptFaults \in Nat

VARIABLES
    original,      \* history: the rules that were in force before the upgrade, in order
    ruleKernel,        \* user_rules, and what the forward chain reaches
    ruleFile,      \* the same as it was persisted last
    ruleRows,      \* firewall_rules, in order
    groupRows,     \* firewall_groups: the two blocks and "Minhas regras"
    blocksOff,     \* the blocks whose row is switched off
    latches,       \* the settings that say what has run once
    boot,          \* the boot pass
    dismissed,     \* history: rules the admin deleted
    wereOff,       \* history: blocks the admin has switched off
    adoptExcuse,   \* history: how a rule may have been left behind
    adoptEdits, adoptFaults

adoptVars == <<original, ruleKernel, ruleFile, ruleRows, groupRows, blocksOff, latches, boot, dismissed,
               wereOff, adoptExcuse, adoptEdits, adoptFaults>>

LegacyRules == PlainRules \cup RichRules
SystemBlocks == {"hosts", "destinations"}
NoBoot == [at |-> "serving", read |-> <<>>, whole |-> TRUE]
BootAt(a) == boot.at = a
BootGoes(a) == boot' = [boot EXCEPT !.at = a]
\* A step that fails is logged, and the boot goes on somewhere further.
BootFails(a) == boot' = [boot EXCEPT !.at = a, !.whole = FALSE]
Row(r, group) == [rule |-> r, on |-> r \in PlainRules, group |-> group]
RowsOf(rules, group) == [i \in DOMAIN rules |-> Row(rules[i], group)]
RulesOf(rows) == [i \in DOMAIN rows |-> rows[i].rule]

\* What a query ordered by position, or a rendering that skips, takes of a list.
\* (Positions and not SelectSeq, of which the provers know nothing.)
PlaceAmong(i, P) == Cardinality({j \in P : j <= i})
Nth(P, n) == CHOOSE i \in P : PlaceAmong(i, P) = n
Picked(s, P) == [n \in 1..Cardinality(P) |-> s[Nth(P, n)]]
Positions(s, members) == {i \in DOMAIN s : s[i] \in members}

AdoptEdit == adoptEdits < MaxAdoptEdits /\ adoptEdits' = adoptEdits + 1
AdoptFault == adoptFaults < MaxAdoptFaults /\ adoptFaults' = adoptFaults + 1
NoAdoptFault == UNCHANGED adoptFaults

\* The chain of a machine before the upgrade, or of a fresh installation.
OldKernel(chain) == [chain |-> chain, has |-> TRUE, jumps |-> TRUE, blocks |-> SystemBlocks, rules |-> <<>>]
Lists == UNION {[1..n -> LegacyRules] : n \in 0..LongestChain}
OldChains == {s \in Lists : \A i, j \in DOMAIN s : i # j => s[i] # s[j]}

AdoptInit ==
    /\ original \in OldChains
    /\ \/ ruleKernel = OldKernel(original) /\ ruleRows = <<>> /\ latches = {}
       \/ /\ ruleKernel = OldKernel(Picked(original, Positions(original, PlainRules)))
          /\ ruleRows = RowsOf(original, "none") /\ latches = {"imported"}
    /\ ruleFile = ruleKernel
    /\ groupRows = {} /\ blocksOff = {}
    /\ boot = [NoBoot EXCEPT !.at = "system"]
    /\ dismissed = {} /\ wereOff = {} /\ adoptExcuse = {}
    /\ adoptEdits = 0 /\ adoptFaults = 0

-----------------------------------------------------------------------------
\* StoredGroups: a rule whose group is not there is left out.
RenderedGroups ==
    LET shown == {i \in DOMAIN ruleRows' : ruleRows'[i].on /\ ruleRows'[i].group \in groupRows'}
    IN [ruleKernel EXCEPT !.jumps = FALSE, !.blocks = (SystemBlocks \cap groupRows') \ blocksOff',
                          !.rules = Picked(RulesOf(ruleRows'), shown)]

\* ensureSystemGroupsPresent: both blocks have their rows, switched on or off.
SystemGroupsPresent == SystemBlocks \subseteq groupRows'

\* Reconcile: all of the rows, or nothing; the boot file may fail to follow.
Reconciles ==
    /\ SystemGroupsPresent
    /\ ruleKernel' = RenderedGroups
    /\ \/ ruleFile' = RenderedGroups /\ NoAdoptFault
       \/ AdoptFault /\ UNCHANGED ruleFile

Refused ==
    /\ UNCHANGED <<ruleKernel, ruleFile>>
    /\ IF SystemGroupsPresent THEN AdoptFault ELSE NoAdoptFault

-----------------------------------------------------------------------------
\* EnsureSystemGroups: both rows and the latch, in one transaction.
CreatesBlocks == groupRows' = groupRows \cup SystemBlocks /\ latches' = latches \cup {"system"}

CreatesSystemGroups ==
    /\ BootAt("system")
    /\ \/ /\ "system" \in latches
          /\ UNCHANGED <<groupRows, latches>> /\ BootGoes("import") /\ NoAdoptFault
       \/ /\ "system" \notin latches
          /\ CreatesBlocks /\ BootGoes("import") /\ NoAdoptFault
       \/ AdoptFault /\ BootFails("import") /\ UNCHANGED <<groupRows, latches>>
    /\ UNCHANGED <<original, ruleKernel, ruleFile, ruleRows, blocksOff, dismissed, wereOff, adoptExcuse, adoptEdits>>

\* Mutant: what has been imported is told by the table, not by the latch.
ImportedByTable == ruleRows # <<>>

\* ImportOnce asks the latch before it looks at the chain.
AlreadyImported == "imported" \in latches

ReadsChain ==
    /\ BootAt("import")
    /\ \/ AlreadyImported /\ BootGoes("migrate") /\ NoAdoptFault
       \/ /\ ~AlreadyImported /\ ruleKernel.has
          /\ boot' = [boot EXCEPT !.at = "importWrite", !.read = ruleKernel.chain]
          /\ NoAdoptFault
       \/ ~AlreadyImported /\ ~ruleKernel.has /\ BootFails("migrate") /\ NoAdoptFault
       \/ AdoptFault /\ BootFails("migrate")
    /\ UNCHANGED <<original, ruleKernel, ruleFile, ruleRows, groupRows, blocksOff, latches, dismissed, wereOff,
                   adoptExcuse, adoptEdits>>

\* ImportFirewallRules: every row and the latch, in one transaction.
ImportsRows ==
    /\ BootAt("importWrite")
    /\ \/ /\ ruleRows' = ruleRows \o RowsOf(boot.read, "none")
          /\ latches' = latches \cup {"imported"}
          /\ boot' = [boot EXCEPT !.at = "importApply", !.read = <<>>]
          /\ NoAdoptFault
       \/ AdoptFault /\ boot' = [boot EXCEPT !.at = "migrate", !.read = <<>>, !.whole = FALSE]
          /\ UNCHANGED <<ruleRows, latches>>
    /\ UNCHANGED <<original, ruleKernel, ruleFile, groupRows, blocksOff, dismissed, wereOff, adoptExcuse, adoptEdits>>

\* The three reconciliations of the boot; after the one of the migration fails
\* the old chain is left where it is.
BootReconciles ==
    /\ boot.at \in {"importApply", "migrateApply", "retryApply", "last"}
    /\ UNCHANGED <<ruleRows, groupRows, blocksOff>>
    /\ \/ /\ Reconciles
          /\ BootGoes(CASE BootAt("importApply") -> "migrate"
                        [] BootAt("last") -> "serving"
                        [] OTHER -> "retire")
       \/ /\ Refused
          /\ BootFails(CASE BootAt("importApply") -> "migrate"
                         [] BootAt("migrateApply") -> "last"
                         [] BootAt("retryApply") -> "retire"
                         [] OTHER -> "serving")
    /\ UNCHANGED <<original, latches, dismissed, wereOff, adoptExcuse, adoptEdits>>

\* MigrateRulesIntoDefaultGroup counts the rules without a group.
CountsOrphans ==
    LET orphans == {i \in DOMAIN ruleRows : ruleRows[i].group = "none"} IN
    /\ BootAt("migrate")
    /\ \/ "grouped" \in latches /\ BootGoes("retryApply") /\ UNCHANGED latches /\ NoAdoptFault
       \/ /\ "grouped" \notin latches /\ orphans = {}
          /\ latches' = latches \cup {"grouped"}
          /\ BootGoes("retire") /\ NoAdoptFault
       \/ "grouped" \notin latches /\ orphans # {} /\ BootGoes("migrateWrite") /\ UNCHANGED latches /\ NoAdoptFault
       \/ AdoptFault /\ BootFails("last") /\ UNCHANGED latches
    /\ adoptExcuse' = IF "grouped" \in latches' /\ "imported" \notin latches THEN adoptExcuse \cup {"stranded"}
                      ELSE adoptExcuse
    /\ UNCHANGED <<original, ruleKernel, ruleFile, ruleRows, groupRows, blocksOff, dismissed, wereOff, adoptEdits>>

\* MigrateRulesIntoGroup: the group, its rules and the latch, in one transaction.
CreatesGroup == groupRows' = groupRows \cup {"mine"}

AdoptsOrphans ==
    /\ BootAt("migrateWrite")
    /\ \/ /\ CreatesGroup
          /\ ruleRows' = [i \in DOMAIN ruleRows |-> IF ruleRows[i].group = "none" THEN [ruleRows[i] EXCEPT !.group = "mine"]
                                                    ELSE ruleRows[i]]
          /\ latches' = latches \cup {"grouped"}
          /\ BootGoes("migrateApply") /\ NoAdoptFault
       \/ AdoptFault /\ BootFails("last") /\ UNCHANGED <<ruleRows, groupRows, latches>>
    /\ UNCHANGED <<original, ruleKernel, ruleFile, blocksOff, dismissed, wereOff, adoptExcuse, adoptEdits>>

\* DeleteUnreferencedChain: nft refuses it while the forward chain jumps there.
Unreferenced == ruleKernel.has /\ ~ruleKernel.jumps

\* removeLegacyUserRulesChain, in the boot pass.
RetiresChain ==
    /\ BootAt("retire")
    /\ \/ /\ Unreferenced
          /\ ruleKernel' = [ruleKernel EXCEPT !.has = FALSE, !.chain = <<>>]
          /\ adoptExcuse' = IF "imported" \in latches THEN adoptExcuse ELSE adoptExcuse \cup {"lost"}
          /\ NoAdoptFault
       \/ ~Unreferenced /\ UNCHANGED <<ruleKernel, adoptExcuse>> /\ NoAdoptFault
       \/ Unreferenced /\ AdoptFault /\ UNCHANGED <<ruleKernel, adoptExcuse>>
    /\ BootGoes("last")
    /\ UNCHANGED <<original, ruleFile, ruleRows, groupRows, blocksOff, latches, dismissed, wereOff, adoptEdits>>

\* The process dies, or the machine with it; the boot pass starts over.
AdoptRestart ==
    /\ AdoptFault
    /\ ruleKernel' \in {ruleKernel, ruleFile}
    /\ boot' = [NoBoot EXCEPT !.at = "system"]
    /\ UNCHANGED <<original, ruleFile, ruleRows, groupRows, blocksOff, latches, dismissed, wereOff, adoptExcuse,
                   adoptEdits>>

-----------------------------------------------------------------------------
\* The panel, served all the while: a rule or the group of the admin is
\* deleted, a block is switched; then the rows are reconciled, or it fails.
Deletes(lost) ==
    /\ ruleRows' = Picked(ruleRows, {i \in DOMAIN ruleRows : ruleRows[i].rule \notin lost})
    /\ dismissed' = dismissed \cup lost

AdminEdits ==
    /\ AdoptEdit
    /\ \/ /\ \E i \in DOMAIN ruleRows : Deletes({ruleRows[i].rule})
          /\ UNCHANGED <<groupRows, blocksOff, wereOff>>
       \/ /\ "mine" \in groupRows
          /\ groupRows' = groupRows \ {"mine"}
          /\ Deletes({ruleRows[i].rule : i \in {j \in DOMAIN ruleRows : ruleRows[j].group = "mine"}})
          /\ UNCHANGED <<blocksOff, wereOff>>
       \/ \E b \in SystemBlocks \cap groupRows :
            /\ blocksOff' = IF b \in blocksOff THEN blocksOff \ {b} ELSE blocksOff \cup {b}
            /\ wereOff' = wereOff \cup {b}
            /\ UNCHANGED <<ruleRows, groupRows, dismissed>>
    /\ \/ Reconciles /\ UNCHANGED boot
       \/ Refused /\ boot' = [boot EXCEPT !.whole = FALSE]
    /\ UNCHANGED <<original, latches, adoptExcuse>>

\* machineLocalSettingKeys: the latches a backup of another machine brings.
TravellingLatches == {"system", "grouped"}

\* ApplyRestore writes the settings of the file over those of the machine.
BringsLatches == latches' = latches \cup TravellingLatches

\* Apply, of the backup: settings of another machine, and none of its rules.
RestoresBackup ==
    /\ AdoptEdit
    /\ BringsLatches
    /\ adoptExcuse' = IF TravellingLatches \cap {"system", "grouped"} \subseteq latches THEN adoptExcuse
                      ELSE adoptExcuse \cup {"stranded"}
    /\ UNCHANGED <<original, ruleKernel, ruleFile, ruleRows, groupRows, blocksOff, boot, dismissed, wereOff, adoptFaults>>

AdoptNext ==
    \/ CreatesSystemGroups \/ ReadsChain \/ ImportsRows \/ BootReconciles \/ CountsOrphans \/ AdoptsOrphans
    \/ RetiresChain \/ AdoptRestart \/ AdminEdits \/ RestoresBackup

AdoptSpec == AdoptInit /\ [][AdoptNext]_adoptVars

-----------------------------------------------------------------------------
\* Type invariant of the adoption of the old rules.
AdoptTypeOK ==
    /\ \A k \in {ruleKernel, ruleFile} :
         /\ k.chain \in OldChains /\ k.has \in BOOLEAN /\ k.jumps \in BOOLEAN
         /\ k.blocks \subseteq SystemBlocks /\ k.rules \in OldChains
    /\ \A i \in DOMAIN ruleRows : ruleRows[i].rule \in LegacyRules /\ ruleRows[i].group \in {"none", "mine"}
    /\ groupRows \subseteq SystemBlocks \cup {"mine"} /\ blocksOff \subseteq SystemBlocks
    /\ latches \subseteq {"system", "imported", "grouped"}
    /\ boot.at \in {"serving", "system", "import", "importWrite", "importApply", "migrate", "migrateWrite",
                    "migrateApply", "retryApply", "retire", "last"}

Times(r) == Cardinality({i \in DOMAIN ruleRows : ruleRows[i].rule = r})

\* "nada é perdido": a rule that was in force is in the old chain or in one row,
\* until the admin deletes it, which is for good; whatever fails or dies at the
\* boots between, unless the old chain went before it was ever read.
RulesAreKept ==
    \A i \in DOMAIN original :
      LET r == original[i]
          inChain == \E j \in DOMAIN ruleKernel.chain : ruleKernel.chain[j] = r
      IN IF r \in dismissed THEN Times(r) = 0
         ELSE Times(r) = 1 \/ (Times(r) = 0 /\ inChain) \/ "lost" \in adoptExcuse

\* A migrated firewall behaves as before: after a boot that went well the rules
\* a row can say are in force in their order, but for those the admin deleted.
RulesStayInForce ==
    (BootAt("serving") /\ boot.whole /\ adoptExcuse = {}) =>
      (IF ruleKernel.jumps THEN ruleKernel.chain ELSE ruleKernel.rules)
        = Picked(original, Positions(original, PlainRules \ dismissed))

\* The forward chain is never rebuilt without a block nobody switched off, and
\* a boot never finds a file that was.
BlocksStay == \A b \in SystemBlocks : b \in wereOff \/ (b \in ruleKernel.blocks /\ b \in ruleFile.blocks)

=============================================================================
