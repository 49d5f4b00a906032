---------------------- MODULE GroupRuleMergeProperties ----------------------
(* What a revert must put back, and what it must leave alone. *)
EXTENDS GroupRuleMerge

Reverted == stage \in {"target", "again"}
Target == snapshot

\* Every row of the panel has its place: a table has its shape, and two rows
\* never share a position after a revert, or chance would decide which of them
\* is evaluated first.
MergeTypeOK ==
    /\ snapshot \in Tables /\ applied \in Tables /\ db \in Tables /\ base \in Tables
    /\ count \in 0 .. MaxOthers + 1
    /\ stage \in {"armed", "written", "target", "again"}
    /\ Reverted =>
        /\ \A g, h \in Present(Target.groups) : g # h => Target.groups[g].pos # Target.groups[h].pos
        /\ \A r, s \in Present(Target.rules) : r # s => Target.rules[r].pos # Target.rules[s].pos

InputGroups(t) == {g \in GroupIds : GroupTouchesInput(t, g)}
InputRules(t)  == {r \in RuleIds : RuleTouchesInput(t, r)}

\* The same ids in the same order, whatever their positions are.
SameOrder(ids, rows1, rows2) ==
    \A i, j \in ids : i # j => (Before(rows1, i, j) <=> Before(rows2, i, j))

\* The input chain evaluates the groups it evaluated before the window, in the
\* same order, and each of them holds at least the rules it held, in order.
InputChainComesBack ==
    Reverted =>
        /\ InputGroups(Target) = InputGroups(base)
        /\ SameOrder(InputGroups(base), base.groups, Target.groups)
        /\ InputRules(base) \subseteq InputRules(Target)
        /\ SameOrder(InputRules(base), base.rules, Target.rules)

\* No revert leaves a rule whose group does not exist: it would be shown in the
\* panel and rendered in no chain.
NoOrphanRule ==
    Reverted => \A r \in Present(Target.rules) : Target.groups[Target.rules[r].group] # Absent

\* What other administrators wrote and never reached the input chain is as they
\* left it, unless it is a rule of a group the revert takes away.
OthersSurvive ==
    Reverted =>
        /\ \A g \in GroupIds :
             <<"group", g>> \in others /\ (\A t \in {base, applied, db} : ~ GroupTouchesInput(t, g)) =>
                IF db.groups[g] = Absent THEN Target.groups[g] = Absent
                ELSE Target.groups[g] # Absent /\ Target.groups[g].at = db.groups[g].at
        /\ \A r \in RuleIds :
             <<"rule", r>> \in others /\ (\A t \in {base, applied, db} : ~ RuleTouchesInput(t, r)) =>
                \/ Target.rules[r] = Absent
                     /\ (db.rules[r] = Absent \/ Target.groups[db.rules[r].group] = Absent)
                \/ Target.rules[r] # Absent /\ db.rules[r] # Absent
                     /\ Target.rules[r].at = db.rules[r].at

\* What the window alone changed is undone, when its outcome was recorded.
WindowIsUndone ==
    Reverted /\ applied # base =>
        /\ \A g \in GroupIds : <<"group", g>> \notin others =>
             IF base.groups[g] = Absent THEN Target.groups[g] = Absent
             ELSE Target.groups[g] # Absent /\ Target.groups[g].at = base.groups[g].at
        /\ \A r \in RuleIds : <<"rule", r>> \notin others =>
             IF base.rules[r] = Absent THEN Target.rules[r] = Absent
             ELSE Target.rules[r] # Absent /\ Target.rules[r].at = base.rules[r].at

=============================================================================
