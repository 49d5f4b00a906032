--------------------------- MODULE GroupRuleMerge ---------------------------
(***************************************************************************)
(* mergeRevertTarget on groups and rules: what a revert puts back when      *)
(* somebody else wrote while the window was open.                           *)
(*                                                                          *)
(* ConfirmWindow abstracts a group or a rule to one row.  Here a rule lives *)
(* in a group, the group's scope says which chain it is reached from, and   *)
(* rows have positions, because the order is the meaning of a firewall.     *)
(*                                                                          *)
(* A behaviour arms a window (the snapshot), lets its mutation write and    *)
(* then lets windowless mutations of other administrators write: the ones   *)
(* whose guard was passed before the window was armed.  The revert then     *)
(* computes its target, once more for every attempt whose transaction       *)
(* failed.  Ids are numbered in the order the rows were created.            *)
(***************************************************************************)
EXTENDS Integers, FiniteSets, FiniteSetsExt

CONSTANTS
    GroupIds, RuleIds, \* numbers: a smaller id was created earlier
    System,            \* the system group: never edited, never deleted
    WindowKinds,       \* what the window's own mutation may be
    OtherKinds,        \* what the other administrators may do
    MaxPosition,       \* bound on the positions of the initial rows
    MaxOthers,         \* bound on mutations of other administrators
    Absent

Kinds == {"create group", "edit group", "scope", "delete group", "reorder groups",
          "create rule", "edit rule", "move rule", "delete rule", "reorder rules"}

ASSUME MergeAssumption ==
    /\ GroupIds \subseteq Nat /\ RuleIds \subseteq Nat
    /\ IsFiniteSet(GroupIds) /\ IsFiniteSet(RuleIds)
    /\ System \in GroupIds
    /\ WindowKinds \subseteq Kinds /\ OtherKinds \subseteq Kinds
    /\ MaxPosition \in Nat /\ MaxOthers \in Nat

Scopes == {"input", "forward"}
\* `at` is updated_at: it tells two versions of a row apart.
Group == [scope : Scopes, pos : Nat, at : Nat]
Rule  == [group : GroupIds, pos : Nat, at : Nat]

ASSUME AbsentAssumption == Absent \notin Group \cup Rule

Tables == [groups : [GroupIds -> Group \cup {Absent}], rules : [RuleIds -> Rule \cup {Absent}]]

VARIABLES
    snapshot, \* the tables before the window's mutation; later the stored target
    applied,  \* the tables as that mutation left them
    db,       \* the tables now
    base,     \* history: the snapshot as it was taken
    others,   \* history: ids other administrators wrote, after the window's mutation
    count,    \* mutations of others so far
    stage     \* "armed", "written", "target", "again"

vars == <<snapshot, applied, db, base, others, count, stage>>

-----------------------------------------------------------------------------
(* Tables in evaluation order *)

Present(rows) == {i \in DOMAIN rows : rows[i] # Absent}

\* ORDER BY position, created_at
Before(rows, i, j) ==
    \/ rows[i].pos < rows[j].pos
    \/ rows[i].pos = rows[j].pos /\ i < j

Rank(rows, i) == Cardinality({j \in Present(rows) : Before(rows, j, i)})

\* nextGroupPosition, and the MAX(position) + 1 of CreateFirewallRule.
NextPosition(rows) == Max({0} \cup {rows[i].pos + 1 : i \in Present(rows)})

GroupTouchesInput(t, g) == t.groups[g] # Absent /\ t.groups[g].scope = "input"

RuleTouchesInput(t, r) == t.rules[r] # Absent /\ GroupTouchesInput(t, t.rules[r].group)

-----------------------------------------------------------------------------
(* mergeRevertTarget *)

\* Mutant: groups of the input chain are kept as well.
KeepGroupInput(b, a, c, g) == a.groups[g] # c.groups[g]

KeepGroup(b, a, c, g) ==
    /\ a.groups[g] # c.groups[g]
    /\ \A t \in {b, a, c} : ~ GroupTouchesInput(t, g)

KeepRule(b, a, c, r) ==
    /\ a.rules[r] # c.rules[r]
    /\ \A t \in {b, a, c} : ~ RuleTouchesInput(t, r)

MergedGroups(b, a, c) ==
    [g \in GroupIds |-> IF KeepGroup(b, a, c, g) THEN c.groups[g] ELSE b.groups[g]]

\* A kept rule whose group does not survive is dropped; a rule that goes back to
\* the snapshot is not asked about its group.
MergedRules(b, a, c) ==
    [r \in RuleIds |->
        IF ~ KeepRule(b, a, c, r) THEN b.rules[r]
        ELSE IF c.rules[r] # Absent /\ MergedGroups(b, a, c)[c.rules[r].group] = Absent
             THEN Absent
             ELSE c.rules[r]]

Merged(b, a, c) ==
    \/ \E g \in GroupIds : KeepGroup(b, a, c, g)
    \/ \E r \in RuleIds : KeepRule(b, a, c, r)

\* renumberGroups, renumberRules
Renumber(rows) ==
    [i \in DOMAIN rows |-> IF rows[i] = Absent THEN Absent
                                               ELSE [rows[i] EXCEPT !.pos = Rank(rows, i)]]

RevertTarget(b, a, c) ==
    IF Merged(b, a, c)
    THEN [groups |-> Renumber(MergedGroups(b, a, c)), rules |-> Renumber(MergedRules(b, a, c))]
    ELSE b

-----------------------------------------------------------------------------
(* The mutations of the panel: the tables they leave, and whether their      *)
(* Window() asks for a window.                                               *)

Outcome(groups, rules, window) == [groups |-> groups, rules |-> rules, window |-> window]

Fresh(ids, tables) == {i \in ids : \A rows \in tables : \A j \in Present(rows) : j < i}

NewGroups(t) ==
    {Outcome([t.groups EXCEPT ![e[1]] = [scope |-> e[2], pos |-> NextPosition(t.groups), at |-> count + 1]],
             t.rules, e[2] = "input")
       : e \in Fresh(GroupIds, {snapshot.groups, applied.groups, db.groups}) \X Scopes}

\* UpdateGroup writes the whole row; the scope may change with it.
EditedGroups(t, kinds) ==
    {Outcome([t.groups EXCEPT ![e[1]].scope = e[2], ![e[1]].at = count + 1], t.rules,
             "input" \in {e[2], t.groups[e[1]].scope})
       : e \in {f \in (Present(t.groups) \ {System}) \X Scopes :
                  IF t.groups[f[1]].scope = f[2] THEN "edit group" \in kinds
                                                 ELSE "scope" \in kinds}}

\* DeleteFirewallGroup takes the group's rules along.
DeletedGroups(t) ==
    {Outcome([t.groups EXCEPT ![g] = Absent],
             [r \in RuleIds |-> IF t.rules[r] # Absent /\ t.rules[r].group = g THEN Absent ELSE t.rules[r]],
             t.groups[g].scope = "input")
       : g \in Present(t.groups) \ {System}}

\* Every row's index in a list of exactly the present ids.
Orders(rows) ==
    {order \in [Present(rows) -> 0 .. Cardinality(Present(rows)) - 1] :
        \A i, j \in Present(rows) : i # j => order[i] # order[j]}

Reordered(rows, order) ==
    [i \in DOMAIN rows |-> IF rows[i] = Absent THEN Absent
                                               ELSE [rows[i] EXCEPT !.pos = order[i], !.at = count + 1]]

\* inputOrderChanged: the index of some input row changes.
ReorderedGroups(t) ==
    {Outcome(Reordered(t.groups, order), t.rules,
             \E g \in Present(t.groups) : GroupTouchesInput(t, g) /\ order[g] # Rank(t.groups, g))
       : order \in Orders(t.groups)}

ReorderedRules(t) ==
    {Outcome(t.groups, Reordered(t.rules, order),
             \E r \in Present(t.rules) : RuleTouchesInput(t, r) /\ order[r] # Rank(t.rules, r))
       : order \in Orders(t.rules)}

NewRules(t) ==
    {Outcome(t.groups,
             [t.rules EXCEPT ![e[1]] = [group |-> e[2], pos |-> NextPosition(t.rules), at |-> count + 1]],
             GroupTouchesInput(t, e[2]))
       : e \in Fresh(RuleIds, {snapshot.rules, applied.rules, db.rules})
                \X (Present(t.groups) \ {System})}

EditedRules(t, kinds) ==
    {Outcome(t.groups, [t.rules EXCEPT ![e[1]].group = e[2], ![e[1]].at = count + 1],
             RuleTouchesInput(t, e[1]) \/ GroupTouchesInput(t, e[2]))
       : e \in {f \in Present(t.rules) \X (Present(t.groups) \ {System}) :
                  IF t.rules[f[1]].group = f[2] THEN "edit rule" \in kinds
                                                ELSE "move rule" \in kinds}}

DeletedRules(t) ==
    {Outcome(t.groups, [t.rules EXCEPT ![r] = Absent], RuleTouchesInput(t, r)) : r \in Present(t.rules)}

Outcomes(t, kinds) ==
    UNION { IF "create group" \in kinds THEN NewGroups(t) ELSE {},
            EditedGroups(t, kinds),
            IF "delete group" \in kinds THEN DeletedGroups(t) ELSE {},
            IF "reorder groups" \in kinds THEN ReorderedGroups(t) ELSE {},
            IF "create rule" \in kinds THEN NewRules(t) ELSE {},
            EditedRules(t, kinds),
            IF "delete rule" \in kinds THEN DeletedRules(t) ELSE {},
            IF "reorder rules" \in kinds THEN ReorderedRules(t) ELSE {} }

-----------------------------------------------------------------------------
(* The window and its revert *)

\* Tables the panel can have left: distinct positions, possibly with holes where
\* rows were deleted, and every rule in a group that exists.
InitTables ==
    {t \in [groups : [GroupIds -> [scope : Scopes, pos : 0 .. MaxPosition, at : {0}] \cup {Absent}],
            rules  : [RuleIds -> [group : GroupIds, pos : 0 .. MaxPosition, at : {0}] \cup {Absent}]] :
        /\ t.groups[System] # Absent /\ t.groups[System].scope = "forward"
        /\ \A i, j \in Present(t.groups) : i # j => t.groups[i].pos # t.groups[j].pos
        /\ \A i, j \in Present(t.rules) : i # j => t.rules[i].pos # t.rules[j].pos
        /\ \A r \in Present(t.rules) :
              t.rules[r].group # System /\ t.groups[t.rules[r].group] # Absent}

Init ==
    /\ db \in InitTables
    /\ snapshot = db /\ applied = db /\ base = db
    /\ others = {} /\ count = 0 /\ stage = "armed"

\* The mutation the window was armed for; its outcome is recorded by
\* MarkWindowApplied, or not, when that call failed or the process died.
WindowMutation ==
    /\ stage = "armed"
    /\ \E o \in Outcomes(db, WindowKinds) :
          /\ o.window
          /\ db' = [groups |-> o.groups, rules |-> o.rules]
    /\ applied' \in {db', snapshot}
    /\ count' = 1
    /\ stage' = "written"
    /\ UNCHANGED <<snapshot, base, others>>

\* Ids are tagged, groups and rules being numbered apart.
Written(t, t2) ==
    {<<"group", g>> : g \in {h \in GroupIds : t.groups[h] # t2.groups[h]}}
      \cup {<<"rule", r>> : r \in {s \in RuleIds : t.rules[s] # t2.rules[s]}}

\* A mutation that asks for no window: its guard was passed before this window
\* was armed, its groups were read after.
OtherMutation ==
    /\ stage = "written"
    /\ count <= MaxOthers
    /\ \E o \in Outcomes(db, OtherKinds) :
          /\ ~ o.window
          /\ db' = [groups |-> o.groups, rules |-> o.rules]
    /\ others' = others \cup Written(db, db')
    /\ count' = count + 1
    /\ UNCHANGED <<snapshot, applied, base, stage>>

\* revertTarget: a mixture replaces the snapshot before it is applied.
PrepareRevert ==
    /\ stage = "written"
    /\ snapshot' = RevertTarget(snapshot, applied, db)
    /\ stage' = "target"
    /\ UNCHANGED <<applied, db, base, others, count>>

\* The transaction failed, or the process died before it: the next attempt
\* starts from the stored snapshot.
PrepareAgain ==
    /\ stage = "target"
    /\ snapshot' = RevertTarget(snapshot, applied, db)
    /\ stage' = "again"
    /\ UNCHANGED <<applied, db, base, others, count>>

Next == WindowMutation \/ OtherMutation \/ PrepareRevert \/ PrepareAgain

Spec == Init /\ [][Next]_vars

=============================================================================
