------------------------------ MODULE RowMerge ------------------------------
(***************************************************************************)
(* The three-way merge a revert applies, on one table of rows.             *)
(*                                                                         *)
(* A row is a firewall group or a firewall rule of the database; what the  *)
(* properties need of its contents is only which contents differ and which *)
(* of them decide about the input chain (the operator's own access).       *)
(* Positions and the group a rule belongs to are left to GroupRuleMerge,   *)
(* which models the same function on groups and rules.                     *)
(***************************************************************************)

CONSTANTS
    Rows,        \* ids of firewall groups and rules
    Values,      \* contents a row may have
    InputValues, \* the contents that hang on the input chain
    Absent       \* the row does not exist

ASSUME RowAssumption ==
    /\ InputValues \subseteq Values
    /\ Absent \notin Values

RowState == [Rows -> Values \cup {Absent}]

\* groupTouchesInput / ruleTouchesInput: an absent row touches nothing.
TouchesInput(v) == v \in InputValues

\* The part of a table that decides about access to the machine itself.
InputOf(rows) == [r \in Rows |-> IF TouchesInput(rows[r]) THEN rows[r] ELSE Absent]

\* Mutant: rows that reach the input chain are kept as well.
KeepConcurrentInput(base, applied, current, r) == applied[r] # current[r]

\* Somebody else wrote row r after the window's own mutation, and the row never
\* reached the input chain: the revert leaves it as it is.
KeepConcurrent(base, applied, current, r) ==
    /\ applied[r] # current[r]
    /\ ~ TouchesInput(base[r])
    /\ ~ TouchesInput(applied[r])
    /\ ~ TouchesInput(current[r])

\* revertMerge.merged(): something was preserved, so the target is not the snapshot.
Merges(base, applied, current) ==
    \E r \in Rows : KeepConcurrent(base, applied, current, r)

MergeRows(base, applied, current) ==
    [r \in Rows |-> IF KeepConcurrent(base, applied, current, r) THEN current[r] ELSE base[r]]

=============================================================================
