--------------------------- MODULE MCConfirmWindow ---------------------------
(* Small instances of ConfirmWindow for TLC. *)
EXTENDS ConfirmWindowProperties, TLC, FiniteSets

CONSTANTS q1, q2, fwd, inp, fA, fB, iA, absent, accept, drop, inputPolicy

MCRequests == {q1, q2}
MCRows == {fwd, inp}
MCInitRows == (fwd :> fA @@ inp :> absent)
MCInitSettings == [s \in Settings |-> accept]
\* A new group on the input chain, an edit of a forward group and its removal.
MCMutations == {<<inp, iA>>, <<fwd, fB>>}
MCPolicyMutations == {<<inputPolicy, drop>>, <<fwd, fB>>}

MCSymmetry == Permutations(MCRequests)
=============================================================================
