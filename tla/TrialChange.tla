----------------------------- MODULE TrialChange -----------------------------
(***************************************************************************)
(* What confirm-or-revert promises, and nothing of how: the guarded part of *)
(* the configuration changes only while a trial is open, and a trial closes *)
(* either because somebody accepted what is stored, or with the accepted    *)
(* configuration stored again.                                              *)
(***************************************************************************)

CONSTANTS Configurations, Initial

VARIABLES
    accepted, \* what an operator last accepted
    stored,   \* what the database says now
    open      \* a trial is running

trial == <<accepted, stored, open>>

Init == accepted = Initial /\ stored = Initial /\ open = FALSE

Open == ~ open /\ open' = TRUE /\ UNCHANGED <<accepted, stored>>

Change == open /\ stored' \in Configurations /\ UNCHANGED <<accepted, open>>

Accept == open /\ accepted' = stored /\ open' = FALSE /\ UNCHANGED stored

Close == open /\ stored = accepted /\ open' = FALSE /\ UNCHANGED <<accepted, stored>>

Next == Open \/ Change \/ Accept \/ Close

Spec == Init /\ [][Next]_trial

=============================================================================
