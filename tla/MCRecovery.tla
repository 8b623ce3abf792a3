------------------------------ MODULE MCRecovery ------------------------------
(* Model-checking instances of Recovery.                                      *)
EXTENDS Recovery, TLC

MCPlans == {[status |-> "needs_review", item |-> "completed", usage |-> 1, reserved |-> 1],
            [status |-> "planned", item |-> "planned", usage |-> 0, reserved |-> 0]}
Symmetry == Permutations(Codes) \cup Permutations(Values) \cup Permutations(Slots)
=============================================================================
