---------------------------- MODULE MCMilestones ----------------------------
(* Model-checking instances of Milestones.                                    *)
EXTENDS Milestones
=============================================================================
