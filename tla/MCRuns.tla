------------------------------- MODULE MCRuns -------------------------------
(* Three runs on three projects race for two slots and two threads, against   *)
(* one handler that takes a lock itself.                                      *)
EXTENDS Runs

CONSTANTS p1, p2, p3, r1, r2, r3

(* Of behaviours that differ only in names one: ids are used in order, and    *)
(* the first run is not on the last project.  And bounds: the handler takes   *)
(* one project only, and only the first run may be of the kind that cannot be *)
(* cancelled.  None of it restricts a fair action.                            *)
Narrow ==
  /\ pc[r1] = "unused" => pc'[r2] = "unused"
  /\ pc[r2] = "unused" => pc'[r3] = "unused"
  /\ \A r \in {r2, r3} : kind'[r] # "unstoppable"
  /\ project'[r1] # p3
  /\ \A p \in {p2, p3} : lock'[p] \notin Edits
=============================================================================
