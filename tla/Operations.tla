------------------------------ MODULE Operations ------------------------------
(* What the operation launcher promises to those who poll GET /api/runs and   *)
(* to the files of a project: the abstract specification that Runs.tla, with  *)
(* its locks, tables, threads and process, implements.                        *)
EXTENDS Naturals, FiniteSets

CONSTANTS Projects, Runs, MaxActive, Outcomes, None

VARIABLES
  serving,    \* requests are answered
  shown,      \* what each run's status reads
  acting,     \* which run changes which project now
  inHand,     \* how a run's action ended, until its status says so
  forgotten   \* runs whose status may read "running" for good: an answer of
              \* the database was lost

vars == <<serving, shown, acting, inHand, forgotten>>

Init ==
  /\ serving = TRUE
  /\ shown = [r \in Runs |-> "absent"]
  /\ acting = {}
  /\ inHand = [r \in Runs |-> None]
  /\ forgotten = {}

-----------------------------------------------------------------------------
(* A run is accepted: from now on its status can be polled.                   *)
Accept(r) ==
  /\ serving /\ shown[r] = "absent"
  /\ shown' = [shown EXCEPT ![r] = "running"]
  /\ forgotten' \in {forgotten, forgotten \cup {r}}
  /\ UNCHANGED <<serving, acting, inHand>>

(* It begins to change a project that no other run changes.                   *)
Act(r, p) ==
  /\ serving /\ shown[r] = "running" /\ inHand[r] = None /\ r \notin forgotten
  /\ \A a \in acting : a[1] # r /\ a[2] # p
  /\ Cardinality(acting) < MaxActive
  /\ acting' = acting \cup {<<r, p>>}
  /\ UNCHANGED <<serving, shown, inHand, forgotten>>

End(r, p, o) ==
  /\ <<r, p>> \in acting
  /\ acting' = acting \ {<<r, p>>}
  /\ inHand' = [inHand EXCEPT ![r] = o]
  /\ UNCHANGED <<serving, shown, forgotten>>

(* Its status tells how it ended, or the answer to that UPDATE is lost.       *)
Report(r) ==
  /\ inHand[r] # None
  /\ \/ shown' = [shown EXCEPT ![r] = inHand[r]] /\ UNCHANGED forgotten
     \/ forgotten' = forgotten \cup {r} /\ UNCHANGED shown
  /\ inHand' = [inHand EXCEPT ![r] = None]
  /\ UNCHANGED <<serving, acting>>

(* The process stops serving: what acts may go on, or is gone with it.        *)
Drain ==
  /\ serving /\ serving' = FALSE
  /\ UNCHANGED <<shown, acting, inHand, forgotten>>

Die ==
  /\ serving' = FALSE
  /\ acting' = {}
  /\ inHand' = [r \in Runs |-> None]
  /\ UNCHANGED <<shown, forgotten>>

(* It serves again when nothing of the old process acts any more.             *)
Restart ==
  /\ ~serving /\ acting = {}
  /\ serving' = TRUE
  /\ shown' = [r \in Runs |-> IF shown[r] = "running" THEN "interrupted" ELSE shown[r]]
  /\ forgotten' = {}
  /\ UNCHANGED <<acting, inHand>>

Next ==
  \/ \E r \in Runs : Accept(r) \/ Report(r)
  \/ \E r \in Runs, p \in Projects : Act(r, p) \/ \E o \in Outcomes : End(r, p, o)
  \/ Drain \/ Die \/ Restart

Safety == Init /\ [][Next]_vars

(* A poller sees every run end, unless an answer was lost or the process      *)
(* stopped serving meanwhile.                                                 *)
EveryRunEnds ==
  \A r \in Runs :
    shown[r] = "running" ~> (shown[r] # "running" \/ r \in forgotten \/ ~serving)

Spec == Safety /\ EveryRunEnds
=============================================================================
