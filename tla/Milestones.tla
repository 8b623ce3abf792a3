----------------------------- MODULE Milestones -----------------------------
(* Resumable milestones (backend/app/features.py): one feature_plans row, the *)
(* copy of it that execute() works on, the usage meter (usage.Meter) and the  *)
(* checkpoints that agent.build() writes around each model request.  A run    *)
(* may raise at any statement, any UPDATE may be lost before or after its     *)
(* commit (db._attempt), an answer may never come, and the process may die.   *)
(* Tokens, requests and dollars are one quantity, the cost.                   *)
EXTENDS Naturals, FiniteSets, FiniteSetsExt

CONSTANTS
  N,            \* milestones of the plan (validate(): 1 to 12)
  Limits,       \* budgets a user may grant when starting or resuming
  Estimates,    \* costs a request may reserve (Meter.allowance)
  Excess,       \* by how much a request may cost more than its estimate
  Attempts,     \* providers.ask: 3 posts for one request
  MaxSteps,     \* bound on the requests of one milestone and run
                \* (MAX_STEPS = 16 per build, 1 + max_repairs builds)
  MaxStarts     \* bound on the runs of the plan

ASSUME MilestonesAssumption ==
  /\ N \in Nat \ {0} /\ Limits \subseteq Nat /\ Estimates \subseteq Nat \ {0}
  /\ Excess \in Nat /\ Attempts \in Nat \ {0} /\ MaxSteps \in Nat /\ MaxStarts \in Nat

Items == 1..N

VARIABLES
  row,          \* the feature_plans row
  mem,          \* execute()'s `plan`; its usage is the meter
  pc,           \* where the run is, see Steps
  item,         \* `current`, 0 for None
  resuming,     \* session['restrict_commands']
  limit,        \* limits.budget_usd of this run
  steps, tries, \* requests of this milestone, posts of this request
  \* history, for the properties only:
  billed,       \* what the provider charged for requests, repeated posts aside
  beyond,       \* what requests cost beyond their estimates, together
  asked,        \* sum of all estimates reserved
  granted,      \* the largest budget granted so far
  by,           \* the runs that gave the sandbox shell commands for a milestone
  starts

memory  == <<item, resuming, limit, steps, tries>>
history == <<billed, beyond, asked, granted, by, starts>>
vars == <<row, mem, pc, memory, history>>

(* "starting" writes status running; "next" looks for the next milestone;     *)
(* "asking" to "acting" is agent.build(); "completing" writes the milestone's *)
(* result; "raised" and "paused" are the except clause.                       *)
Building == {"asking", "sending", "settling", "acting"}
Steps == Building \cup {"idle", "starting", "next", "completing", "raised",
                        "paused", "down"}

Statuses == {"ready", "running", "needs_review", "awaiting_packages", "completed"}
Plan == [status : Statuses,
         items : [Items -> {"pending", "running", "needs_review", "completed"}],
         usage : Nat,           \* recorded cost
         reservation : Nat]     \* checkpoint.reservation, 0 for none

TypeOK ==
  /\ row \in Plan /\ mem \in Plan
  /\ pc \in Steps /\ item \in Items \cup {0} /\ resuming \in BOOLEAN
  /\ limit \in Limits \cup {0} /\ steps \in 0..MaxSteps /\ tries \in 0..Attempts
  /\ billed \in Nat /\ beyond \in Nat /\ asked \in Nat
  /\ granted \in Limits \cup {0}
  /\ by \in [Items -> SUBSET (1..MaxStarts)]
  /\ starts \in 0..MaxStarts

Blank == [status |-> "ready", items |-> [i \in Items |-> "pending"],
          usage |-> 0, reservation |-> 0]

(* create(): the row as the user's plan is saved.                             *)
Init ==
  /\ row = Blank /\ mem = Blank
  /\ pc = "idle" /\ item = 0 /\ resuming = FALSE /\ limit = 0
  /\ steps = 0 /\ tries = 0
  /\ billed = 0 /\ beyond = 0 /\ asked = 0 /\ granted = 0
  /\ by = [i \in Items |-> {}] /\ starts = 0

-----------------------------------------------------------------------------
(* db.query() never repeats a statement: when it raises, its answer may have  *)
(* been lost before or after the commit.                                      *)
Uncertain(m) == {m, row}

(* persist(plan): the whole row in one UPDATE.                                *)
Persist(m, then, else) ==
  /\ mem' = m
  /\ \/ row' = m /\ pc' = then
     \/ row' \in Uncertain(m) /\ pc' = else

(* A definition named *Fault is no part of the specification: it is what a    *)
(* slip in the code would make of its namesake, and breaks a property at the  *)
(* end of the module.                                                         *)

(* meter_from(): what an earlier run spent, and what it had in flight.        *)
CarriedFault(m) == [m EXCEPT !.usage = @ + m.reservation]
Carried(m) == [m EXCEPT !.usage = @ + m.reservation, !.reservation = 0]

(* execute() refuses a plan that runs or is complete, and one whose source or *)
(* pricing changed or that was not reviewed, which changes nothing.           *)
Startable == row.status \notin {"running", "completed"}

(* start_feature_plan() with the budget the user grants, and execute() up to  *)
(* its first persist.                                                         *)
Start(l) ==
  /\ pc = "idle" /\ starts < MaxStarts /\ Startable
  /\ IF row.reservation > 0
     THEN Persist(Carried(row), "starting", "idle")
     ELSE mem' = row /\ pc' = "starting" /\ UNCHANGED row
  /\ limit' = l /\ granted' = IF l > granted THEN l ELSE granted
  /\ starts' = starts + 1
  /\ item' = 0 /\ resuming' = FALSE /\ steps' = 0 /\ tries' = 0
  /\ UNCHANGED <<billed, beyond, asked, by>>

(* status running, still outside the try.                                     *)
Begin ==
  /\ pc = "starting"
  /\ Persist([mem EXCEPT !.status = "running"], "next", "idle")
  /\ UNCHANGED <<memory, history>>

(* The next milestone that is not completed: snapshot, then persist.          *)
Remaining == {i \in Items : mem.items[i] # "completed"}

ReopensFault(i) == mem.items[i] = "needs_review"
Reopens(i)      == mem.items[i] # "pending"         \* `resuming`

OpenItem ==
  /\ pc = "next" /\ Remaining # {}
  /\ LET i == Min(Remaining)
         m == [mem EXCEPT !.items[i] = "running"]
     IN  /\ item' = i
         /\ resuming' = Reopens(i)
         /\ \/ Persist(m, "asking", "raised")
            \/ mem' = m /\ pc' = "raised" /\ UNCHANGED row  \* snapshot
  /\ steps' = 0 /\ tries' = 0
  /\ UNCHANGED <<limit, history>>

(* All of them are: the last persist.                                         *)
Complete ==
  /\ pc = "next" /\ Remaining = {}
  /\ Persist([mem EXCEPT !.status = "completed"], "idle", "idle")
  /\ UNCHANGED <<memory, history>>

-----------------------------------------------------------------------------
(* agent.build().  Meter.allowance: the estimate of the prompt and of the     *)
(* longest answer fits what is left; checkpoint('request_started').           *)
AffordableFault(e) == mem.usage <= limit
Affordable(e)      == mem.usage + e <= limit
StepsLeft == steps < MaxSteps                       \* for step in range(MAX_STEPS)

Ask(e) ==
  /\ pc = "asking" /\ StepsLeft /\ Affordable(e)
  /\ steps' = steps + 1 /\ tries' = 1
  /\ asked' = asked + e
  /\ Persist([mem EXCEPT !.reservation = e], "sending", "raised")
  /\ UNCHANGED <<item, resuming, limit, billed, beyond, granted, by,
                 starts>>

(* providers.ask: a post fails and is repeated.  What it was charged for is   *)
(* recorded nowhere, and no property counts it (README, "Differences").       *)
Retry ==
  /\ pc = "sending" /\ tries < Attempts
  /\ tries' = tries + 1
  /\ UNCHANGED <<row, mem, pc, item, resuming, limit, steps, billed, beyond,
                 asked, granted, by, starts>>

(* What the provider charges for the request's last post.                     *)
Charge(c) ==
  /\ billed' = billed + c
  /\ beyond' = IF c > mem.reservation THEN beyond + (c - mem.reservation) ELSE beyond
  /\ UNCHANGED <<asked, granted, by, starts>>

Costs == 0..(mem.reservation + Excess)

(* The answer tells its cost, and Meter.record adds it ...                    *)
Answer ==
  /\ pc = "sending"
  /\ \E c \in Costs : /\ Charge(c)
                      /\ mem' = [mem EXCEPT !.usage = @ + c, !.reservation = 0]
  /\ pc' = "settling"
  /\ UNCHANGED <<row, memory>>

(* ... or no answer comes, or one without usage: charged or not, it raises    *)
(* before the reservation is replaced.                                        *)
NoAnswer ==
  /\ pc = "sending"
  /\ \E c \in Costs : Charge(c)
  /\ pc' = "raised"
  /\ UNCHANGED <<row, mem, memory>>

(* checkpoint('request_settled'), also where Meter.record found the budget    *)
(* exceeded and raises.                                                       *)
Settle ==
  /\ pc = "settling"
  /\ Persist(mem, IF mem.usage > limit THEN "raised" ELSE "acting", "raised")
  /\ UNCHANGED <<memory, history>>

(* run_command, unless the milestone is being resumed: checkpoint             *)
(* ('tool_started') first; if that raises the tool is not run.                *)
RunCommand ==
  /\ pc = "acting" /\ ~resuming
  /\ row' = mem
  /\ by' = [by EXCEPT ![item] = @ \cup {starts}]
  /\ UNCHANGED <<mem, pc, memory, billed, beyond, asked, granted,
                 starts>>

(* The next step of the build, or a repair after a failed validation.         *)
AskAgain ==
  /\ pc = "acting"
  /\ pc' = "asking"
  /\ UNCHANGED <<row, mem, memory, history>>

(* A package request waits for the user (ApprovalRequired).                   *)
Pause ==
  /\ pc = "acting"
  /\ pc' = "paused"
  /\ UNCHANGED <<row, mem, memory, history>>

(* builder.run returned: every check passed on the current source.            *)
FinishItem ==
  /\ pc = "acting"
  /\ mem' = [mem EXCEPT !.items[item] = "completed"]
  /\ pc' = "completing"
  /\ UNCHANGED <<row, memory, billed, beyond, asked, granted, by,
                 starts>>

(* checkpoint('milestone_completed').                                         *)
SaveItem ==
  /\ pc = "completing"
  /\ Persist(mem, "next", "raised")
  /\ UNCHANGED <<memory, history>>

(* Any other statement raises: cancelled, out of budget or steps, a failing   *)
(* snapshot, event, message, tool or validation.                              *)
Raise ==
  /\ pc \in {"next", "asking", "acting", "completing"}
  /\ pc' = "raised"
  /\ UNCHANGED <<row, mem, memory, history>>

(* The except clause ...                                                      *)
ReviewedFault == IF item = 0 THEN mem ELSE [mem EXCEPT !.items[item] = "needs_review"]
Reviewed ==
  IF item = 0 \/ mem.items[item] = "completed" THEN mem
  ELSE [mem EXCEPT !.items[item] = "needs_review"]

(* ... and persist in `finally`.                                              *)
Abandon ==
  /\ pc \in {"raised", "paused"}
  /\ Persist([Reviewed EXCEPT !.status = IF pc = "paused" THEN "awaiting_packages"
                                                          ELSE "needs_review"],
             "idle", "idle")
  /\ UNCHANGED <<memory, history>>

-----------------------------------------------------------------------------
(* The process dies, at any time ...                                          *)
Crash ==
  /\ pc # "down"
  /\ pc' = "down" /\ mem' = Blank
  /\ item' = 0 /\ resuming' = FALSE /\ limit' = 0 /\ steps' = 0 /\ tries' = 0
  /\ UNCHANGED <<row, history>>

(* ... and starts again: db.init() marks the plan it left running.            *)
FoundStatus == IF row.status = "running" THEN "needs_review" ELSE row.status

Restart ==
  /\ pc = "down"
  /\ pc' = "idle"
  /\ row' = [row EXCEPT !.status = FoundStatus]
  /\ UNCHANGED <<mem, memory, history>>

-----------------------------------------------------------------------------
Next ==
  \/ \E l \in Limits : Start(l)
  \/ Begin \/ OpenItem \/ Complete
  \/ \E e \in Estimates : Ask(e)
  \/ Retry \/ Answer \/ NoAnswer \/ Settle \/ RunCommand
  \/ AskAgain \/ Pause \/ FinishItem \/ SaveItem \/ Raise \/ Abandon \/ Crash \/ Restart

Spec == Init /\ [][Next]_vars

-----------------------------------------------------------------------------
(* README "recorded usage and uncertain in-flight estimates carry forward":   *)
(* the row alone, whatever crashes and lost statements there were, accounts   *)
(* for all that the provider charged for requests, up to what a request cost  *)
(* beyond its own estimate (meter_from, checkpoint).                          *)
BillAccounted == billed <= row.usage + row.reservation + beyond

(* No plan spends more than the largest budget its user granted, over all its *)
(* runs together, except for what requests cost beyond their estimates; and   *)
(* the row says at most one such excess more (Meter.allowance, record).       *)
WithinBudget ==
  /\ billed <= granted + beyond
  /\ row.usage + row.reservation <= granted + Excess

(* features.py "Reserve its estimate once": the row never counts a request    *)
(* for more than its one estimate, or its one cost where that is higher,      *)
(* however often the plan is resumed.                                         *)
ChargedOnce == row.usage + row.reservation <= asked + beyond

(* The two together: neither more nor less than once.                         *)
BillSafe == TypeOK /\ BillAccounted /\ ChargedOnce

(* features.py "it never replays old tool calls": the shell commands of one   *)
(* milestone all come from one run of the plan, across crashes and resumes.   *)
NoReplay == \A i \in Items : Cardinality(by[i]) <= 1

(* Action property, README "Completed features are skipped on resume": what   *)
(* the row calls completed is never opened, reset or redone.                  *)
CompletedStays ==
  [][\A i \in Items : row.items[i] = "completed" => row'.items[i] = "completed"]_vars
=============================================================================
