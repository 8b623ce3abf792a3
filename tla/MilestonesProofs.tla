-------------------------- MODULE MilestonesProofs --------------------------
(* Proofs about resumable milestones, for any plan, budgets, costs and number *)
(* of runs.                                                                   *)
EXTENDS Milestones, FiniteSetTheorems, WellFoundedInduction, TLAPS

(* A run has the plan in its memory.                                          *)
Live == pc \notin {"idle", "down"}

(* What the row, or the run's copy, says about costs.                         *)
Sums(p) ==
  /\ billed <= p.usage + p.reservation + beyond
  /\ p.usage + p.reservation <= asked + beyond
  /\ p.usage + p.reservation <= granted + Excess

RowAccounts == Sums(row) /\ billed <= granted + beyond /\ limit <= granted

(* Between requests nothing is reserved, and during one the row knows of it.  *)
MemAccounts ==
  Live =>
    /\ Sums(mem)
    /\ pc # "raised" => billed <= mem.usage + beyond
    /\ pc \notin {"sending", "raised"} => mem.reservation = 0
    /\ pc = "sending" => row = mem /\ mem.usage + mem.reservation <= limit

(* The milestone that is being built is the one marked so.                    *)
ItemOpen ==
  /\ pc \in Building \cup {"paused"} => item \in Items /\ mem.items[item] = "running"
  /\ pc = "completing" => item \in Items

(* The run's copy calls completed whatever the row does.                      *)
NoneForgotten ==
  Live => \A i \in Items : row.items[i] = "completed" => mem.items[i] = "completed"

(* Commands leave their milestone marked as begun, in the row and in memory,  *)
(* so that a later run of the plan resumes it.                                *)
OneRun ==
  /\ \A i \in Items : by[i] = {} \/ \E s \in 1..MaxStarts : by[i] = {s}
  /\ \A i \in Items : by[i] # {} => row.items[i] # "pending"
  /\ Live => \A i \in Items : by[i] # {} => mem.items[i] # "pending"
  /\ Live => starts \in 1..MaxStarts
  /\ pc \in Building /\ ~resuming => by[item] \subseteq {starts}

IInv == TypeOK /\ RowAccounts /\ MemAccounts /\ ItemOpen /\ NoneForgotten /\ OneRun

(* What a step must leave alone in the row.                                   *)
Stays == \A i \in Items : row.items[i] = "completed" => row'.items[i] = "completed"

ItemStatuses == {"pending", "running", "needs_review", "completed"}

-----------------------------------------------------------------------------
(* Numbers: a set of them has a least one, so the next milestone is one that  *)
(* remains.                                                                   *)
LEMMA LeastNatural ==
  ASSUME NEW S \in SUBSET Nat, S # {}
  PROVE  \E n \in S : \A m \in S : n <= m
<1> DEFINE R == {ss \in Nat \X Nat : ss[1] < ss[2]}
<1>1. IsWellFoundedOn(R, Nat)
  BY NatLessThanWellFounded DEF OpToRel
<1> HIDE DEF R
<1>2. PICK n \in S : \A m \in S : ~(<<m, n>> \in R)
  BY <1>1, WFMin
<1>3. \A m \in S : ~(m < n)
  BY <1>2 DEF R
<1> QED BY <1>3

LEMMA NextRemains == Remaining # {} => Min(Remaining) \in Remaining
<1>1. Remaining \in SUBSET Nat
  BY MilestonesAssumption DEF Remaining, Items
<1> QED BY <1>1, LeastNatural DEF Min

(* The records: what a plan is made of, and what an assignment leaves.        *)
LEMMA PlanFields ==
  ASSUME NEW p \in Plan
  PROVE  /\ p.status \in Statuses /\ p.items \in [Items -> ItemStatuses]
         /\ p.usage \in Nat /\ p.reservation \in Nat
BY DEF Plan, ItemStatuses

LEMMA PlanStatus ==
  ASSUME NEW p \in Plan, NEW s \in Statuses
  PROVE  LET m == [p EXCEPT !.status = s] IN
         /\ m \in Plan /\ m.items = p.items
         /\ m.usage = p.usage /\ m.reservation = p.reservation
BY DEF Plan

LEMMA PlanItem ==
  ASSUME NEW p \in Plan, NEW i \in Items, NEW s \in ItemStatuses
  PROVE  LET m == [p EXCEPT !.items[i] = s] IN
         /\ m \in Plan
         /\ m.usage = p.usage /\ m.reservation = p.reservation
         /\ m.items[i] = s
         /\ \A j \in Items : j # i => m.items[j] = p.items[j]
<1> DEFINE m == [p EXCEPT !.items[i] = s]
<1>1. m \in Plan
  BY DEF Plan, ItemStatuses
<1>2. m.usage = p.usage /\ m.reservation = p.reservation
      /\ m.items = [p.items EXCEPT ![i] = s]
  BY DEF Plan
<1>3. p.items \in [Items -> ItemStatuses]
  BY PlanFields
<1> QED BY <1>1, <1>2, <1>3

-----------------------------------------------------------------------------
LEMMA InitEstablishes == Init => IInv
<1> SUFFICES ASSUME Init PROVE IInv
  OBVIOUS
<1>1. Blank \in Plan /\ Blank.usage = 0 /\ Blank.reservation = 0
  BY DEF Blank, Plan, Statuses
<1>2. TypeOK
  <2>1. 0 \in 0..MaxSteps /\ 0 \in 0..Attempts /\ 0 \in 0..MaxStarts
    BY MilestonesAssumption
  <2>2. by \in [Items -> SUBSET (1..MaxStarts)]
    BY DEF Init
  <2> QED BY <1>1, <2>1, <2>2 DEF Init, TypeOK, Steps
<1>3. RowAccounts
  BY <1>1, MilestonesAssumption DEF Init, RowAccounts, Sums
<1> QED
  BY <1>2, <1>3 DEF Init, IInv, MemAccounts, Live, ItemOpen, NoneForgotten, OneRun, Building

(* A step that leaves the costs alone and writes its copy of the plan, or     *)
(* fails to; it finishes a milestone or opens one that is not.                *)
LEMMA PlanStep ==
  ASSUME IInv, Live, mem' \in Plan, row' \in {row, mem'},
         mem'.usage = mem.usage, mem'.reservation = mem.reservation,
         UNCHANGED <<limit, history>>,
         \A i \in Items : mem.items[i] = "completed" => mem'.items[i] = "completed",
         \A i \in Items : mem.items[i] # "pending" => mem'.items[i] # "pending",
         pc' \in Steps \ {"sending", "down"},
         pc \in {"sending", "raised"} => pc' \in {"raised", "idle"},
         item' \in Items \cup {0}, resuming' \in BOOLEAN,
         steps' \in 0..MaxSteps, tries' \in 0..Attempts,
         ItemOpen',
         pc' \in Building /\ ~resuming' => by[item'] \subseteq {starts}
  PROVE  IInv' /\ Stays
<1>1. /\ row \in Plan /\ mem \in Plan /\ row' \in Plan /\ limit' = limit
      /\ billed' = billed /\ beyond' = beyond /\ asked' = asked /\ granted' = granted
      /\ by' = by /\ starts' = starts
  BY DEF IInv, TypeOK, history
<1>2. TypeOK'
  BY <1>1 DEF IInv, TypeOK
<1>3. RowAccounts'
  BY <1>1 DEF IInv, RowAccounts, MemAccounts, Sums
<1>4. MemAccounts'
  BY <1>1 DEF IInv, MemAccounts, Sums, Live
<1>5. NoneForgotten' /\ Stays
  BY <1>1 DEF IInv, NoneForgotten, Live, Stays
<1>6. OneRun'
  <2>1. \A i \in Items : by[i] # {} => row'.items[i] # "pending"
    BY DEF IInv, OneRun
  <2> QED BY <1>1, <2>1 DEF IInv, OneRun
<1> QED BY <1>2, <1>3, <1>4, <1>5, <1>6 DEF IInv

(* persist(plan), answered or not.                                            *)
LEMMA PersistWrites ==
  ASSUME NEW m, NEW then, NEW else, Persist(m, then, else)
  PROVE  mem' = m /\ row' \in {row, mem'} /\ pc' \in {then, else}
BY DEF Persist, Uncertain

-----------------------------------------------------------------------------
(* A run begins: what an earlier one had in flight becomes usage.             *)
LEMMA StartKeeps ==
  ASSUME IInv, NEW l \in Limits, Start(l)
  PROVE  IInv' /\ Stays
<1>1. /\ pc = "idle" /\ starts < MaxStarts
      /\ limit' = l /\ granted' = (IF l > granted THEN l ELSE granted)
      /\ starts' = starts + 1
      /\ item' = 0 /\ resuming' = FALSE /\ steps' = 0 /\ tries' = 0
      /\ UNCHANGED <<billed, beyond, asked, by>>
  BY DEF Start
<1>2. /\ row \in Plan /\ row.usage \in Nat /\ row.reservation \in Nat
      /\ l \in Nat /\ granted \in Nat /\ starts \in 0..MaxStarts
  BY PlanFields, MilestonesAssumption DEF IInv, TypeOK
<1>3. /\ mem' \in Plan /\ row' \in {row, mem'} /\ pc' \in {"starting", "idle"}
      /\ mem'.usage + mem'.reservation = row.usage + row.reservation
      /\ mem'.reservation = 0 /\ mem'.items = row.items
  <2>1. CASE row.reservation > 0
    <3>1. /\ Carried(row) \in Plan /\ Carried(row).items = row.items
          /\ Carried(row).usage = row.usage + row.reservation
          /\ Carried(row).reservation = 0
      <4> DEFINE u == row.usage + row.reservation
      <4>1. u \in Nat /\ 0 \in Nat
        BY <1>2
      <4>2. Carried(row) = [row EXCEPT !.usage = u, !.reservation = 0]
        BY DEF Carried
      <4> HIDE DEF u
      <4>3. /\ Carried(row) \in Plan /\ Carried(row).items = row.items
            /\ Carried(row).usage = u /\ Carried(row).reservation = 0
        BY <1>2, <4>1, <4>2 DEF Plan
      <4> QED BY <4>3 DEF u
    <3>2. Persist(Carried(row), "starting", "idle")
      BY <2>1 DEF Start
    <3>3. mem' = Carried(row) /\ row' \in {row, mem'} /\ pc' \in {"starting", "idle"}
      BY <3>2, PersistWrites
    <3> QED BY <1>2, <3>1, <3>3
  <2>2. CASE ~(row.reservation > 0)
    <3>1. mem' = row /\ row' = row /\ pc' = "starting" /\ row.reservation = 0
      BY <1>2, <2>2 DEF Start
    <3> QED BY <1>2, <3>1
  <2> QED BY <2>1, <2>2
<1>4. /\ row' \in Plan /\ mem'.usage \in Nat
      /\ row'.usage + row'.reservation = row.usage + row.reservation /\ row'.items = row.items
  BY <1>2, <1>3, PlanFields
<1>5. TypeOK'
  <2>1. 0 \in 0..MaxSteps /\ 0 \in 0..Attempts /\ starts' \in 0..MaxStarts
    BY <1>1, <1>2, MilestonesAssumption
  <2>2. granted' \in Limits \cup {0} /\ limit' \in Limits
    BY <1>1 DEF IInv, TypeOK
  <2>3. pc' \in Steps
    BY <1>3 DEF Steps
  <2> QED BY <1>1, <1>3, <1>4, <2>1, <2>2, <2>3 DEF IInv, TypeOK
<1>6. granted' \in Nat /\ granted <= granted' /\ l <= granted'
  BY <1>1, <1>2
<1>7. Excess \in Nat /\ billed \in Nat /\ beyond \in Nat /\ asked \in Nat
  BY MilestonesAssumption DEF IInv, TypeOK
<1>8. RowAccounts'
  <2>1. row'.usage \in Nat /\ row'.reservation \in Nat
    BY <1>4, PlanFields
  <2> QED BY <1>1, <1>2, <1>4, <1>6, <1>7, <2>1 DEF IInv, RowAccounts, Sums
<1>9. MemAccounts'
  BY <1>1, <1>2, <1>3, <1>4, <1>6, <1>7 DEF IInv, RowAccounts, MemAccounts, Sums
<1>10. ItemOpen'
  BY <1>3 DEF ItemOpen, Building
<1>11. NoneForgotten' /\ Stays
  BY <1>3, <1>4 DEF NoneForgotten, Stays
<1>12. OneRun'
  <2>1. starts' \in 1..MaxStarts
    BY <1>1, <1>2, MilestonesAssumption
  <2>2. pc' \notin Building
    BY <1>3 DEF Building
  <2> QED BY <1>1, <1>3, <1>4, <2>1, <2>2 DEF IInv, OneRun
<1> QED BY <1>5, <1>8, <1>9, <1>10, <1>11, <1>12 DEF IInv

(* What the steps of PlanStep have in common.                                 *)
LEMMA LivePlan ==
  ASSUME IInv, Live
  PROVE  /\ mem \in Plan /\ row \in Plan /\ item \in Items \cup {0} /\ resuming \in BOOLEAN
         /\ steps \in 0..MaxSteps /\ tries \in 0..Attempts
         /\ 0 \in 0..MaxSteps /\ 0 \in 0..Attempts /\ 0 \in Items \cup {0}
BY MilestonesAssumption DEF IInv, TypeOK

LEMMA BeginKeeps ==
  ASSUME IInv, Begin
  PROVE  IInv' /\ Stays
<1> DEFINE m == [mem EXCEPT !.status = "running"]
<1>1. pc = "starting" /\ Persist(m, "next", "idle") /\ UNCHANGED <<memory, history>>
  BY DEF Begin
<1>2. Live
  BY <1>1 DEF Live
<1>3. "running" \in Statuses
  BY DEF Statuses
<1>4. /\ m \in Plan /\ m.items = mem.items
      /\ m.usage = mem.usage /\ m.reservation = mem.reservation
  BY <1>2, <1>3, LivePlan, PlanStatus
<1> HIDE DEF m
<1>5. mem' = m /\ row' \in {row, mem'} /\ pc' \in {"next", "idle"}
  BY <1>1, PersistWrites
<1>6. pc' \in Steps \ {"sending", "down"} /\ pc' \notin Building /\ ItemOpen'
  BY <1>5 DEF Steps, Building, ItemOpen
<1>7. UNCHANGED <<item, resuming, limit, steps, tries, history>>
  BY <1>1 DEF memory
<1> QED BY <1>1, <1>2, <1>4, <1>5, <1>6, <1>7, LivePlan, PlanStep

(* Milestones that are complete do not remain; one that was begun before is   *)
(* resumed, without commands.                                                 *)
LEMMA OpenItemKeeps ==
  ASSUME IInv, OpenItem
  PROVE  IInv' /\ Stays
<1> DEFINE i == Min(Remaining)
           m == [mem EXCEPT !.items[i] = "running"]
<1>1. /\ pc = "next" /\ Remaining # {} /\ item' = i /\ resuming' = Reopens(i)
      /\ \/ Persist(m, "asking", "raised")
         \/ mem' = m /\ pc' = "raised" /\ row' = row
      /\ steps' = 0 /\ tries' = 0 /\ UNCHANGED <<limit, history>>
  BY DEF OpenItem
<1>2. Live
  BY <1>1 DEF Live
<1>3. i \in Items /\ mem.items[i] # "completed"
  BY <1>1, NextRemains DEF Remaining
<1> HIDE DEF i
<1>4. "running" \in ItemStatuses
  BY DEF ItemStatuses
<1>5. /\ m \in Plan /\ m.items[i] = "running"
      /\ m.usage = mem.usage /\ m.reservation = mem.reservation
      /\ \A j \in Items : j # i => m.items[j] = mem.items[j]
  BY <1>2, <1>3, <1>4, LivePlan, PlanItem
<1> HIDE DEF m
<1>6. mem' = m /\ row' \in {row, mem'} /\ pc' \in {"asking", "raised"}
  BY <1>1, PersistWrites
<1>7. pc' \in Steps \ {"sending", "down"}
  BY <1>6 DEF Steps, Building
<1>8. ItemOpen'
  BY <1>1, <1>3, <1>5, <1>6 DEF ItemOpen
<1>9. ~resuming' => by[item'] \subseteq {starts}
  BY <1>1, <1>2, <1>3 DEF IInv, OneRun, Reopens
<1>10. resuming' \in BOOLEAN
  BY <1>1 DEF Reopens
<1>11. \A j \in Items : /\ mem.items[j] = "completed" => mem'.items[j] = "completed"
                        /\ mem.items[j] # "pending" => mem'.items[j] # "pending"
  BY <1>3, <1>5, <1>6
<1> QED
  BY <1>1, <1>2, <1>3, <1>5, <1>6, <1>7, <1>8, <1>9, <1>10, <1>11, LivePlan, PlanStep

LEMMA CompleteKeeps ==
  ASSUME IInv, Complete
  PROVE  IInv' /\ Stays
<1> DEFINE m == [mem EXCEPT !.status = "completed"]
<1>1. pc = "next" /\ Persist(m, "idle", "idle") /\ UNCHANGED <<memory, history>>
  BY DEF Complete
<1>2. Live
  BY <1>1 DEF Live
<1>3. "completed" \in Statuses
  BY DEF Statuses
<1>4. /\ m \in Plan /\ m.items = mem.items
      /\ m.usage = mem.usage /\ m.reservation = mem.reservation
  BY <1>2, <1>3, LivePlan, PlanStatus
<1> HIDE DEF m
<1>5. mem' = m /\ row' \in {row, mem'} /\ pc' = "idle"
  BY <1>1, PersistWrites
<1>6. pc' \in Steps \ {"sending", "down"} /\ pc' \notin Building /\ ItemOpen'
  BY <1>5 DEF Steps, Building, ItemOpen
<1>7. UNCHANGED <<item, resuming, limit, steps, tries, history>>
  BY <1>1 DEF memory
<1> QED BY <1>1, <1>2, <1>4, <1>5, <1>6, <1>7, LivePlan, PlanStep

-----------------------------------------------------------------------------
(* A request: its estimate fits the budget, and it is in the row before the   *)
(* request is sent.                                                           *)
LEMMA AskKeeps ==
  ASSUME IInv, NEW e \in Estimates, Ask(e)
  PROVE  IInv' /\ Stays
<1> DEFINE m == [mem EXCEPT !.reservation = e]
<1>1. /\ pc = "asking" /\ StepsLeft /\ Affordable(e)
      /\ steps' = steps + 1 /\ tries' = 1 /\ asked' = asked + e
      /\ Persist(m, "sending", "raised")
      /\ UNCHANGED <<item, resuming, limit, billed, beyond, granted, by, starts>>
  BY DEF Ask
<1>2. Live
  BY <1>1 DEF Live
<1>3. /\ mem \in Plan /\ row \in Plan /\ e \in Nat /\ limit \in Nat /\ granted \in Nat
      /\ billed \in Nat /\ beyond \in Nat /\ asked \in Nat /\ Excess \in Nat
      /\ mem.usage \in Nat
  <2>1. mem \in Plan /\ row \in Plan /\ limit \in Limits \cup {0} /\ granted \in Limits \cup {0}
        /\ billed \in Nat /\ beyond \in Nat /\ asked \in Nat
    BY DEF IInv, TypeOK
  <2>2. mem.usage \in Nat
    BY <2>1, PlanFields
  <2> QED BY <2>1, <2>2, MilestonesAssumption
<1>4. /\ m \in Plan /\ m.items = mem.items /\ m.usage = mem.usage /\ m.reservation = e
  BY <1>3 DEF Plan
<1> HIDE DEF m
<1>5. /\ mem' = m
      /\ \/ row' = m /\ pc' = "sending"
         \/ row' \in {row, m} /\ pc' = "raised"
  BY <1>1 DEF Persist, Uncertain
<1>6. mem.usage + e <= limit /\ billed <= mem.usage + beyond /\ mem.usage <= asked + beyond
      /\ limit <= granted /\ billed <= granted + beyond
  BY <1>1, <1>2, <1>3 DEF IInv, RowAccounts, MemAccounts, Sums, Affordable
<1>7. Sums(mem)'
  BY <1>1, <1>3, <1>4, <1>5, <1>6 DEF Sums
<1>8. TypeOK'
  <2>1. steps' \in 0..MaxSteps /\ tries' \in 0..Attempts
    BY <1>1, MilestonesAssumption DEF IInv, TypeOK, StepsLeft
  <2>2. pc' \in Steps
    BY <1>5 DEF Steps, Building
  <2> QED BY <1>1, <1>3, <1>4, <1>5, <2>1, <2>2 DEF IInv, TypeOK
<1>9. RowAccounts'
  <2>1. CASE row' = m
    BY <1>1, <1>5, <1>6, <1>7, <2>1 DEF RowAccounts, Sums
  <2>2. CASE row' = row
    <3>1. row.usage \in Nat /\ row.reservation \in Nat
      BY <1>3, PlanFields
    <3> QED BY <1>1, <1>3, <2>2, <3>1 DEF IInv, RowAccounts, Sums
  <2> QED BY <1>5, <2>1, <2>2
<1>10. MemAccounts'
  BY <1>1, <1>3, <1>4, <1>5, <1>6, <1>7 DEF MemAccounts
<1>11. ItemOpen'
  BY <1>1, <1>4, <1>5 DEF IInv, ItemOpen, Building
<1>12. NoneForgotten' /\ Stays
  BY <1>2, <1>4, <1>5 DEF IInv, NoneForgotten, Stays
<1>13. OneRun'
  BY <1>1, <1>2, <1>4, <1>5 DEF IInv, OneRun, Building
<1> QED BY <1>8, <1>9, <1>10, <1>11, <1>12, <1>13 DEF IInv

LEMMA RetryKeeps ==
  ASSUME IInv, Retry
  PROVE  IInv' /\ Stays
<1>1. /\ pc = "sending" /\ tries < Attempts /\ tries' = tries + 1
      /\ UNCHANGED <<row, mem, pc, item, resuming, limit, steps, billed, beyond, asked,
                     granted, by, starts>>
  BY DEF Retry
<1>2. tries' \in 0..Attempts
  BY <1>1, MilestonesAssumption DEF IInv, TypeOK
<1>3. TypeOK'
  BY <1>1, <1>2 DEF IInv, TypeOK
<1>4. RowAccounts' /\ MemAccounts'
  BY <1>1 DEF IInv, RowAccounts, MemAccounts, Sums, Live
<1>5. ItemOpen' /\ NoneForgotten' /\ OneRun' /\ Stays
  BY <1>1 DEF IInv, ItemOpen, NoneForgotten, OneRun, Live, Stays
<1> QED BY <1>3, <1>4, <1>5 DEF IInv

(* The cost is within the estimate, or what exceeds it is counted.            *)
LEMMA ChargeFacts ==
  ASSUME IInv, pc = "sending", NEW c \in Costs, Charge(c)
  PROVE  /\ c \in Nat /\ billed' \in Nat /\ beyond' \in Nat
         /\ UNCHANGED <<asked, granted, by, starts>>
         /\ mem \in Plan /\ mem.usage \in Nat /\ mem.reservation \in Nat
         /\ row = mem /\ asked \in Nat /\ granted \in Nat
         /\ billed' <= mem.usage + c + beyond'
         /\ billed' <= mem.usage + mem.reservation + beyond'
         /\ mem.usage + mem.reservation <= granted
         /\ billed' <= granted + beyond'
         /\ mem.usage + mem.reservation <= asked + beyond'
         /\ mem.usage + c <= asked + beyond'
         /\ mem.usage + c <= granted + Excess
<1>1. /\ mem \in Plan /\ mem.usage \in Nat /\ mem.reservation \in Nat
      /\ billed \in Nat /\ beyond \in Nat /\ asked \in Nat /\ granted \in Nat
      /\ limit \in Nat /\ Excess \in Nat
  <2>1. mem \in Plan /\ limit \in Limits \cup {0} /\ granted \in Limits \cup {0}
        /\ billed \in Nat /\ beyond \in Nat /\ asked \in Nat
    BY DEF IInv, TypeOK
  <2>2. mem.usage \in Nat /\ mem.reservation \in Nat
    BY <2>1, PlanFields
  <2> QED BY <2>1, <2>2, MilestonesAssumption
<1>2. /\ row = mem /\ mem.usage + mem.reservation <= limit
      /\ billed <= mem.usage + beyond
      /\ mem.usage + mem.reservation <= asked + beyond
      /\ limit <= granted
  BY DEF IInv, RowAccounts, MemAccounts, Sums, Live
<1>3. c \in Nat /\ c <= mem.reservation + Excess
  BY <1>1 DEF Costs
<1>4. /\ billed' = billed + c /\ UNCHANGED <<asked, granted, by, starts>>
      /\ c > mem.reservation => beyond' = beyond + (c - mem.reservation)
      /\ c <= mem.reservation => beyond' = beyond
  BY <1>1, <1>3 DEF Charge
<1> QED BY <1>1, <1>2, <1>3, <1>4

LEMMA AnswerKeeps ==
  ASSUME IInv, Answer
  PROVE  IInv' /\ Stays
<1>1. /\ pc = "sending" /\ pc' = "settling" /\ row' = row
      /\ UNCHANGED <<item, resuming, limit, steps, tries>>
  BY DEF Answer, memory
<1>2. PICK c \in Costs : Charge(c) /\ mem' = [mem EXCEPT !.usage = @ + c, !.reservation = 0]
  BY DEF Answer
<1> DEFINE u == mem.usage + c
<1>3. /\ u \in Nat /\ billed' \in Nat /\ beyond' \in Nat
      /\ UNCHANGED <<asked, granted, by, starts>>
      /\ mem \in Plan /\ mem.usage \in Nat /\ mem.reservation \in Nat
      /\ row = mem /\ asked \in Nat /\ granted \in Nat
      /\ billed' <= u + beyond' /\ u <= asked + beyond' /\ u <= granted + Excess
      /\ billed' <= mem.usage + mem.reservation + beyond'
      /\ mem.usage + mem.reservation <= granted
      /\ billed' <= granted + beyond'
      /\ mem.usage + mem.reservation <= asked + beyond'
  BY <1>1, <1>2, ChargeFacts
<1>4. /\ mem' \in Plan /\ mem'.items = mem.items /\ mem'.usage = u /\ mem'.reservation = 0
  <2>1. mem' = [mem EXCEPT !.usage = u, !.reservation = 0] /\ 0 \in Nat
    BY <1>2
  <2> HIDE DEF u
  <2> QED BY <1>3, <2>1 DEF Plan
<1> HIDE DEF u
<1>5. TypeOK'
  <2>1. pc' \in Steps
    BY <1>1 DEF Steps, Building
  <2> QED BY <1>1, <1>3, <1>4, <2>1 DEF IInv, TypeOK
<1>6. Excess \in Nat
  BY MilestonesAssumption
<1>7. RowAccounts'
  BY <1>1, <1>3, <1>6 DEF IInv, RowAccounts, Sums
<1>8. MemAccounts'
  <2>1. Sums(mem)'
    <3>1. /\ mem'.usage + mem'.reservation = u
          /\ asked' = asked /\ granted' = granted
      BY <1>3, <1>4
    <3>2. /\ billed' <= mem'.usage + mem'.reservation + beyond'
          /\ mem'.usage + mem'.reservation <= asked' + beyond'
          /\ mem'.usage + mem'.reservation <= granted' + Excess
      BY <1>3, <3>1
    <3> QED BY <3>2 DEF Sums
  <2>2. billed' <= mem'.usage + beyond'
    BY <1>3, <1>4
  <2> QED BY <1>1, <1>4, <2>1, <2>2 DEF MemAccounts
<1>9. ItemOpen' /\ NoneForgotten' /\ Stays
  BY <1>1, <1>4 DEF IInv, ItemOpen, NoneForgotten, Live, Stays, Building
<1>10. OneRun'
  BY <1>1, <1>3, <1>4 DEF IInv, OneRun, Live, Building
<1> QED BY <1>5, <1>7, <1>8, <1>9, <1>10 DEF IInv

LEMMA NoAnswerKeeps ==
  ASSUME IInv, NoAnswer
  PROVE  IInv' /\ Stays
<1>1. /\ pc = "sending" /\ pc' = "raised"
      /\ UNCHANGED <<row, mem, item, resuming, limit, steps, tries>>
  BY DEF NoAnswer, memory
<1>2. PICK c \in Costs : Charge(c)
  BY DEF NoAnswer
<1>3. /\ billed' \in Nat /\ beyond' \in Nat
      /\ UNCHANGED <<asked, granted, by, starts>>
      /\ mem.usage \in Nat /\ mem.reservation \in Nat
      /\ row = mem /\ asked \in Nat /\ granted \in Nat
      /\ billed' <= mem.usage + mem.reservation + beyond'
      /\ mem.usage + mem.reservation <= granted
      /\ billed' <= granted + beyond'
      /\ mem.usage + mem.reservation <= asked + beyond'
  BY <1>1, <1>2, ChargeFacts
<1>4. TypeOK'
  <2>1. pc' \in Steps
    BY <1>1 DEF Steps
  <2> QED BY <1>1, <1>3, <2>1 DEF IInv, TypeOK
<1>5. Excess \in Nat
  BY MilestonesAssumption
<1>6. RowAccounts' /\ MemAccounts'
  BY <1>1, <1>3, <1>5 DEF IInv, RowAccounts, MemAccounts, Sums
<1>7. ItemOpen' /\ NoneForgotten' /\ Stays
  BY <1>1 DEF IInv, ItemOpen, NoneForgotten, Live, Stays, Building
<1>8. OneRun'
  BY <1>1, <1>3 DEF IInv, OneRun, Live, Building
<1> QED BY <1>4, <1>6, <1>7, <1>8 DEF IInv

LEMMA SettleKeeps ==
  ASSUME IInv, Settle
  PROVE  IInv' /\ Stays
<1>1. /\ pc = "settling" /\ UNCHANGED <<memory, history>>
      /\ Persist(mem, IF mem.usage > limit THEN "raised" ELSE "acting", "raised")
  BY DEF Settle
<1>2. Live
  BY <1>1 DEF Live
<1>3. mem' = mem /\ row' \in {row, mem'} /\ pc' \in {"acting", "raised"}
  BY <1>1 DEF Persist, Uncertain
<1>4. pc' \in Steps \ {"sending", "down"}
  BY <1>3 DEF Steps, Building
<1>5. UNCHANGED <<item, resuming, limit, steps, tries, history>>
  BY <1>1 DEF memory
<1>6. ItemOpen' /\ (~resuming' => by[item'] \subseteq {starts})
  BY <1>1, <1>3, <1>5 DEF IInv, ItemOpen, OneRun, Building
<1> QED BY <1>1, <1>2, <1>3, <1>4, <1>5, <1>6, LivePlan, PlanStep

-----------------------------------------------------------------------------
(* A command is run only for a milestone that no other run has begun, and the *)
(* row says first that this one has.                                          *)
LEMMA RunCommandKeeps ==
  ASSUME IInv, RunCommand
  PROVE  IInv' /\ Stays
<1>1. /\ pc = "acting" /\ ~resuming /\ row' = mem
      /\ by' = [by EXCEPT ![item] = @ \cup {starts}]
      /\ UNCHANGED <<mem, pc, item, resuming, limit, steps, tries, billed, beyond, asked,
                     granted, starts>>
  BY DEF RunCommand, memory
<1>2. /\ Live /\ item \in Items /\ mem.items[item] = "running"
      /\ by[item] \subseteq {starts} /\ starts \in 1..MaxStarts
  BY <1>1 DEF IInv, ItemOpen, OneRun, Live, Building
<1>3. /\ by' \in [Items -> SUBSET (1..MaxStarts)] /\ by'[item] = {starts}
      /\ \A i \in Items : i # item => by'[i] = by[i]
  BY <1>1, <1>2 DEF IInv, TypeOK
<1>4. TypeOK'
  BY <1>1, <1>3 DEF IInv, TypeOK
<1>5. RowAccounts' /\ MemAccounts'
  <2>1. mem.usage \in Nat /\ mem.reservation \in Nat
    BY PlanFields DEF IInv, TypeOK
  <2> QED BY <1>1, <1>2, <2>1 DEF IInv, RowAccounts, MemAccounts, Sums, Live
<1>6. ItemOpen'
  BY <1>1 DEF IInv, ItemOpen
<1>7. NoneForgotten' /\ Stays
  BY <1>1, <1>2 DEF IInv, NoneForgotten, Stays
<1>8. OneRun'
  <2>1. \A i \in Items : by'[i] = {} \/ \E s \in 1..MaxStarts : by'[i] = {s}
    BY <1>2, <1>3 DEF IInv, OneRun
  <2>2. \A i \in Items : by'[i] # {} => mem'.items[i] # "pending" /\ row'.items[i] # "pending"
    BY <1>1, <1>2, <1>3 DEF IInv, OneRun
  <2> QED BY <1>1, <1>2, <1>3, <2>1, <2>2 DEF OneRun
<1> QED BY <1>4, <1>5, <1>6, <1>7, <1>8 DEF IInv

LEMMA BuildStepKeeps ==
  ASSUME IInv, AskAgain \/ Pause \/ Raise
  PROVE  IInv' /\ Stays
<1>1. /\ pc \in {"next", "asking", "acting", "completing"}
      /\ \/ pc = "acting" /\ pc' \in {"asking", "paused"}
         \/ pc' = "raised"
      /\ UNCHANGED <<row, mem, item, resuming, limit, steps, tries, history>>
  BY DEF AskAgain, Pause, Raise, memory
<1>2. Live
  BY <1>1 DEF Live
<1>3. pc' \in Steps \ {"sending", "down"}
  BY <1>1 DEF Steps, Building
<1>4. ItemOpen' /\ (pc' \in Building /\ ~resuming' => by[item'] \subseteq {starts})
  BY <1>1 DEF IInv, ItemOpen, OneRun, Building
<1> QED BY <1>1, <1>2, <1>3, <1>4, LivePlan, PlanStep

LEMMA FinishItemKeeps ==
  ASSUME IInv, FinishItem
  PROVE  IInv' /\ Stays
<1> DEFINE m == [mem EXCEPT !.items[item] = "completed"]
<1>1. pc = "acting" /\ mem' = m /\ pc' = "completing"
      /\ UNCHANGED <<row, item, resuming, limit, steps, tries, history>>
  BY DEF FinishItem, memory, history
<1>2. Live /\ item \in Items
  BY <1>1 DEF IInv, ItemOpen, Live, Building
<1>3. "completed" \in ItemStatuses
  BY DEF ItemStatuses
<1>4. /\ m \in Plan /\ m.items[item] = "completed"
      /\ m.usage = mem.usage /\ m.reservation = mem.reservation
      /\ \A j \in Items : j # item => m.items[j] = mem.items[j]
  BY <1>2, <1>3, LivePlan, PlanItem
<1> HIDE DEF m
<1>5. \A j \in Items : /\ mem.items[j] = "completed" => mem'.items[j] = "completed"
                       /\ mem.items[j] # "pending" => mem'.items[j] # "pending"
  BY <1>1, <1>4
<1>6. pc' \in Steps \ {"sending", "down"} /\ pc' \notin Building /\ ItemOpen'
  BY <1>1, <1>2 DEF Steps, Building, ItemOpen
<1> QED BY <1>1, <1>2, <1>4, <1>5, <1>6, LivePlan, PlanStep

LEMMA SaveItemKeeps ==
  ASSUME IInv, SaveItem
  PROVE  IInv' /\ Stays
<1>1. pc = "completing" /\ Persist(mem, "next", "raised") /\ UNCHANGED <<memory, history>>
  BY DEF SaveItem
<1>2. Live
  BY <1>1 DEF Live
<1>3. mem' = mem /\ row' \in {row, mem'} /\ pc' \in {"next", "raised"}
  BY <1>1, PersistWrites
<1>4. pc' \in Steps \ {"sending", "down"} /\ pc' \notin Building /\ ItemOpen'
  BY <1>3 DEF Steps, Building, ItemOpen
<1>5. UNCHANGED <<item, resuming, limit, steps, tries, history>>
  BY <1>1 DEF memory
<1> QED BY <1>1, <1>2, <1>3, <1>4, <1>5, LivePlan, PlanStep

(* The except clause leaves a completed milestone completed.                  *)
LEMMA AbandonKeeps ==
  ASSUME IInv, Abandon
  PROVE  IInv' /\ Stays
<1> DEFINE status == IF pc = "paused" THEN "awaiting_packages" ELSE "needs_review"
           m == [Reviewed EXCEPT !.status = status]
<1>1. pc \in {"raised", "paused"} /\ Persist(m, "idle", "idle") /\ UNCHANGED <<memory, history>>
  BY DEF Abandon
<1>2. Live
  BY <1>1 DEF Live
<1>3. /\ Reviewed \in Plan
      /\ Reviewed.usage = mem.usage /\ Reviewed.reservation = mem.reservation
      /\ \A j \in Items : /\ mem.items[j] = "completed" => Reviewed.items[j] = "completed"
                          /\ mem.items[j] # "pending" => Reviewed.items[j] # "pending"
  <2>1. CASE item = 0 \/ mem.items[item] = "completed"
    BY <1>2, <2>1, LivePlan DEF Reviewed
  <2>2. CASE item \in Items /\ mem.items[item] # "completed"
    <3> DEFINE r == [mem EXCEPT !.items[item] = "needs_review"]
    <3>1. "needs_review" \in ItemStatuses
      BY DEF ItemStatuses
    <3>2. item # 0
      BY <2>2, MilestonesAssumption DEF Items
    <3>3. Reviewed = r
      BY <2>2, <3>2 DEF Reviewed
    <3>4. /\ r \in Plan /\ r.items[item] = "needs_review"
          /\ r.usage = mem.usage /\ r.reservation = mem.reservation
          /\ \A j \in Items : j # item => r.items[j] = mem.items[j]
      BY <1>2, <2>2, <3>1, LivePlan, PlanItem
    <3> HIDE DEF r
    <3> QED BY <2>2, <3>3, <3>4
  <2> QED BY <1>2, <2>1, <2>2, LivePlan
<1>4. status \in Statuses
  BY DEF Statuses
<1> HIDE DEF status
<1>5. /\ m \in Plan /\ m.items = Reviewed.items
      /\ m.usage = mem.usage /\ m.reservation = mem.reservation
  BY <1>3, <1>4, PlanStatus
<1> HIDE DEF m
<1>6. mem' = m /\ row' \in {row, mem'} /\ pc' = "idle"
  BY <1>1, PersistWrites
<1>7. pc' \in Steps \ {"sending", "down"} /\ pc' \notin Building /\ ItemOpen'
  BY <1>6 DEF Steps, Building, ItemOpen
<1>8. UNCHANGED <<item, resuming, limit, steps, tries, history>>
  BY <1>1 DEF memory
<1> QED BY <1>1, <1>2, <1>3, <1>5, <1>6, <1>7, <1>8, LivePlan, PlanStep

(* The process dies, and the next one finds the row.                          *)
LEMMA CrashKeeps ==
  ASSUME IInv, Crash
  PROVE  IInv' /\ Stays
<1>1. /\ pc' = "down" /\ mem' = Blank /\ row' = row
      /\ item' = 0 /\ resuming' = FALSE /\ limit' = 0 /\ steps' = 0 /\ tries' = 0
      /\ UNCHANGED <<billed, beyond, asked, granted, by, starts>>
  BY DEF Crash, history
<1>2. Blank \in Plan /\ granted \in Nat
  BY MilestonesAssumption DEF Blank, Plan, Statuses, IInv, TypeOK
<1>3. TypeOK'
  <2>1. 0 \in 0..MaxSteps /\ 0 \in 0..Attempts
    BY MilestonesAssumption
  <2> QED BY <1>1, <1>2, <2>1 DEF IInv, TypeOK, Steps
<1>4. RowAccounts'
  BY <1>1, <1>2 DEF IInv, RowAccounts, Sums
<1>5. MemAccounts' /\ ItemOpen' /\ NoneForgotten' /\ Stays
  BY <1>1 DEF MemAccounts, ItemOpen, NoneForgotten, Live, Building, Stays
<1>6. OneRun'
  BY <1>1 DEF IInv, OneRun, Live, Building
<1> QED BY <1>3, <1>4, <1>5, <1>6 DEF IInv

LEMMA RestartKeeps ==
  ASSUME IInv, Restart
  PROVE  IInv' /\ Stays
<1>1. /\ pc = "down" /\ pc' = "idle" /\ row' = [row EXCEPT !.status = FoundStatus]
      /\ UNCHANGED <<mem, item, resuming, limit, steps, tries, history>>
  BY DEF Restart, memory
<1>2. row \in Plan /\ FoundStatus \in Statuses
  BY PlanFields DEF IInv, TypeOK, FoundStatus, Statuses
<1>3. /\ row' \in Plan /\ row'.items = row.items
      /\ row'.usage = row.usage /\ row'.reservation = row.reservation
  <2> HIDE DEF FoundStatus
  <2> QED BY <1>1, <1>2, PlanStatus
<1>4. TypeOK'
  BY <1>1, <1>3 DEF IInv, TypeOK, Steps, history
<1>5. RowAccounts'
  BY <1>1, <1>3 DEF IInv, RowAccounts, Sums, history
<1>6. MemAccounts' /\ ItemOpen' /\ NoneForgotten' /\ Stays
  BY <1>1, <1>3 DEF MemAccounts, ItemOpen, NoneForgotten, Live, Building, Stays
<1>7. OneRun'
  BY <1>1, <1>3 DEF IInv, OneRun, Live, Building, history
<1> QED BY <1>4, <1>5, <1>6, <1>7 DEF IInv

LEMMA NextKeeps == IInv /\ [Next]_vars => IInv' /\ Stays
<1> SUFFICES ASSUME IInv, [Next]_vars PROVE IInv' /\ Stays
  OBVIOUS
<1>1. ASSUME NEW l \in Limits, Start(l)
      PROVE  IInv' /\ Stays
  BY <1>1, StartKeeps
<1>2. ASSUME NEW e \in Estimates, Ask(e)
      PROVE  IInv' /\ Stays
  BY <1>2, AskKeeps
<1>3. CASE Begin \/ OpenItem \/ Complete \/ Crash \/ Restart
  BY <1>3, BeginKeeps, OpenItemKeeps, CompleteKeeps, CrashKeeps, RestartKeeps
<1>4. CASE Retry \/ Answer \/ NoAnswer \/ Settle
  BY <1>4, RetryKeeps, AnswerKeeps, NoAnswerKeeps, SettleKeeps
<1>5. CASE RunCommand \/ AskAgain \/ Pause \/ FinishItem \/ SaveItem \/ Raise \/ Abandon
  BY <1>5, RunCommandKeeps, BuildStepKeeps, FinishItemKeeps, SaveItemKeeps, AbandonKeeps
<1>6. CASE UNCHANGED vars
  <2>1. UNCHANGED <<row, mem, pc, item, resuming, limit, steps, tries, billed, beyond,
                    asked, granted, by, starts>>
    BY <1>6 DEF vars, memory, history
  <2>2. TypeOK' /\ RowAccounts' /\ MemAccounts'
    BY <2>1 DEF IInv, TypeOK, RowAccounts, MemAccounts, Sums, Live
  <2>3. ItemOpen' /\ NoneForgotten' /\ OneRun' /\ Stays
    BY <2>1 DEF IInv, ItemOpen, NoneForgotten, OneRun, Live, Stays
  <2> QED BY <2>2, <2>3 DEF IInv
<1> QED BY <1>1, <1>2, <1>3, <1>4, <1>5, <1>6 DEF Next

-----------------------------------------------------------------------------
(* The inductive invariant: what the row and the run's copy of it account     *)
(* for at each point of a request, which milestone is open, and that what was *)
(* begun or completed is known wherever the plan is read from.                *)
THEOREM MilestonesInvariant == Spec => []IInv
<1>1. Init => IInv
  BY InitEstablishes
<1>2. IInv /\ [Next]_vars => IInv'
  BY NextKeeps
<1> QED BY <1>1, <1>2, PTL DEF Spec

(* The row alone accounts for what was charged, neither more nor less than    *)
(* once, through lost statements, lost answers, crashes and resumes           *)
(* (meter_from, checkpoint).                                                  *)
THEOREM BillIsSafe == Spec => []BillSafe
<1>1. IInv => BillSafe
  BY DEF IInv, RowAccounts, Sums, BillSafe, BillAccounted, ChargedOnce
<1> QED BY <1>1, MilestonesInvariant, PTL

(* No plan spends more than its user granted, over all of its runs            *)
(* (Meter.allowance and Meter.record on a meter that carries on).             *)
THEOREM BudgetKept == Spec => []WithinBudget
<1>1. IInv => WithinBudget
  BY DEF IInv, RowAccounts, Sums, WithinBudget
<1> QED BY <1>1, MilestonesInvariant, PTL

(* The commands of a milestone are one run's: a resumed one is restricted.    *)
THEOREM NothingReplayed == Spec => []NoReplay
<1>1. IInv => NoReplay
  <2> SUFFICES ASSUME IInv, NEW i \in Items PROVE Cardinality(by[i]) <= 1
    BY DEF NoReplay
  <2>1. CASE by[i] = {}
    BY <2>1, FS_EmptySet
  <2>2. ASSUME NEW s, by[i] = {s}
        PROVE  Cardinality(by[i]) <= 1
    BY <2>2, FS_Singleton
  <2> QED BY <2>1, <2>2 DEF IInv, OneRun
<1> QED BY <1>1, MilestonesInvariant, PTL

(* A milestone that the row calls completed stays so: execute() skips it, and *)
(* the except clause does not take it back.                                   *)
THEOREM CompletedIsFinal == Spec => CompletedStays
<1>1. IInv /\ [Next]_vars =>
        [\A i \in Items : row.items[i] = "completed" => row'.items[i] = "completed"]_vars
  BY NextKeeps DEF Stays
<1> QED BY <1>1, MilestonesInvariant, PTL DEF Spec, CompletedStays
=============================================================================
