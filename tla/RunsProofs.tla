----------------------------- MODULE RunsProofs -----------------------------
(* Proofs about the operation launcher, for any number of projects, runs and  *)
(* handlers and any MaxActive and PoolSize.                                   *)
EXTENDS Runs, FiniteSetTheorems, TLAPS

(* At most MaxActive projects are in active_runs.                             *)
CapInv == Cardinality(ActiveProjects) <= MaxActive

(* What else the rows, the steps and the process have to do with each other:  *)
(* no row is written twice, and nothing lives in a process that is down.      *)
StepsAgree ==
  \A r \in Runs :
    /\ pc[r] \in {"unused", "claimed"} => row[r] = "absent"
    /\ pc[r] \in {"queued", "working", "settling"} => row[r] = "running"
    /\ pc[r] \in {"unused", "claimed", "queued", "working", "settling"} => r \notin lost
    /\ pc[r] \in Holding \cup {"shed"} => project[r] \in Projects /\ kind[r] \in Kinds
    /\ pc[r] = "settling" => outcome[r] \in Outcomes
    /\ pc[r] = "shed" => phase = "draining"
    /\ phase = "draining" => pc[r] \notin InHandler
    /\ phase = "down" => pc[r] \in {"unused", "over", "dead"}

(* The inductive invariant.                                                   *)
IInv ==
  /\ TypeOK
  /\ LocksAgree
  /\ RunningRowHasOwner
  /\ StepsAgree

USE DEF Registered, Holding, InThread, InHandler, Steps, Kinds, Outcomes, Rows,
        Unlocked, Room, Deregister, Status, Forget, Reopened

-----------------------------------------------------------------------------
(* Everything the process keeps in memory starts empty.                       *)
LEMMA InitEstablishes == Init => IInv
BY RunsAssumption DEF Init, IInv, TypeOK, LocksAgree, Kept, StepsAgree,
     RunningRowHasOwner

(* launch() under guard.                                                      *)
LEMMA ClaimKeeps ==
  ASSUME NEW r \in Runs, NEW p \in Projects, NEW k \in Kinds, IInv, Claim(r, p, k)
  PROVE  IInv'
<1> USE RunsAssumption DEF IInv
<1>1. TypeOK'
  BY DEF TypeOK, Claim
<1>2. LocksAgree'
  BY DEF TypeOK, LocksAgree, StepsAgree, Kept, Claim
<1>3. StepsAgree' /\ RunningRowHasOwner'
  BY DEF TypeOK, StepsAgree, RunningRowHasOwner, Claim
<1> QED BY <1>1, <1>2, <1>3

(* The INSERT of the run's row, answered or not.                              *)
LEMMA InsertKeeps ==
  ASSUME NEW r \in Runs, IInv, Insert(r) \/ InsertFails(r)
  PROVE  IInv'
<1> USE RunsAssumption DEF IInv
<1>1. CASE Insert(r)
  <2>1. TypeOK'
    BY <1>1 DEF TypeOK, Insert
  <2>2. LocksAgree'
    BY <1>1 DEF TypeOK, LocksAgree, StepsAgree, Kept, Insert
  <2>3. StepsAgree' /\ RunningRowHasOwner'
    BY <1>1 DEF TypeOK, StepsAgree, RunningRowHasOwner, Insert
  <2> QED BY <2>1, <2>2, <2>3
<1>2. CASE InsertFails(r)
  <2>1. TypeOK'
    BY <1>2 DEF TypeOK, InsertFails
  <2>2. LocksAgree'
    BY <1>2 DEF TypeOK, LocksAgree, StepsAgree, Kept, InsertFails
  <2>3. StepsAgree' /\ RunningRowHasOwner'
    BY <1>2 DEF TypeOK, StepsAgree, RunningRowHasOwner, InsertFails
  <2> QED BY <2>1, <2>2, <2>3
<1> QED BY <1>1, <1>2

(* The steps of work() up to its last UPDATE.                                 *)
LEMMA WorkKeeps ==
  ASSUME NEW r \in Runs, IInv,
         StartWork(r) \/ (\E o \in Outcomes : FinishWork(r, o)) \/ Settle(r)
  PROVE  IInv'
<1> USE RunsAssumption DEF IInv
<1>1. TypeOK'
  BY DEF TypeOK, StepsAgree, StartWork, FinishWork, Settle
<1>2. LocksAgree'
  BY DEF TypeOK, LocksAgree, StepsAgree, Kept, StartWork, FinishWork, Settle
<1>3. StepsAgree'
  BY DEF TypeOK, StepsAgree, StartWork, FinishWork, Settle
<1>4. RunningRowHasOwner'
  BY DEF TypeOK, StepsAgree, RunningRowHasOwner, StartWork, FinishWork, Settle
<1> QED BY <1>1, <1>2, <1>3, <1>4

(* The two releases of work()'s innermost finally.                            *)
LEMMA LeaveKeeps ==
  ASSUME NEW r \in Runs, IInv, Pop(r) \/ Release(r)
  PROVE  IInv'
<1> USE RunsAssumption DEF IInv
<1>1. TypeOK'
  BY DEF TypeOK, Pop, Release
<1>2. LocksAgree'
  <2>1. CASE Pop(r)
    BY <2>1 DEF TypeOK, LocksAgree, StepsAgree, Kept, Pop
  <2>2. CASE Release(r)
    BY <2>2 DEF TypeOK, LocksAgree, StepsAgree, Kept, Release
  <2> QED BY <2>1, <2>2
<1>3. StepsAgree' /\ RunningRowHasOwner'
  BY DEF TypeOK, StepsAgree, RunningRowHasOwner, Pop, Release
<1> QED BY <1>1, <1>2, <1>3

(* Requests: cancellation, and the handlers that take the lock themselves.    *)
LEMMA RequestKeeps ==
  ASSUME IInv,
         \/ \E r \in Runs : Cancel(r)
         \/ \E e \in Edits, p \in Projects : BeginEdit(e, p) \/ EndEdit(e, p)
  PROVE  IInv'
<1> USE RunsAssumption DEF IInv
<1>1. CASE \E r \in Runs : Cancel(r)
  BY <1>1 DEF TypeOK, LocksAgree, Kept, StepsAgree, RunningRowHasOwner, Cancel
<1>2. CASE \E e \in Edits, p \in Projects : BeginEdit(e, p) \/ EndEdit(e, p)
  <2>1. TypeOK'
    BY <1>2 DEF TypeOK, BeginEdit, EndEdit
  <2>2. LocksAgree'
    BY <1>2 DEF TypeOK, LocksAgree, StepsAgree, Kept, BeginEdit, EndEdit
  <2>3. StepsAgree' /\ RunningRowHasOwner'
    BY <1>2 DEF StepsAgree, RunningRowHasOwner, BeginEdit, EndEdit
  <2> QED BY <2>1, <2>2, <2>3
<1> QED BY <1>1, <1>2

(* The life of the process.                                                   *)
LEMMA ProcessKeeps ==
  ASSUME IInv, Shutdown \/ Exit \/ Crash \/ Restart
  PROVE  IInv'
<1> USE RunsAssumption DEF IInv
<1>1. CASE Shutdown
  <2>1. TypeOK'
    BY <1>1 DEF TypeOK, Shutdown
  <2>2. LocksAgree'
    BY <1>1 DEF TypeOK, LocksAgree, StepsAgree, Kept, Shutdown
  <2>3. StepsAgree' /\ RunningRowHasOwner'
    BY <1>1 DEF TypeOK, StepsAgree, RunningRowHasOwner, Shutdown
  <2> QED BY <2>1, <2>2, <2>3
<1>2. CASE Exit \/ Crash
  <2>1. Vanish
    BY <1>2 DEF Exit, Crash
  <2>2. TypeOK'
    BY <2>1 DEF TypeOK, Vanish
  <2>3. LocksAgree'
    BY <2>1 DEF TypeOK, LocksAgree, Kept, Vanish
  <2>4. StepsAgree' /\ RunningRowHasOwner'
    BY <2>1 DEF TypeOK, StepsAgree, RunningRowHasOwner, Vanish
  <2> QED BY <2>2, <2>3, <2>4
<1>3. CASE Restart
  <2>1. TypeOK'
    BY <1>3 DEF TypeOK, Restart
  <2>2. LocksAgree'
    BY <1>3 DEF TypeOK, LocksAgree, StepsAgree, Kept, Restart
  <2>3. StepsAgree'
    BY <1>3 DEF TypeOK, StepsAgree, Restart
  <2>4. RunningRowHasOwner'
    BY <1>3 DEF TypeOK, StepsAgree, RunningRowHasOwner, Restart
  <2> QED BY <2>1, <2>2, <2>3, <2>4
<1> QED BY <1>1, <1>2, <1>3

LEMMA NextKeeps == IInv /\ [Next]_vars => IInv'
<1> SUFFICES ASSUME IInv, [Next]_vars PROVE IInv'
  OBVIOUS
<1>1. CASE UNCHANGED vars
  BY <1>1 DEF vars, IInv, TypeOK, LocksAgree, Kept, StepsAgree,
              RunningRowHasOwner
<1>2. CASE \E r \in Runs, p \in Projects, k \in Kinds : Claim(r, p, k)
  BY <1>2, ClaimKeeps
<1>3. CASE \E r \in Runs : Progress(r)
  BY <1>3, InsertKeeps, WorkKeeps, LeaveKeeps DEF Progress
<1>4. CASE \/ \E r \in Runs : Cancel(r)
           \/ \E e \in Edits, p \in Projects : BeginEdit(e, p) \/ EndEdit(e, p)
  BY <1>4, RequestKeeps
<1>5. CASE Shutdown \/ Exit \/ Crash \/ Restart
  BY <1>5, ProcessKeeps
<1> QED BY <1>1, <1>2, <1>3, <1>4, <1>5 DEF Next

-----------------------------------------------------------------------------
(* Every reachable state is well formed, and the tables, the threads and the  *)
(* rows agree in it: the invariant the other theorems rest on.                *)
THEOREM InductiveInvariant == Spec => []IInv
BY InitEstablishes, NextKeeps, PTL DEF Spec

(* README "Only one operation per project can run at a time", for any number  *)
(* of projects, runs and handlers.                                            *)
THEOREM MutualExclusion == Spec => []OneOperationPerProject
<1>1. IInv => OneOperationPerProject
  BY RunsAssumption DEF IInv, TypeOK, LocksAgree, OneOperationPerProject
<1> QED BY <1>1, InductiveInvariant, PTL

(* The tables, the locks, the threads and the rows of launch(), work() and    *)
(* db.init() agree at every step; a row that says "running" has a live run    *)
(* behind it, or a statement's answer was lost.                               *)
THEOREM Agreement == Spec => []TablesAgree
<1>1. IInv => TablesAgree
  BY DEF IInv, TablesAgree
<1> QED BY <1>1, InductiveInvariant, PTL

(* What a finished or interrupted run reports never changes.                  *)
THEOREM FinalRows == Spec => TerminalRowsFinal
<1>1. ASSUME IInv, [Next]_vars, NEW r \in Runs,
             row[r] \in Outcomes \cup {"interrupted"}
      PROVE  row'[r] = row[r]
  <2>1. row[r] \notin {"absent", "running"}
    BY <1>1, RunsAssumption
  <2> QED
    BY <1>1, <2>1 DEF IInv, TypeOK, StepsAgree, Next, Progress, vars, Claim, Insert,
         InsertFails, StartWork, FinishWork, Settle, Pop, Release, Cancel, BeginEdit,
         EndEdit, Shutdown, Exit, Crash, Vanish, Restart
<1>2. IInv /\ [Next]_vars =>
        [\A r \in Runs : row[r] \in Outcomes \cup {"interrupted"} => row'[r] = row[r]]_vars
  BY <1>1
<1> QED BY <1>2, InductiveInvariant, PTL DEF Spec, TerminalRowsFinal

-----------------------------------------------------------------------------
(* The cap.  active_runs grows only in launch's guarded section, which counts *)
(* it first.                                                                  *)
LEMMA ActiveFinite == IsFiniteSet(ActiveProjects) /\ Cardinality(ActiveProjects) \in Nat
<1>1. ActiveProjects \in SUBSET Projects
  BY DEF ActiveProjects
<1> QED BY <1>1, FS_Subset, FS_CardinalityType, RunsAssumption

LEMMA CapKeeps == IInv /\ CapInv /\ [Next]_vars => CapInv'
<1> SUFFICES ASSUME IInv, CapInv, [Next]_vars PROVE CapInv'
  OBVIOUS
<1>1. CASE \E r \in Runs, p \in Projects, k \in Kinds : Claim(r, p, k)
  <2>1. PICK r \in Runs, p \in Projects, k \in Kinds : Claim(r, p, k)
    BY <1>1
  <2>2. Cardinality(ActiveProjects) < MaxActive
    BY <2>1 DEF Claim
  <2>3. ActiveProjects' = ActiveProjects \cup {p}
    BY <2>1, RunsAssumption DEF Claim, ActiveProjects, IInv, TypeOK
  <2>4. /\ IsFiniteSet(ActiveProjects \cup {p})
        /\ Cardinality(ActiveProjects \cup {p})
             = IF p \in ActiveProjects THEN Cardinality(ActiveProjects)
                                       ELSE Cardinality(ActiveProjects) + 1
    BY ActiveFinite, FS_AddElement, Zenon
  <2> DEFINE n == Cardinality(ActiveProjects)
             m == Cardinality(ActiveProjects \cup {p})
  <2>5. n \in Nat /\ n < MaxActive /\ (m = n \/ m = n + 1)
    BY <2>2, <2>4, ActiveFinite
  <2>6. CapInv' <=> m <= MaxActive
    BY <2>3 DEF CapInv
  <2> HIDE DEF n, m
  <2> QED BY <2>5, <2>6, RunsAssumption
<1>2. CASE ActiveProjects' \subseteq ActiveProjects
  <2>1. Cardinality(ActiveProjects') <= Cardinality(ActiveProjects)
    BY <1>2, ActiveFinite, FS_Subset
  <2>2. IsFiniteSet(ActiveProjects')
    BY <1>2, ActiveFinite, FS_Subset
  <2>3. Cardinality(ActiveProjects') \in Nat
    BY <2>2, FS_CardinalityType
  <2> QED BY <2>1, <2>3, ActiveFinite, RunsAssumption DEF CapInv
<1>3. ASSUME ~ \E r \in Runs, p \in Projects, k \in Kinds : Claim(r, p, k)
      PROVE  ActiveProjects' \subseteq ActiveProjects
  BY <1>3, RunsAssumption DEF IInv, TypeOK, StepsAgree, ActiveProjects, Next, Progress,
       vars, Insert, InsertFails, StartWork, FinishWork, Settle, Pop, Release, Cancel,
       BeginEdit, EndEdit, Shutdown, Exit, Crash, Vanish, Restart
<1> QED BY <1>1, <1>2, <1>3

LEMMA CapInitially == Init => CapInv
<1> SUFFICES ASSUME Init PROVE CapInv
  OBVIOUS
<1>1. ActiveProjects = {}
  BY DEF Init, ActiveProjects
<1> QED BY <1>1, FS_EmptySet, RunsAssumption DEF CapInv

(* Each registered run has a project of its own in active_runs, so there are  *)
(* no more of the ones than of the others.                                    *)
LEMMA RegisteredFit ==
  ASSUME IInv, CapInv
  PROVE  /\ IsFiniteSet({r \in Runs : pc[r] \in Registered})
         /\ Cardinality({r \in Runs : pc[r] \in Registered}) \in Nat
         /\ Cardinality({r \in Runs : pc[r] \in Registered}) <= MaxActive
<1> DEFINE R == {r \in Runs : pc[r] \in Registered}
           f == [r \in R |-> project[r]]
<1>1. \A r \in R : project[r] \in Projects /\ active[project[r]] = r
  BY DEF IInv, StepsAgree, LocksAgree
<1>2. f \in [R -> ActiveProjects]
  BY <1>1, RunsAssumption DEF ActiveProjects
<1>3. \A r, s \in R : f[r] = f[s] => r = s
  BY <1>1
<1>4. f \in Injection(R, ActiveProjects)
  BY <1>2, <1>3 DEF Injection, IsInjective
<1>5. IsFiniteSet(R) /\ Cardinality(R) <= Cardinality(ActiveProjects)
  BY <1>4, ActiveFinite, FS_Injection
<1>6. Cardinality(R) \in Nat
  BY <1>5, FS_CardinalityType
<1> HIDE DEF R
<1>7. Cardinality(R) <= MaxActive
  BY <1>5, <1>6, ActiveFinite, RunsAssumption DEF CapInv
<1> QED BY <1>5, <1>6, <1>7 DEF R

(* README "at most three active operations overall", for any MaxActive, and   *)
(* what it buys: a run accepted into a pool of that size finds a thread.      *)
THEOREM OperationCap == Spec => []AtMostMaxActive
<1>1. IInv /\ CapInv => AtMostMaxActive
  <2> SUFFICES ASSUME IInv, CapInv PROVE AtMostMaxActive
    OBVIOUS
  <2> DEFINE R == {r \in Runs : pc[r] \in Registered}
  <2>1. IsFiniteSet(R) /\ Cardinality(R) \in Nat /\ Cardinality(R) <= MaxActive
    BY RegisteredFit
  <2>2. ASSUME MaxActive <= PoolSize, NEW r \in Runs, pc[r] = "queued"
        PROVE  Cardinality({s \in Runs : pc[s] \in Registered \ InHandler} \ {r}) < PoolSize
    <3> DEFINE S == {s \in Runs : pc[s] \in Registered \ InHandler} \ {r}
    <3>1. S \in SUBSET (R \ {r})
      OBVIOUS
    <3>2. r \in R
      BY <2>2
    <3> HIDE DEF R, S
    <3>3. IsFiniteSet(R \ {r}) /\ Cardinality(R \ {r}) = Cardinality(R) - 1
      BY <2>1, <3>2, FS_RemoveElement
    <3>4. IsFiniteSet(S) /\ Cardinality(S) <= Cardinality(R \ {r})
      BY <3>1, <3>3, FS_Subset
    <3>5. Cardinality(S) \in Nat
      BY <3>4, FS_CardinalityType
    <3>6. Cardinality(S) < PoolSize
      BY <2>1, <2>2, <3>3, <3>4, <3>5, RunsAssumption
    <3> QED BY <3>6 DEF S
  <2> QED BY <2>1, <2>2 DEF AtMostMaxActive
<1> QED BY <1>1, InductiveInvariant, CapInitially, CapKeeps, PTL DEF Spec

-----------------------------------------------------------------------------
(* The refinement: who sees no more than the rows, which run acts on which    *)
(* project, and whether requests are answered, sees Operations.tla.           *)

LEMMA BoardInit == Init => Board!Init
BY DEF Init, Board!Init, Working

(* A pool thread takes a run: the others that act are on other projects, and  *)
(* fewer than MaxActive.                                                      *)
LEMMA BoardAct ==
  ASSUME IInv, CapInv, NEW r \in Runs, StartWork(r)
  PROVE  Board!Act(r, project[r])
<1> DEFINE acting == {<<s, project[s]>> : s \in Working}
           R == {s \in Runs : pc[s] \in Registered}
<1> USE RunsAssumption
<1>1. pc[r] = "queued" /\ phase = "up" /\ pc' = [pc EXCEPT ![r] = "working"]
  BY DEF StartWork
<1>2. row[r] = "running" /\ r \notin lost /\ project[r] \in Projects
  BY <1>1 DEF IInv, StepsAgree
<1>3. \A s \in Working : s # r /\ project[s] # project[r]
  BY <1>1 DEF IInv, LocksAgree, Working
<1>4. \A a \in acting : a[1] # r /\ a[2] # project[r]
  BY <1>3
<1>5. Working' = Working \cup {r}
  BY <1>1 DEF Working, IInv, TypeOK
<1>6. {<<s, project'[s]>> : s \in Working'} = acting \cup {<<r, project[r]>>}
  BY <1>5 DEF StartWork
<1>7. Cardinality(acting) < MaxActive
  <2> DEFINE f == [a \in acting |-> a[1]]
  <2>1. /\ IsFiniteSet(R) /\ Cardinality(R) \in Nat /\ Cardinality(R) <= MaxActive
    BY RegisteredFit
  <2>2. r \in R
    BY <1>1
  <2>3. \A a \in acting : a[1] \in R \ {r} /\ a = <<a[1], project[a[1]]>>
    BY <1>3 DEF Working
  <2>4. f \in Injection(acting, R \ {r})
    BY <2>3 DEF Injection, IsInjective
  <2> HIDE DEF R, acting, f
  <2>5. IsFiniteSet(R \ {r}) /\ Cardinality(R \ {r}) = Cardinality(R) - 1
    BY <2>1, <2>2, FS_RemoveElement
  <2>6. IsFiniteSet(acting) /\ Cardinality(acting) <= Cardinality(R \ {r})
    BY <2>4, <2>5, FS_Injection
  <2>7. Cardinality(acting) \in Nat
    BY <2>6, FS_CardinalityType
  <2> QED BY <2>1, <2>5, <2>6, <2>7
<1>8. [s \in Runs |-> IF pc'[s] = "settling" THEN outcome'[s] ELSE None]
        = [s \in Runs |-> IF pc[s] = "settling" THEN outcome[s] ELSE None]
  BY <1>1 DEF StartWork, IInv, TypeOK
<1>9. UNCHANGED <<phase, row, lost>>
  BY DEF StartWork
<1>10. Board!Cardinality(acting) = Cardinality(acting)
  BY DEF Board!Cardinality, Cardinality
<1> HIDE DEF R
<1> QED BY <1>1, <1>2, <1>4, <1>6, <1>7, <1>8, <1>9, <1>10 DEF Board!Act

(* The INSERT, answered or not, is the run's acceptance, or nothing yet.      *)
LEMMA BoardInsert ==
  ASSUME IInv, NEW r \in Runs, Insert(r) \/ InsertFails(r)
  PROVE  Board!Accept(r) \/ UNCHANGED Board!vars
<1>1. pc[r] = "claimed" /\ phase = "up" /\ row[r] = "absent"
  BY DEF Insert, InsertFails, IInv, TypeOK, StepsAgree
<1>2. Working' = Working /\ UNCHANGED <<project, outcome, phase>>
  BY <1>1 DEF Insert, InsertFails, IInv, TypeOK, Working
<1>3. [s \in Runs |-> IF pc'[s] = "settling" THEN outcome'[s] ELSE None]
        = [s \in Runs |-> IF pc[s] = "settling" THEN outcome[s] ELSE None]
  BY <1>1 DEF Insert, InsertFails, IInv, TypeOK
<1> QED BY <1>1, <1>2, <1>3 DEF Insert, InsertFails, Board!Accept, Board!vars

(* The action ends, and its outcome is reported or lost.                      *)
LEMMA BoardEnd ==
  ASSUME IInv, NEW r \in Runs, NEW o \in Outcomes, FinishWork(r, o)
  PROVE  Board!End(r, project[r], o)
<1>1. pc[r] = "working" /\ pc' = [pc EXCEPT ![r] = "settling"]
  BY DEF FinishWork
<1>2. Working' = Working \ {r} /\ r \in Working
  BY <1>1 DEF Working, IInv, TypeOK
<1>3. {<<s, project'[s]>> : s \in Working'}
        = {<<s, project[s]>> : s \in Working} \ {<<r, project[r]>>}
  BY <1>2 DEF FinishWork
<1>4. [s \in Runs |-> IF pc'[s] = "settling" THEN outcome'[s] ELSE None]
        = [[s \in Runs |-> IF pc[s] = "settling" THEN outcome[s] ELSE None]
             EXCEPT ![r] = o]
  BY <1>1 DEF FinishWork, IInv, TypeOK
<1> QED BY <1>2, <1>3, <1>4 DEF FinishWork, Board!End

LEMMA BoardReport ==
  ASSUME IInv, NEW r \in Runs, Settle(r)
  PROVE  Board!Report(r)
<1>1. pc[r] = "settling" /\ outcome[r] \in Outcomes /\ outcome[r] # None
  BY RunsAssumption DEF Settle, IInv, StepsAgree
<1>2. Working' = Working /\ project' = project /\ phase' = phase
  BY <1>1 DEF Settle, Working, IInv, TypeOK
<1>3. [s \in Runs |-> IF pc'[s] = "settling" THEN outcome'[s] ELSE None]
        = [[s \in Runs |-> IF pc[s] = "settling" THEN outcome[s] ELSE None]
             EXCEPT ![r] = None]
  BY <1>1 DEF Settle, IInv, TypeOK
<1> QED BY <1>1, <1>2, <1>3 DEF Settle, Board!Report

(* Steps that an observer of the rows and of the files does not see.          *)
LEMMA BoardStutters ==
  ASSUME IInv,
         \/ \E r \in Runs : Pop(r) \/ Release(r) \/ Cancel(r)
         \/ \E r \in Runs, p \in Projects, k \in Kinds : Claim(r, p, k)
         \/ \E e \in Edits, p \in Projects : BeginEdit(e, p) \/ EndEdit(e, p)
         \/ UNCHANGED vars
  PROVE  UNCHANGED Board!vars
<1>1. Working' = Working /\ \A s \in Working : project'[s] = project[s]
  BY DEF Pop, Release, Cancel, Claim, BeginEdit, EndEdit, vars, Working, IInv, TypeOK
<1>2. {<<s, project'[s]>> : s \in Working'} = {<<s, project[s]>> : s \in Working}
  BY <1>1
<1>3. [s \in Runs |-> IF pc'[s] = "settling" THEN outcome'[s] ELSE None]
        = [s \in Runs |-> IF pc[s] = "settling" THEN outcome[s] ELSE None]
  BY DEF Pop, Release, Cancel, Claim, BeginEdit, EndEdit, vars, IInv, TypeOK
<1>4. UNCHANGED <<row, lost, phase>>
  BY DEF Pop, Release, Cancel, Claim, BeginEdit, EndEdit, vars
<1> QED BY <1>2, <1>3, <1>4 DEF Board!vars

(* The process stops, dies and starts again.                                  *)
LEMMA BoardProcess ==
  ASSUME IInv, Shutdown \/ Exit \/ Crash \/ Restart
  PROVE  Board!Drain \/ Board!Die \/ Board!Restart
<1>1. CASE Shutdown
  <2>1. Working' = Working /\ project' = project
    BY <1>1 DEF Shutdown, Working, IInv, TypeOK
  <2>2. [s \in Runs |-> IF pc'[s] = "settling" THEN outcome'[s] ELSE None]
          = [s \in Runs |-> IF pc[s] = "settling" THEN outcome[s] ELSE None]
    BY <1>1 DEF Shutdown, IInv, TypeOK
  <2> QED BY <1>1, <2>1, <2>2 DEF Shutdown, Board!Drain
<1>2. CASE Exit \/ Crash
  <2>1. Vanish
    BY <1>2 DEF Exit, Crash
  <2>2. Working' = {}
    BY <2>1 DEF Vanish, Working
  <2>3. [s \in Runs |-> IF pc'[s] = "settling" THEN outcome'[s] ELSE None]
          = [s \in Runs |-> None]
    BY <2>1 DEF Vanish
  <2> QED BY <2>1, <2>2, <2>3 DEF Vanish, Board!Die
<1>3. CASE Restart
  <2>1. Working = {} /\ Working' = {}
    BY <1>3 DEF Restart, Working, IInv, StepsAgree
  <2> QED BY <1>3, <2>1 DEF Restart, Board!Restart
<1> QED BY <1>1, <1>2, <1>3

LEMMA BoardStep == IInv /\ CapInv /\ [Next]_vars => [Board!Next]_(Board!vars)
<1> SUFFICES ASSUME IInv, CapInv, [Next]_vars PROVE Board!Next \/ UNCHANGED Board!vars
  OBVIOUS
<1>1. ASSUME NEW r \in Runs, StartWork(r)
      PROVE  Board!Next
  <2>1. project[r] \in Projects
    BY <1>1 DEF StartWork, IInv, StepsAgree
  <2>2. Board!Act(r, project[r])
    BY <1>1, BoardAct
  <2>3. \E p \in Projects : Board!Act(r, p)
    BY <2>1, <2>2 DEF Board!Act
  <2> QED BY <2>3, Zenon DEF Board!Next
<1>2. ASSUME NEW r \in Runs, NEW o \in Outcomes, FinishWork(r, o)
      PROVE  Board!Next
  <2>1. project[r] \in Projects
    BY <1>2 DEF FinishWork, IInv, StepsAgree
  <2>2. Board!End(r, project[r], o)
    BY <1>2, BoardEnd
  <2> QED BY <2>1, <2>2, Zenon DEF Board!Next
<1>3. ASSUME NEW r \in Runs, Insert(r) \/ InsertFails(r) \/ Settle(r)
      PROVE  Board!Next \/ UNCHANGED Board!vars
  BY <1>3, BoardInsert, BoardReport DEF Board!Next
<1>4. CASE Shutdown \/ Exit \/ Crash \/ Restart
  BY <1>4, BoardProcess DEF Board!Next
<1>5. CASE \/ \E r \in Runs : Pop(r) \/ Release(r) \/ Cancel(r)
           \/ \E r \in Runs, p \in Projects, k \in Kinds : Claim(r, p, k)
           \/ \E e \in Edits, p \in Projects : BeginEdit(e, p) \/ EndEdit(e, p)
           \/ UNCHANGED vars
  BY <1>5, BoardStutters
<1> QED BY <1>1, <1>2, <1>3, <1>4, <1>5 DEF Next, Progress

(* launch(), work(), lifespan and db.init() implement the safety part of      *)
(* Operations.tla, for any number of projects, runs and handlers.             *)
THEOREM Implementation == Spec => Board!Safety
BY BoardInit, BoardStep, InitEstablishes, NextKeeps, CapInitially, CapKeeps, PTL
   DEF Spec, Board!Safety
=============================================================================
