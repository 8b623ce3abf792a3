-------------------------------- MODULE Runs --------------------------------
(* The operation launcher of the builder's API process (backend/app/main.py): *)
(* one lock per project, a table of active runs capped at MaxActive, a thread *)
(* pool, cancellation events, and the `runs` rows of PostgreSQL that outlive  *)
(* the process.  The process may drain (lifespan shutdown), crash and restart *)
(* (db.init), and any statement may be lost before or AFTER its commit        *)
(* (db._attempt).                                                             *)
EXTENDS Naturals, FiniteSets

CONSTANTS
  Projects,     \* project ids
  Runs,         \* run ids; each names one call of launch()
  Edits,        \* request handlers that take the project lock themselves
  MaxActive,    \* len(active_runs) allowed by launch(): 3
  PoolSize,     \* ThreadPoolExecutor(max_workers=3)
  Pauses,       \* the outcomes that wait for the user: awaiting_plan, ...
  None          \* no project, no run, no holder

ASSUME RunsAssumption ==
  /\ IsFiniteSet(Projects) /\ IsFiniteSet(Runs)
  /\ MaxActive \in Nat \ {0} /\ PoolSize \in Nat \ {0}
  /\ Runs \cap Edits = {} /\ None \notin Runs \cup Edits \cup Projects
  /\ None \notin Pauses \cup {"completed", "failed", "cancelled"}
  /\ Pauses \cap {"absent", "running", "interrupted", "completed", "failed",
                  "cancelled"} = {}

VARIABLES
  phase,        \* the process: "up", "draining" or "down"
  lock,         \* locks[project_id]: the run or the handler that holds it
  active,       \* active_runs[project_id]
  token,        \* cancellations[run_id]: no event, event clear, event set
  pc,           \* how far the run has come, see Steps
  project, kind, outcome,   \* of each run while it is known to the process
  row,          \* the status column of the run's row in PostgreSQL
  lost          \* runs whose row says "running" because a write was lost

vars == <<phase, lock, active, token, pc, project, kind, outcome, row, lost>>

-----------------------------------------------------------------------------
(* "claimed" holds the lock and writes the row; "aborting" could not write it; *)
(* "queued" is in the pool; "working" runs the action; "settling" writes the   *)
(* status; "settled" drops the tables' entries; "popped" releases the lock;    *)
(* "shed" was cancelled in the pool's queue; "dead" went with the process.     *)
Registered == {"claimed", "queued", "working", "settling", "settled"}
Holding    == Registered \cup {"aborting", "popped"}
InThread   == {"working", "settling", "settled", "popped"}
InHandler  == {"claimed", "aborting"}
Steps      == Holding \cup {"unused", "shed", "over", "dead"}

Kinds    == {"stoppable", "unstoppable"}
Outcomes == {"completed", "failed", "cancelled"} \cup Pauses
Rows     == {"absent", "running", "interrupted"} \cup Outcomes

Threads == {r \in Runs : pc[r] \in InThread}
ActiveProjects == {p \in Projects : active[p] # None}

TypeOK ==
  /\ phase \in {"up", "draining", "down"}
  /\ lock \in [Projects -> Runs \cup Edits \cup {None}]
  /\ active \in [Projects -> Runs \cup {None}]
  /\ token \in [Runs -> {"absent", "clear", "set"}]
  /\ pc \in [Runs -> Steps]
  /\ project \in [Runs -> Projects \cup {None}]
  /\ kind \in [Runs -> Kinds \cup {None}]
  /\ outcome \in [Runs -> Outcomes \cup {None}]
  /\ row \in [Runs -> Rows]
  /\ lost \subseteq Runs

Init ==
  /\ phase = "up"
  /\ lock = [p \in Projects |-> None]
  /\ active = [p \in Projects |-> None]
  /\ token = [r \in Runs |-> "absent"]
  /\ pc = [r \in Runs |-> "unused"]
  /\ project = [r \in Runs |-> None]
  /\ kind = [r \in Runs |-> None]
  /\ outcome = [r \in Runs |-> None]
  /\ row = [r \in Runs |-> "absent"]
  /\ lost = {}

-----------------------------------------------------------------------------
(* Conditions and assignments the actions share.  Each one named *Fault is no *)
(* part of the specification: it is what a slip in the code would make of its *)
(* namesake, and breaks a property at the end of the module.                  *)
UnlockedFault(p) == active[p] = None            \* asks the wrong table
Unlocked(p)      == lock[p] = None              \* lock.acquire(blocking=False)

RoomFault == Cardinality(ActiveProjects) <= MaxActive
Room      == Cardinality(ActiveProjects) < MaxActive      \* len(active_runs) >= 3

ThreadFree == Cardinality(Threads) < PoolSize

(* active_runs.pop and cancellations.pop, under guard.                        *)
DeregisterFault(r) ==
  /\ token' = [token EXCEPT ![r] = "absent"]
  /\ UNCHANGED active
Deregister(r) ==
  /\ token' = [token EXCEPT ![r] = "absent"]
  /\ active' = [active EXCEPT ![project[r]] = None]

(* `status`, as work() writes it.                                             *)
StatusFault(r) == IF outcome[r] = "cancelled" THEN "completed" ELSE outcome[r]
Status(r)      == outcome[r]

(* launch() or work() returns: its locals go, the row stays.                  *)
Forget(r) ==
  /\ project' = [project EXCEPT ![r] = None]
  /\ kind' = [kind EXCEPT ![r] = None]
  /\ outcome' = [outcome EXCEPT ![r] = None]

(* db.init(): UPDATE runs SET status='interrupted' WHERE status='running'.    *)
ReopenedFault(r) == IF row[r] \in {"absent", "completed", "failed"} THEN row[r]
                                                                   ELSE "interrupted"
Reopened(r)      == IF row[r] = "running" THEN "interrupted" ELSE row[r]

-----------------------------------------------------------------------------
(* launch(): the part under `guard`.  A refusal (409) changes nothing.        *)
Claim(r, p, k) ==
  /\ phase = "up"
  /\ pc[r] = "unused"
  /\ Unlocked(p) /\ Room
  /\ lock' = [lock EXCEPT ![p] = r]
  /\ active' = [active EXCEPT ![p] = r]
  /\ token' = [token EXCEPT ![r] = "clear"]
  /\ pc' = [pc EXCEPT ![r] = "claimed"]
  /\ project' = [project EXCEPT ![r] = p]
  /\ kind' = [kind EXCEPT ![r] = k]
  /\ UNCHANGED <<phase, outcome, row, lost>>

(* INSERT INTO runs, then pool.submit(work).                                  *)
Insert(r) ==
  /\ pc[r] = "claimed"
  /\ row' = [row EXCEPT ![r] = "running"]
  /\ pc' = [pc EXCEPT ![r] = "queued"]
  /\ UNCHANGED <<phase, lock, active, token, project, kind, outcome, lost>>

(* The INSERT raises, before or after its commit: the handler drops the run's *)
(* entries under guard and goes on to release the lock.                       *)
InsertFails(r) ==
  /\ pc[r] = "claimed"
  /\ \/ UNCHANGED <<row, lost>>
     \/ /\ row' = [row EXCEPT ![r] = "running"]
        /\ lost' = lost \cup {r}
  /\ Deregister(r)
  /\ pc' = [pc EXCEPT ![r] = "aborting"]
  /\ UNCHANGED <<phase, lock, project, kind, outcome>>

(* A pool thread takes the run.  Once the pool is shut down none does.        *)
StartWork(r) ==
  /\ phase = "up"
  /\ pc[r] = "queued"
  /\ ThreadFree
  /\ pc' = [pc EXCEPT ![r] = "working"]
  /\ UNCHANGED <<phase, lock, active, token, project, kind, outcome, row, lost>>

(* action() returns or raises.  InterruptedError comes only from the actions  *)
(* that poll their event; a failing db.event in the except clause changes     *)
(* nothing, because `status` is already set.                                  *)
FinishWork(r, o) ==
  /\ pc[r] = "working"
  /\ o = "cancelled" => kind[r] = "stoppable" /\ token[r] = "set"
  /\ o \in Pauses => kind[r] = "stoppable"
  /\ outcome' = [outcome EXCEPT ![r] = o]
  /\ pc' = [pc EXCEPT ![r] = "settling"]
  /\ UNCHANGED <<phase, lock, active, token, project, kind, row, lost>>

(* UPDATE runs SET status: written; or it raises and was or was not written.  *)
(* The inner `finally` runs in each case.                                     *)
Settle(r) ==
  /\ pc[r] = "settling"
  /\ \/ /\ row' = [row EXCEPT ![r] = Status(r)]
        /\ UNCHANGED lost
     \/ /\ lost' = lost \cup {r}
        /\ UNCHANGED row
  /\ pc' = [pc EXCEPT ![r] = "settled"]
  /\ UNCHANGED <<phase, lock, active, token, project, kind, outcome>>

(* with guard: active_runs.pop, cancellations.pop.                            *)
Pop(r) ==
  /\ pc[r] = "settled"
  /\ Deregister(r)
  /\ pc' = [pc EXCEPT ![r] = "popped"]
  /\ UNCHANGED <<phase, lock, project, kind, outcome, row, lost>>

(* lock.release(), outside guard: the last statement of work(), and of the    *)
(* handler whose INSERT failed.                                               *)
ReleaseFault(r) ==                              \* that handler forgets it
  /\ pc[r] = "popped"
  /\ lock' = [lock EXCEPT ![project[r]] = None]
  /\ pc' = [pc EXCEPT ![r] = "over"]
  /\ Forget(r)
  /\ UNCHANGED <<phase, active, token, row, lost>>
Release(r) ==
  /\ pc[r] \in {"popped", "aborting"}
  /\ lock' = [lock EXCEPT ![project[r]] = None]
  /\ pc' = [pc EXCEPT ![r] = "over"]
  /\ Forget(r)
  /\ UNCHANGED <<phase, active, token, row, lost>>

(* cancel(): a run whose row is not yet written passes the check on its kind; *)
(* its id is already visible as the project's active_run.                     *)
Cancel(r) ==
  /\ phase = "up"
  /\ token[r] = "clear"
  /\ row[r] # "absent" => kind[r] = "stoppable"
  /\ token' = [token EXCEPT ![r] = "set"]
  /\ UNCHANGED <<phase, lock, active, pc, project, kind, outcome, row, lost>>

(* edit_metadata(), release_bundle() and download(): the handler itself holds *)
(* the lock, registers no run and is not counted against MaxActive.           *)
BeginEdit(e, p) ==
  /\ phase = "up"
  /\ \A q \in Projects : lock[q] # e
  /\ Unlocked(p)
  /\ lock' = [lock EXCEPT ![p] = e]
  /\ UNCHANGED <<phase, active, token, pc, project, kind, outcome, row, lost>>

EndEdit(e, p) ==
  /\ lock[p] = e
  /\ lock' = [lock EXCEPT ![p] = None]
  /\ UNCHANGED <<phase, active, token, pc, project, kind, outcome, row, lost>>

-----------------------------------------------------------------------------
(* lifespan after yield: the server has answered every request; each event is *)
(* set and the pool is shut down with cancel_futures, so what is queued never *)
(* runs and keeps its lock and its row.                                       *)
Shutdown ==
  /\ phase = "up"
  /\ \A r \in Runs : pc[r] \notin InHandler
  /\ \A p \in Projects : lock[p] \notin Edits
  /\ phase' = "draining"
  /\ token' = [r \in Runs |-> IF token[r] = "clear" THEN "set" ELSE token[r]]
  /\ pc' = [r \in Runs |-> IF pc[r] = "queued" THEN "shed" ELSE pc[r]]
  /\ UNCHANGED <<lock, active, project, kind, outcome, row, lost>>

(* The process ends and takes its tables with it.                             *)
Vanish ==
  /\ phase' = "down"
  /\ lock' = [p \in Projects |-> None]
  /\ active' = [p \in Projects |-> None]
  /\ token' = [r \in Runs |-> "absent"]
  /\ pc' = [r \in Runs |-> IF pc[r] \in {"unused", "over"} THEN pc[r] ELSE "dead"]
  /\ project' = [r \in Runs |-> None] /\ kind' = project' /\ outcome' = project'
  /\ UNCHANGED <<row, lost>>

(* The interpreter leaves once the pool's threads have returned ...           *)
Exit  == phase = "draining" /\ Threads = {} /\ Vanish
(* ... or dies at any time.                                                   *)
Crash == phase # "down" /\ Vanish

(* A new process: db.init() marks what the old one left unfinished.           *)
Restart ==
  /\ phase = "down"
  /\ phase' = "up"
  /\ row' = [r \in Runs |-> Reopened(r)]
  /\ lost' = {}
  /\ UNCHANGED <<lock, active, token, pc, project, kind, outcome>>

-----------------------------------------------------------------------------
(* What a run does on its own once it has been claimed.                       *)
Progress(r) ==
  \/ Insert(r) \/ InsertFails(r) \/ StartWork(r)
  \/ \E o \in Outcomes : FinishWork(r, o)
  \/ Settle(r) \/ Pop(r) \/ Release(r)

Next ==
  \/ \E r \in Runs, p \in Projects, k \in Kinds : Claim(r, p, k)
  \/ \E r \in Runs : Progress(r) \/ Cancel(r)
  \/ \E e \in Edits, p \in Projects : BeginEdit(e, p) \/ EndEdit(e, p)
  \/ Shutdown \/ Exit \/ Crash \/ Restart

Spec == Init /\ [][Next]_vars

(* Every thread is scheduled and every statement and action returns (each     *)
(* has a timeout in the code).  Nothing is assumed of users, nor that the     *)
(* process stays up or is started again.                                      *)
Fairness ==
  /\ \A r \in Runs : WF_vars(Progress(r))
  /\ \A e \in Edits : WF_vars(\E p \in Projects : EndEdit(e, p))

FairSpec == Spec /\ Fairness

-----------------------------------------------------------------------------
(* Safety. *)

(* README "Only one operation per project can run at a time": two background  *)
(* actions, or a background action and a handler that edits metadata, exports *)
(* a release or a download, never overlap on a project (launch, work,         *)
(* edit_metadata).                                                            *)
OneOperationPerProject ==
  \A r \in Runs : pc[r] = "working" =>
    /\ lock[project[r]] = r
    /\ \A s \in Runs \ {r} : pc[s] = "working" => project[s] # project[r]

(* README "at most three active operations overall": never more than          *)
(* MaxActive runs are between launch's and work's guarded sections.  Where    *)
(* the pool is no smaller, a run waiting in its queue therefore waits for a   *)
(* thread that is about to return, never for another run's action.            *)
AtMostMaxActive ==
  /\ Cardinality({r \in Runs : pc[r] \in Registered}) <= MaxActive
  /\ MaxActive <= PoolSize =>
       \A r \in Runs : pc[r] = "queued" =>
         Cardinality({s \in Runs : pc[s] \in Registered \ InHandler} \ {r}) < PoolSize

(* A run is the active run and has an event exactly while launch or work is   *)
(* between its two guarded sections; what pool.shutdown shed keeps its        *)
(* entries until the process ends.                                            *)
Kept == IF phase = "draining" THEN {"shed"} ELSE {}
LocksAgree ==
  /\ \A r \in Runs : pc[r] \in Registered =>
       active[project[r]] = r /\ token[r] # "absent"
  /\ \A r \in Runs : pc[r] \in Holding => lock[project[r]] = r
  /\ \A p \in Projects : active[p] # None =>
       lock[p] = active[p] /\ pc[active[p]] \in Registered \cup Kept
  /\ \A p \in Projects : lock[p] \in Runs =>
       pc[lock[p]] \in Holding \cup Kept /\ project[lock[p]] = p

(* A row says "running" only while a run is behind it, unless a statement's   *)
(* answer was lost since the last start.                                      *)
RunningRowHasOwner ==
  phase = "up" =>
    \A r \in Runs : row[r] = "running" =>
      r \in lost \/ pc[r] \in {"queued", "working", "settling"}

(* Tables, locks, threads and rows agree, so a project that `detail` shows    *)
(* idle may still be locked but never the other way round, and the clients    *)
(* that poll /api/runs/{id} wait for a run that will end (launch, work,       *)
(* db.init).                                                                  *)
TablesAgree == TypeOK /\ LocksAgree /\ RunningRowHasOwner

(* Action property: what a finished or interrupted run reports never changes, *)
(* whatever shutdowns, crashes and restarts follow.                           *)
TerminalRowsFinal ==
  [][\A r \in Runs : row[r] \in Outcomes \cup {"interrupted"} => row'[r] = row[r]]_vars

(* Liveness. *)

(* A project never stays locked: the release in the innermost `finally` is    *)
(* reached even when the last UPDATE raises.                                  *)
ProjectsGetFree == \A p \in Projects : []<>(lock[p] = None \/ phase # "up")

(* Who polls the runs and whose files they change sees the promises of        *)
(* Operations.tla kept: at most MaxActive runs act, each on a project of its  *)
(* own, a status tells how the action ended, a new process says interrupted   *)
(* of exactly what the old one left, and every run ends.                      *)
Working == {r \in Runs : pc[r] = "working"}
Board == INSTANCE Operations WITH
  serving   <- phase = "up",
  shown     <- row,
  acting    <- {<<r, project[r]>> : r \in Working},
  inHand    <- [r \in Runs |-> IF pc[r] = "settling" THEN outcome[r] ELSE None],
  forgotten <- lost
ImplementsOperations == Board!Spec
=============================================================================
