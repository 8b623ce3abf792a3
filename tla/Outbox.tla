-------------------------------- MODULE Outbox --------------------------------
(* The delivery queue of the Accounts kit (integrations.py, ops.py): email and *)
(* webhooks are queued in the transaction that causes them, workers lease one  *)
(* at a time, call the provider outside of any transaction and write down what *)
(* came of it.  Workers stall and die, answers and statements get lost, leases *)
(* expire under a call, and administrators requeue what was given up.          *)
EXTENDS Naturals, FiniteSets

CONSTANTS
  Entries,      \* rows of app_outbox
  Workers,      \* delivery workers
  Admins,       \* requests to retry a delivery
  MaxAttempts,  \* 8
  Lease,        \* 120 seconds
  Backoff,      \* min(3600, 30 * 2^attempts) seconds
  SendWindow,   \* 23 hours
  CallLag,      \* a worker that is later than this is dead (timeouts of httpx)
  KeyLife,      \* how long the provider remembers an idempotency key, 24 hours
  Keep,         \* 30 days
  LastEnqueue,  \* bound: nothing is queued later than this
  LastTime,     \* bound on the clock
  Nobody

ASSUME OutboxAssumption ==
  /\ {MaxAttempts, Lease, SendWindow, CallLag, KeyLife, Keep, LastEnqueue, LastTime} \subseteq Nat
  /\ Backoff \in [0..(MaxAttempts - 1) -> Nat]
  /\ SendWindow + CallLag < KeyLife /\ MaxAttempts > 0 /\ Nobody \notin Workers \cup Nat

VARIABLES
  time,         \* now()
  row,          \* app_outbox
  job,          \* what each worker has taken from its tick
  request,      \* the row an administrator's retry has read
  \* the provider:
  known,        \* when it first accepted the key, while it remembers
  effects       \* how many messages it sent for the row

provider == <<known, effects>>
queueVars == <<time, row, job, request, provider>>

-----------------------------------------------------------------------------
Statuses == {"absent", "queued", "sending", "sent", "dead", "deleted"}
Moments  == 0..LastTime
Attempts == 0..MaxAttempts
Rows == [status : Statuses, attempts : Attempts, available : Nat, until : Nat,
         lease : Workers \cup {Nobody}, created : Moments]
Jobs == [entry : Entries, stamp : Moments, attempts : 0..(MaxAttempts - 1),
         answer : {"none", "sent", "failed"}]
NoRow == [status |-> "absent", attempts |-> 0, available |-> 0, until |-> 0,
          lease |-> Nobody, created |-> 0]

QueueTypeOK ==
  /\ time \in Moments
  /\ row \in [Entries -> Rows]
  /\ job \in [Workers -> Jobs \cup {Nobody}]
  /\ request \in [Admins -> Entries \cup {Nobody}]
  /\ known \in [Entries -> Moments \cup {Nobody}]
  /\ effects \in [Entries -> Nat]

QueueInit ==
  /\ time = 0
  /\ row = [e \in Entries |-> NoRow]
  /\ job = [w \in Workers |-> Nobody]
  /\ request = [a \in Admins |-> Nobody]
  /\ known = [e \in Entries |-> Nobody] /\ effects = [e \in Entries |-> 0]

-----------------------------------------------------------------------------
(* enqueue(), in the transaction of its caller.                               *)
New == [status |-> "queued", attempts |-> 0, available |-> time, until |-> 0,
        lease |-> Nobody, created |-> time]

Enqueue(e) ==
  /\ row[e].status = "absent" /\ time <= LastEnqueue
  /\ row' = [row EXCEPT ![e] = New]
  /\ UNCHANGED <<time, job, request, provider>>

-----------------------------------------------------------------------------
(* tick() begins with one transaction: old rows go, and one row is taken.     *)
Gone    == [NoRow EXCEPT !.status = "deleted"]
Cleaned == [e \in Entries |-> IF row[e].status = "sent" /\ row[e].created + Keep < time
                              THEN Gone ELSE row[e]]

DueFault(e) == row[e].status = "queued" /\ row[e].available <= time
Due(e) == \/ row[e].status = "queued" /\ row[e].available <= time
          \/ row[e].status = "sending" /\ row[e].until < time

(* ORDER BY created_at LIMIT 1                                                *)
First(e) == Due(e) /\ \A f \in Entries : Due(f) => row[e].created <= row[f].created

ExpiredFault(e) == row[e].attempts >= MaxAttempts
Expired(e) == row[e].created + SendWindow < time \/ row[e].attempts >= MaxAttempts

Sweep(w) ==
  /\ job[w] = Nobody
  /\ \A e \in Entries : ~Due(e)
  /\ row' = Cleaned
  /\ UNCHANGED <<time, job, request, provider>>

GiveUp(w, e) ==
  /\ job[w] = Nobody /\ First(e) /\ Expired(e)
  /\ row' = [Cleaned EXCEPT ![e] = [row[e] EXCEPT !.status = "dead"]]
  /\ UNCHANGED <<time, job, request, provider>>

Taken(r, w) == [status |-> "sending", attempts |-> r.attempts + 1, lease |-> w,
                until |-> time + Lease, available |-> r.available, created |-> r.created]

Take(w, e) ==
  /\ job[w] = Nobody /\ First(e) /\ ~Expired(e)
  /\ row' = [Cleaned EXCEPT ![e] = Taken(row[e], w)]
  /\ job' = [job EXCEPT ![w] = [entry |-> e, stamp |-> time,
                                attempts |-> row[e].attempts, answer |-> "none"]]
  /\ UNCHANGED <<time, request, provider>>

(* deliver(): the provider accepts or not, and the answer arrives or not.     *)
StillKnown(e) == known[e] # Nobody /\ time < known[e] + KeyLife

Accept(w) ==
  /\ job[w] # Nobody /\ job[w].answer = "none"
  /\ LET e == job[w].entry IN
       /\ known'   = [known EXCEPT ![e] = IF StillKnown(e) THEN @ ELSE time]
       /\ effects' = [effects EXCEPT ![e] = IF StillKnown(e) THEN @ ELSE @ + 1]
  /\ \E answer \in {"sent", "failed"} : job' = [job EXCEPT ![w].answer = answer]
  /\ UNCHANGED <<time, row, request>>

Refuse(w) ==
  /\ job[w] # Nobody /\ job[w].answer = "none"
  /\ job' = [job EXCEPT ![w].answer = "failed"]
  /\ UNCHANGED <<time, row, request, provider>>

(* The second transaction, for whoever still holds the lease.                 *)
StatusAfter(j) == IF j.answer = "sent" THEN "sent"
                  ELSE IF j.attempts + 1 >= MaxAttempts THEN "dead" ELSE "queued"

Decided(r, j) == [r EXCEPT !.status = StatusAfter(j), !.until = 0,
                           !.available = j.stamp + Backoff[j.attempts]]

HoldsFault(w) == TRUE
Holds(w)      == row[job[w].entry].lease = w

Finish(w) ==
  /\ job[w] # Nobody /\ job[w].answer # "none"
  /\ LET e == job[w].entry IN
       row' = IF Holds(w) THEN [row EXCEPT ![e] = Decided(row[e], job[w])] ELSE row
  /\ job' = [job EXCEPT ![w] = Nobody]
  /\ UNCHANGED <<time, request, provider>>

(* The worker dies, or its second transaction raises.                         *)
Vanish(w) ==
  /\ job[w] # Nobody
  /\ job' = [job EXCEPT ![w] = Nobody]
  /\ UNCHANGED <<time, row, request, provider>>

-----------------------------------------------------------------------------
(* retry() of ops.py reads the row and writes it in one transaction, but      *)
(* without a lock on the row in between.                                      *)
Recent(e) == row[e].created + SendWindow >= time

RetryRead(a, e) ==
  /\ request[a] = Nobody
  /\ row[e].status = "dead" /\ Recent(e)
  /\ request' = [request EXCEPT ![a] = e]
  /\ UNCHANGED <<time, row, job, provider>>

Requeued(r) == [status |-> "queued", attempts |-> 0, available |-> time, until |-> 0,
                lease |-> r.lease, created |-> r.created]

RetryWrite(a) ==
  /\ request[a] # Nobody
  /\ LET e == request[a] IN
       row' = IF row[e].status = "deleted" THEN row
              ELSE [row EXCEPT ![e] = Requeued(row[e])]
  /\ request' = [request EXCEPT ![a] = Nobody]
  /\ UNCHANGED <<time, job, provider>>

RetryFails(a) ==
  /\ request[a] # Nobody
  /\ request' = [request EXCEPT ![a] = Nobody]
  /\ UNCHANGED <<time, row, job, provider>>

-----------------------------------------------------------------------------
(* Time passes.  A worker is through with its job Lag after it took it.       *)
PassTime ==
  /\ time < LastTime
  /\ \A w \in Workers : job[w] # Nobody => time < job[w].stamp + CallLag
  /\ time' = time + 1
  /\ UNCHANGED <<row, job, request, provider>>

Tick(w) == Sweep(w) \/ \E e \in Entries : GiveUp(w, e) \/ Take(w, e)
Deliver(w) == Accept(w) \/ Refuse(w)

QueueNext ==
  \/ \E e \in Entries : Enqueue(e)
  \/ \E w \in Workers : Tick(w) \/ Deliver(w) \/ Finish(w) \/ Vanish(w)
  \/ \E a \in Admins : RetryWrite(a) \/ RetryFails(a) \/ \E e \in Entries : RetryRead(a, e)
  \/ PassTime

QueueFairness ==
  /\ WF_queueVars(PassTime)
  /\ \A w \in Workers : WF_queueVars(Tick(w)) /\ WF_queueVars(Deliver(w)) /\ WF_queueVars(Finish(w))

QueueSpec == QueueInit /\ [][QueueNext]_queueVars /\ QueueFairness

-----------------------------------------------------------------------------
(* A message goes out at most once, whatever answers were lost, whichever     *)
(* workers stalled past their lease or died, and however often it was         *)
(* requeued: the provider remembers the key for longer than the row is        *)
(* delivered (ops.py "Stay inside provider idempotency retention").  A row    *)
(* that says sent, or that was cleaned up, did go out.                        *)
SentOnce ==
  \A e \in Entries :
    /\ effects[e] <= 1
    /\ row[e].status \in {"sent", "deleted"} => effects[e] = 1

DeliveredOnce == QueueTypeOK /\ SentOnce

(* Action property: what was sent is not queued again by a worker that lost   *)
(* its lease, only by an administrator whose retry had read the row before.   *)
SentStays ==
  [][\A e \in Entries :
       row[e].status = "sent" =>
         \/ row'[e].status \in {"sent", "deleted"}
         \/ \E a \in Admins : request[a] = e /\ request'[a] = Nobody]_queueVars

(* Liveness: every row that waits or is being sent is sent or given up in the *)
(* end, even if every worker dies in every delivery.                          *)
AllSettle ==
  \A e \in Entries :
    row[e].status \in {"queued", "sending"} ~> row[e].status \in {"sent", "dead", "deleted"}
=============================================================================
