-------------------------------- MODULE Billing -------------------------------
(* One-time payments of the Accounts kit (billing.py): checkout() creates one  *)
(* Stripe session for an order, however often its request is repeated, and     *)
(* webhook() learns what became of it from events that Stripe delivers in any  *)
(* order, at least once, and repeats until they are acknowledged.              *)
EXTENDS Naturals, FiniteSets

CONSTANTS
  Orders,       \* pairs of a user and a request_id
  Calls,        \* checkout requests that run at the same time
  Amount,       \* the price of an order
  Ids,          \* events that Stripe may send about the same thing
  Window,       \* 23 hours
  Lag,          \* a request that is later than this has timed out
  Retention,    \* how long Stripe remembers an idempotency key, 24 hours
  MaxSessions,  \* bound on the sessions that Stripe creates for an order
  MaxTime,      \* bound on the clock
  None

ASSUME BillingAssumption ==
  /\ {Amount, Window, Lag, Retention, MaxSessions, MaxTime} \subseteq Nat
  /\ Window + Lag < Retention /\ Amount > 0

VARIABLES
  clock,      \* now()
  order,      \* app_orders
  seen,       \* app_stripe_events
  announced,  \* "order.paid" events put into the outbox, by order
  call,       \* what each running checkout() has read, and Stripe's answer
  shown,      \* sessions whose URL a customer was given
  \* Stripe:
  key,        \* when it first saw the idempotency key, and the session it made
  phase,      \* of each session
  back,       \* how much of each session was refunded
  sent        \* its events

stripe == <<key, phase, back, sent>>
vars == <<clock, order, seen, announced, call, shown, stripe>>

-----------------------------------------------------------------------------
Times     == 0..MaxTime
Sessions  == Orders \X (1..MaxSessions)
Checkouts == [order : Orders, stamp : Times, session : Sessions \cup {None}]
Made      == [since : Times, session : Sessions]
Kinds     == {"completed", "succeeded", "failed", "expired", "refunded"}
Events    == [session : Sessions, kind : Kinds, paid : BOOLEAN, amount : 0..Amount, id : Ids]

OrderRows == [status : {"absent", "pending", "paid", "failed", "expired", "refunded",
                        "partially_refunded"},
              session : Sessions \cup {None}, intent : Sessions \cup {None},
              refunded : 0..Amount, created : Times]

ASSUME NoneAssumption == None \notin Sessions \cup Made

TypeOK ==
  /\ clock \in Times
  /\ order \in [Orders -> OrderRows]
  /\ seen \subseteq sent /\ sent \subseteq Events
  /\ announced \in [Orders -> Nat]
  /\ call \in [Calls -> Checkouts \cup {None}]
  /\ shown \subseteq Sessions
  /\ key \in [Orders -> Made \cup {None}]
  /\ phase \in [Sessions -> {"none", "open", "unpaid", "paid", "failed", "expired"}]
  /\ back \in [Sessions -> 0..Amount]

Row(status) == [status |-> status, session |-> None, intent |-> None, refunded |-> 0,
                created |-> IF status = "absent" THEN 0 ELSE clock]

Init ==
  /\ clock = 0 /\ order = [o \in Orders |-> Row("absent")]
  /\ seen = {} /\ sent = {} /\ announced = [o \in Orders |-> 0]
  /\ call = [c \in Calls |-> None] /\ shown = {}
  /\ key = [o \in Orders |-> None] /\ phase = [s \in Sessions |-> "none"]
  /\ back = [s \in Sessions |-> 0]

-----------------------------------------------------------------------------
(* checkout(): the order is inserted unless it is there, and read.            *)
Reserved(o) == IF order[o].status = "absent" THEN Row("pending") ELSE order[o]

StillOpenFault(r) == r.status = "pending"
StillOpen(r)      == r.status = "pending" /\ r.created + Window >= clock

Begin(c, o) ==
  /\ call[c] = None
  /\ StillOpen(Reserved(o)) /\ Reserved(o).session = None
  /\ order' = [order EXCEPT ![o] = Reserved(o)]
  /\ call' = [call EXCEPT ![c] = [order |-> o, stamp |-> clock, session |-> None]]
  /\ UNCHANGED <<clock, seen, announced, shown, stripe>>

(* A request for an order that has a session is given its URL again.          *)
ShowAgain(o) ==
  /\ StillOpen(order[o]) /\ order[o].session # None
  /\ shown' = shown \cup {order[o].session}
  /\ UNCHANGED <<clock, order, seen, announced, call, stripe>>

(* Stripe is asked for a session: it makes one, or answers with the one it    *)
(* made for this key.  Its answer may be lost, and the price may be refused.  *)
Remembered(o) == key[o] # None /\ clock < key[o].since + Retention

SessionFor(o, s) ==
  IF Remembered(o) THEN s = key[o].session
  ELSE s[1] = o /\ phase[s] = "none" /\ \A n \in 1..(s[2] - 1) : phase[<<o, n>>] # "none"

Post(c) ==
  /\ call[c] # None /\ call[c].session = None
  /\ \E s \in Sessions :
       LET o == call[c].order IN
       /\ SessionFor(o, s)
       /\ phase' = IF Remembered(o) THEN phase ELSE [phase EXCEPT ![s] = "open"]
       /\ key' = IF Remembered(o) THEN key
                 ELSE [key EXCEPT ![o] = [since |-> clock, session |-> s]]
       /\ call' \in {[call EXCEPT ![c].session = s], [call EXCEPT ![c] = None]}
  /\ UNCHANGED <<clock, order, seen, announced, shown, back, sent>>

Save(c) ==
  /\ call[c] # None /\ call[c].session # None
  /\ order' = [order EXCEPT ![call[c].order].session = call[c].session]
  /\ shown' = shown \cup {call[c].session}
  /\ call' = [call EXCEPT ![c] = None]
  /\ UNCHANGED <<clock, seen, announced, stripe>>

(* The price does not match, the connection fails, or the server stops.       *)
Drop(c) ==
  /\ call[c] # None
  /\ call' = [call EXCEPT ![c] = None]
  /\ UNCHANGED <<clock, order, seen, announced, shown, stripe>>

-----------------------------------------------------------------------------
(* Stripe and the customer.                                                   *)
Send(s, kind, paid, amount) ==
  sent' = sent \cup {[session |-> s, kind |-> kind, paid |-> paid, amount |-> amount,
                      id |-> i] : i \in Ids}

Move(s, from, to, kind) ==
  /\ phase[s] = from
  /\ phase' = [phase EXCEPT ![s] = to]
  /\ Send(s, kind, to = "paid", 0)
  /\ UNCHANGED <<clock, order, seen, announced, call, shown, key, back>>

Pay(s)    == s \in shown /\ \E to \in {"paid", "unpaid"} : Move(s, "open", to, "completed")
Settle(s) == Move(s, "unpaid", "paid", "succeeded") \/ Move(s, "unpaid", "failed", "failed")
Expire(s) == Move(s, "open", "expired", "expired")

Refund(s, amount) ==
  /\ phase[s] = "paid" /\ amount > back[s]
  /\ back' = [back EXCEPT ![s] = amount]
  /\ Send(s, "refunded", FALSE, amount)
  /\ UNCHANGED <<clock, order, seen, announced, call, shown, key, phase>>

-----------------------------------------------------------------------------
(* webhook(): one transaction, undone by whatever it raises.  An event that   *)
(* cannot be placed yet is not acknowledged, and one seen before does nothing.*)
Placed(r, e) == IF e.kind = "refunded" THEN r.intent = e.session ELSE r.session = e.session

PaidKindsFault == {"completed"}
PaidKinds      == {"completed", "succeeded"}
Paid(e) == e.kind \in PaidKinds /\ e.paid

UnpaidFault(r) == r.status # "paid"
Unpaid(r)      == r.status \notin {"paid", "refunded", "partially_refunded"}

(* amount_refunded is the sum of all refunds so far.                          *)
Refunded(r, e) ==
  IF e.amount <= r.refunded THEN r
  ELSE [r EXCEPT !.refunded = e.amount,
                 !.status = IF e.amount = Amount THEN "refunded" ELSE "partially_refunded"]

Told(r, e) ==
  CASE e.kind = "refunded" -> Refunded(r, e)
    [] Paid(e) /\ Unpaid(r) -> [r EXCEPT !.status = "paid", !.intent = e.session]
    [] e.kind \in {"expired", "failed"} /\ r.status = "pending" -> [r EXCEPT !.status = e.kind]
    [] OTHER -> r

Webhook(e) ==
  LET o == e.session[1] IN
  /\ e \in sent /\ e \notin seen
  /\ Placed(order[o], e)
  /\ seen' = seen \cup {e}
  /\ order' = [order EXCEPT ![o] = Told(@, e)]
  /\ announced' = IF Paid(e) /\ Unpaid(order[o]) THEN [announced EXCEPT ![o] = @ + 1]
                  ELSE announced
  /\ UNCHANGED <<clock, call, shown, stripe>>

-----------------------------------------------------------------------------
(* Time passes: a request is over Lag after it read the order.                *)
Advance ==
  /\ clock < MaxTime
  /\ \A c \in Calls : call[c] # None => clock < call[c].stamp + Lag
  /\ clock' = clock + 1
  /\ UNCHANGED <<order, seen, announced, call, shown, stripe>>

Next ==
  \/ \E o \in Orders : ShowAgain(o) \/ \E c \in Calls : Begin(c, o)
  \/ \E c \in Calls : Post(c) \/ Save(c) \/ Drop(c)
  \/ \E s \in Sessions : Pay(s) \/ Settle(s) \/ Expire(s) \/ \E a \in 1..Amount : Refund(s, a)
  \/ \E e \in sent : Webhook(e)
  \/ Advance

(* Stripe repeats every event until it is acknowledged.                       *)
Fairness == \A e \in Events : WF_vars(Webhook(e))

Spec == Init /\ [][Next]_vars /\ Fairness

-----------------------------------------------------------------------------
(* A request that is repeated, at once or after a lost answer, never makes a  *)
(* second session that the customer could pay too: the key is not sent again  *)
(* once Stripe may have forgotten it (billing.py:50).  Every URL given out is *)
(* that of the session the order waits for.                                   *)
OneSession ==
  /\ TypeOK
  /\ \A s, t \in Sessions : s[1] = t[1] /\ phase[s] # "none" /\ phase[t] # "none" => s = t
  /\ \A s \in shown : order[s[1]].session = s

(* Whatever order the events came in and however often, an order says what    *)
(* the acknowledged ones say together, and its payment was announced once.    *)
Heard(o) == {e \in seen : e.session[1] = o}

OrderTruth ==
  \A o \in Orders :
    LET heard == Heard(o)
        paid  == \E e \in heard : e.paid
    IN /\ announced[o] = (IF paid THEN 1 ELSE 0)
       /\ \A e \in heard : e.amount <= order[o].refunded
       /\ order[o].refunded > 0 => \E e \in heard : e.amount = order[o].refunded
       /\ order[o].status =
            CASE order[o].refunded = Amount -> "refunded"
              [] order[o].refunded \in 1..(Amount - 1) -> "partially_refunded"
              [] order[o].refunded = 0 /\ paid -> "paid"
              [] \E e \in heard : e.kind = "expired" -> "expired"
              [] \E e \in heard : e.kind = "failed" -> "failed"
              [] OTHER -> IF order[o].status = "absent" THEN "absent" ELSE "pending"

(* Liveness: what was paid or given back at Stripe reaches the order in the   *)
(* end, though its event may come before the order can take it.               *)
Recorded ==
  \A s \in Sessions :
    /\ phase[s] = "paid" ~> ~Unpaid(order[s[1]])
    /\ \A a \in 1..Amount : back[s] = a ~> order[s[1]].refunded >= a
=============================================================================
