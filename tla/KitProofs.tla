------------------------------ MODULE KitProofs ------------------------------
(* Proofs about the Accounts kit.  First half, one-time payments: any number  *)
(* of orders, requests, sessions and events, any price, and any window that   *)
(* ends, the last request begun in it included, before Stripe forgets a key.  *)
(* Second half, the delivery queue: any number of rows, workers and           *)
(* administrators, any lease, backoffs and attempts, and any window that      *)
(* ends, the last call begun in it included, before the provider forgets.     *)
EXTENDS Billing, Outbox, TLAPS

-----------------------------------------------------------------------------
(* The payments.                                                              *)
(* An order's key made the order's one session, after the order was created.  *)
KeyAgrees(o) ==
  /\ key[o] # None =>
       /\ key[o].session[1] = o /\ phase[key[o].session] # "none"
       /\ key[o].since <= clock /\ order[o].created <= key[o].since
  /\ \A s \in Sessions : s[1] = o /\ phase[s] # "none" => key[o] # None /\ key[o].session = s

OrderAgrees(o) ==
  /\ order[o].session # None => key[o] # None /\ key[o].session = order[o].session
  /\ order[o].intent # None => order[o].intent = order[o].session
  /\ order[o].status = "absent" => order[o].session = None /\ key[o] = None
  /\ order[o].created <= clock

(* A request read its order inside the window, and times out soon after.      *)
CallAgrees(c) ==
  call[c] # None =>
    LET o == call[c].order IN
    /\ order[o].status # "absent" /\ call[c].stamp <= order[o].created + Window
    /\ call[c].stamp <= clock /\ clock <= call[c].stamp + Lag
    /\ call[c].session # None => key[o] # None /\ key[o].session = call[c].session

ShownAgree == \A s \in shown : order[s[1]].session = s

(* What an event says of its session goes on being so.                        *)
EventAgrees(e) ==
  /\ e.paid => e.kind \in PaidKinds /\ phase[e.session] = "paid"
  /\ e.kind = "refunded" => phase[e.session] = "paid" /\ e.amount > 0
  /\ e.kind # "refunded" => e.amount = 0
  /\ e.kind = "succeeded" => e.paid
  /\ e.kind \in {"expired", "failed"} => phase[e.session] = e.kind

(* What was heard is of the order's session, and its intent if it was paid.   *)
HeardAgree(o) ==
  /\ \A e \in Heard(o) : order[o].session = e.session
  /\ order[o].intent # None <=> \E e \in Heard(o) : e.paid
  /\ order[o].refunded > 0 => order[o].intent # None

(* OrderTruth of one order: its row r, its announcements n and what it heard. *)
Truth(r, n, heard) ==
  LET paid == \E e \in heard : e.paid
  IN /\ n = (IF paid THEN 1 ELSE 0)
     /\ \A e \in heard : e.amount <= r.refunded
     /\ r.refunded > 0 => \E e \in heard : e.amount = r.refunded
     /\ r.refunded = Amount => r.status = "refunded"
     /\ 0 < r.refunded /\ r.refunded < Amount => r.status = "partially_refunded"
     /\ r.refunded = 0 /\ paid => r.status = "paid"
     /\ r.refunded = 0 /\ ~paid =>
          IF \E e \in heard : e.kind = "expired" THEN r.status = "expired"
          ELSE IF \E e \in heard : e.kind = "failed" THEN r.status = "failed"
          ELSE r.status \in {"absent", "pending"}

IInv ==
  /\ TypeOK /\ ShownAgree
  /\ \A o \in Orders : KeyAgrees(o) /\ OrderAgrees(o)
  /\ \A o \in Orders : HeardAgree(o) /\ Truth(order[o], announced[o], Heard(o))
  /\ \A c \in Calls : CallAgrees(c)
  /\ \A e \in sent : EventAgrees(e)

-----------------------------------------------------------------------------
(* The records.                                                               *)
LEMMA ConstantFacts ==
  /\ Amount \in Nat /\ Window \in Nat /\ Lag \in Nat /\ Retention \in Nat
  /\ MaxSessions \in Nat /\ MaxTime \in Nat
  /\ Window + Lag < Retention /\ Amount > 0
BY BillingAssumption

LEMMA SessionFields ==
  ASSUME NEW s \in Sessions
  PROVE  s[1] \in Orders /\ s[2] \in 1..MaxSessions /\ s # None
BY NoneAssumption DEF Sessions

LEMMA RowFields ==
  ASSUME NEW r \in OrderRows
  PROVE  /\ r.status \in {"absent", "pending", "paid", "failed", "expired", "refunded",
                          "partially_refunded"}
         /\ r.session \in Sessions \cup {None} /\ r.intent \in Sessions \cup {None}
         /\ r.refunded \in 0..Amount /\ r.created \in Times
BY DEF OrderRows

LEMMA EventFields ==
  ASSUME NEW e \in Events
  PROVE  /\ e.session \in Sessions /\ e.kind \in Kinds /\ e.paid \in BOOLEAN
         /\ e.amount \in 0..Amount /\ e.id \in Ids /\ e.session[1] \in Orders
BY SessionFields DEF Events

LEMMA Keyed ==
  ASSUME NEW t \in Times, NEW s \in Sessions
  PROVE  LET k == [since |-> t, session |-> s] IN
         k \in Made /\ k # None /\ k.since = t /\ k.session = s
BY NoneAssumption DEF Made

LEMMA MadeFields ==
  ASSUME NEW k \in Made
  PROVE  k.since \in Times /\ k.session \in Sessions
BY DEF Made

LEMMA CheckoutFields ==
  ASSUME NEW c \in Checkouts
  PROVE  c.order \in Orders /\ c.stamp \in Times /\ c.session \in Sessions \cup {None}
BY DEF Checkouts

(* What the invariant says of the types of one order, request or session.     *)
LEMMA Typed ==
  ASSUME TypeOK
  PROVE  /\ clock \in Times
         /\ \A o \in Orders : order[o] \in OrderRows
         /\ \A o \in Orders : key[o] # None => key[o] \in Made
         /\ \A c \in Calls : call[c] # None => call[c] \in Checkouts
BY DEF TypeOK

LEMMA NewRow ==
  ASSUME TypeOK, NEW st \in {"absent", "pending"}
  PROVE  /\ Row(st) \in OrderRows /\ Row(st).status = st
         /\ Row(st).session = None /\ Row(st).intent = None /\ Row(st).refunded = 0
         /\ Row(st).created = IF st = "absent" THEN 0 ELSE clock
<1>1. 0 \in Times /\ clock \in Times /\ 0 \in 0..Amount
  BY ConstantFacts DEF TypeOK, Times
<1>2. (IF st = "absent" THEN 0 ELSE clock) \in Times
  BY <1>1
<1> HIDE DEF Times
<1> QED BY <1>1, <1>2 DEF Row, OrderRows

-----------------------------------------------------------------------------
LEMMA InitEstablishes == Init => IInv
<1> SUFFICES ASSUME Init PROVE IInv
  OBVIOUS
<1>1. TypeOK
  <2>1. clock \in Times /\ 0 \in 0..Amount /\ 0 \in Times
    BY ConstantFacts DEF Init, Times
  <2>2. Row("absent") \in OrderRows
    BY <2>1 DEF Row, OrderRows, Init
  <2> HIDE DEF Times, Sessions, Events, Made, Checkouts, OrderRows
  <2> QED BY <2>1, <2>2 DEF Init, TypeOK
<1>2. ASSUME NEW o \in Orders
      PROVE  /\ order[o].status = "absent" /\ order[o].session = None
             /\ order[o].intent = None /\ order[o].refunded = 0 /\ order[o].created = 0
             /\ announced[o] = 0 /\ key[o] = None /\ Heard(o) = {}
  BY DEF Init, Row, Heard
<1>3. ASSUME NEW o \in Orders PROVE KeyAgrees(o) /\ OrderAgrees(o)
  <2>1. clock = 0 /\ \A s \in Sessions : phase[s] = "none"
    BY DEF Init
  <2> QED BY <1>2, <2>1 DEF KeyAgrees, OrderAgrees
<1>4. ASSUME NEW o \in Orders PROVE HeardAgree(o) /\ Truth(order[o], announced[o], Heard(o))
  BY <1>2, ConstantFacts DEF HeardAgree, Truth
<1>5. ShownAgree /\ (\A c \in Calls : CallAgrees(c)) /\ \A e \in sent : EventAgrees(e)
  BY DEF Init, ShownAgree, CallAgrees
<1> QED BY <1>1, <1>3, <1>4, <1>5 DEF IInv

-----------------------------------------------------------------------------
(* checkout().                                                                *)
LEMMA ReservedRow ==
  ASSUME TypeOK, NEW o \in Orders
  PROVE  /\ Reserved(o) \in OrderRows /\ Reserved(o).status # "absent"
         /\ order[o].status # "absent" => Reserved(o) = order[o]
         /\ order[o].status = "absent" =>
              /\ Reserved(o).session = None /\ Reserved(o).intent = None
              /\ Reserved(o).refunded = 0 /\ Reserved(o).created = clock
              /\ Reserved(o).status = "pending"
<1>1. order[o] \in OrderRows
  BY Typed
<1> QED BY <1>1, NewRow DEF Reserved

(* Nothing was heard about an order that is not there.                        *)
LEMMA AbsentUnheard ==
  ASSUME IInv, NEW o \in Orders, order[o].session = None
  PROVE  Heard(o) = {}
<1>1. \A e \in Heard(o) : e \in Events /\ order[o].session = e.session
  <2>1. HeardAgree(o)
    BY DEF IInv
  <2>2. seen \subseteq Events
    BY DEF IInv, TypeOK
  <2> QED BY <2>1, <2>2 DEF HeardAgree, Heard
<1> QED BY <1>1, EventFields, SessionFields

LEMMA BeginKeeps ==
  ASSUME IInv, NEW c \in Calls, NEW o \in Orders, Begin(c, o)
  PROVE  IInv'
<1>1. TypeOK
  BY DEF IInv
<1>2. /\ Reserved(o) \in OrderRows /\ Reserved(o).status # "absent"
      /\ order[o].status # "absent" => Reserved(o) = order[o]
      /\ order[o].status = "absent" =>
           /\ Reserved(o).session = None /\ Reserved(o).intent = None
           /\ Reserved(o).refunded = 0 /\ Reserved(o).created = clock
           /\ Reserved(o).status = "pending"
  BY <1>1, ReservedRow
<1>3. /\ order'[o] = Reserved(o)
      /\ \A q \in Orders : q # o => order'[q] = order[q]
      /\ \A q \in Orders : Heard(q)' = Heard(q) /\ order[q] \in OrderRows
      /\ UNCHANGED <<clock, seen, announced, shown, key, phase, back, sent>>
      /\ order' \in [Orders -> OrderRows]
  BY <1>1, <1>2 DEF Begin, TypeOK, Heard, stripe
<1>4. /\ call'[c] = [order |-> o, stamp |-> clock, session |-> None]
      /\ \A d \in Calls : d # c => call'[d] = call[d]
      /\ call'[c] \in Checkouts
      /\ call' \in [Calls -> Checkouts \cup {None}]
  <2>1. [order |-> o, stamp |-> clock, session |-> None] \in Checkouts
    BY <1>1 DEF TypeOK, Checkouts
  <2> HIDE DEF Checkouts
  <2> QED BY <1>1, <2>1 DEF Begin, TypeOK
<1>5. TypeOK'
  BY <1>1, <1>3, <1>4 DEF TypeOK
<1>6. clock \in Nat
  BY <1>1 DEF TypeOK, Times
<1>7. ASSUME NEW q \in Orders PROVE KeyAgrees(q)' /\ OrderAgrees(q)'
  <2>1. KeyAgrees(q) /\ OrderAgrees(q)
    BY DEF IInv
  <2> QED BY <1>2, <1>3, <1>6, <2>1 DEF KeyAgrees, OrderAgrees
<1>8. ASSUME NEW q \in Orders
      PROVE  HeardAgree(q)' /\ Truth(order[q], announced[q], Heard(q))'
  <2>1. HeardAgree(q) /\ Truth(order[q], announced[q], Heard(q)) /\ OrderAgrees(q)
    BY DEF IInv
  <2>2. CASE order'[q] = order[q]
    BY <1>3, <2>1, <2>2 DEF HeardAgree, Truth
  <2>3. CASE order'[q] # order[q]
    <3>1. q = o /\ order[o].status = "absent" /\ order[o].session = None
      BY <1>2, <1>3, <2>1, <2>3 DEF OrderAgrees
    <3>2. Heard(q) = {}
      BY <3>1, AbsentUnheard
    <3> QED BY <1>2, <1>3, <2>1, <3>1, <3>2, ConstantFacts DEF HeardAgree, Truth
  <2> QED BY <2>2, <2>3
<1>9. ASSUME NEW d \in Calls PROVE CallAgrees(d)'
  <2>1. CASE d = c
    <3>1. call'[d].session = None /\ call'[d].stamp = clock /\ call'[d].order = o
      BY <1>4, <2>1
    <3>2. clock <= Reserved(o).created + Window /\ Reserved(o).created \in Nat
      BY <1>1, <1>2, RowFields DEF Begin, StillOpen, Times
    <3> QED BY <1>2, <1>3, <1>6, <3>1, <3>2, ConstantFacts DEF CallAgrees
  <2>2. CASE d # c
    <3>1. CallAgrees(d) /\ (call[d] # None => call[d].order \in Orders)
      BY <1>1, Typed, CheckoutFields DEF IInv
    <3> QED BY <1>2, <1>3, <1>4, <2>2, <3>1 DEF CallAgrees
  <2> QED BY <2>1, <2>2
<1>10. ShownAgree'
  <2>1. \A s \in shown : s \in Sessions /\ s[1] \in Orders /\ order[s[1]].session = s
    BY <1>1, SessionFields DEF IInv, ShownAgree, TypeOK
  <2>2. OrderAgrees(o)
    BY DEF IInv
  <2> QED BY <1>2, <1>3, <2>1, <2>2, SessionFields DEF ShownAgree, OrderAgrees
<1>11. ASSUME NEW e \in sent' PROVE EventAgrees(e)'
  BY <1>3 DEF IInv, EventAgrees
<1> QED BY <1>5, <1>7, <1>8, <1>9, <1>10, <1>11 DEF IInv

(* What is said and was heard of an order changes with webhook() and checkout().*)
LEMMA UnheardKeep ==
  ASSUME IInv, UNCHANGED <<order, seen, announced>>, NEW q \in Orders
  PROVE  HeardAgree(q)' /\ Truth(order[q], announced[q], Heard(q))'
<1>1. HeardAgree(q) /\ Truth(order[q], announced[q], Heard(q)) /\ Heard(q)' = Heard(q)
  BY DEF IInv, Heard
<1> QED BY <1>1 DEF HeardAgree, Truth

LEMMA ShowAgainKeeps ==
  ASSUME IInv, NEW o \in Orders, ShowAgain(o)
  PROVE  IInv'
<1>1. /\ UNCHANGED <<clock, order, seen, announced, call, key, phase, back, sent>>
      /\ shown' = shown \cup {order[o].session} /\ order[o].session # None
  BY DEF ShowAgain, stripe
<1>2. /\ TypeOK /\ order[o].session \in Sessions
      /\ order[o].session[1] = o
  <2>1. order[o].session \in Sessions
    BY <1>1, Typed, RowFields DEF IInv
  <2>2. KeyAgrees(o) /\ OrderAgrees(o)
    BY DEF IInv
  <2> QED BY <1>1, <2>1, <2>2 DEF IInv, KeyAgrees, OrderAgrees
<1>3. TypeOK'
  BY <1>1, <1>2 DEF TypeOK
<1>4. ShownAgree'
  BY <1>1, <1>2 DEF IInv, ShownAgree
<1>6. \A q \in Orders : KeyAgrees(q)' /\ OrderAgrees(q)'
  BY <1>1 DEF IInv, KeyAgrees, OrderAgrees
<1>8. \A d \in Calls : CallAgrees(d)'
  BY <1>1 DEF IInv, CallAgrees
<1>9. \A e \in sent' : EventAgrees(e)'
  BY <1>1 DEF IInv, EventAgrees
<1> QED BY <1>1, <1>3, <1>4, <1>6, <1>8, <1>9, UnheardKeep DEF IInv

(* A request past its time is over, so a key that was used is remembered.     *)
LEMMA KeyRemembered ==
  ASSUME IInv, NEW c \in Calls, call[c] # None, key[call[c].order] # None
  PROVE  Remembered(call[c].order)
<1> DEFINE o == call[c].order
<1>1. call[c].stamp \in Nat /\ o \in Orders /\ clock \in Nat
  BY Typed, CheckoutFields DEF IInv, Times
<1>2. key[o].since \in Nat /\ order[o].created \in Nat
  BY <1>1, Typed, MadeFields, RowFields DEF IInv, Times
<1>3. /\ call[c].stamp <= order[o].created + Window /\ clock <= call[c].stamp + Lag
      /\ order[o].created <= key[o].since
  BY <1>1 DEF IInv, CallAgrees, KeyAgrees
<1> HIDE DEF o
<1>4. clock < key[o].since + Retention
  BY <1>1, <1>2, <1>3, ConstantFacts
<1> QED BY <1>4 DEF Remembered, o

LEMMA PostKeeps ==
  ASSUME IInv, NEW c \in Calls, Post(c)
  PROVE  IInv'
<1> DEFINE o == call[c].order
<1>1. PICK s \in Sessions :
        /\ SessionFor(o, s)
        /\ phase' = IF Remembered(o) THEN phase ELSE [phase EXCEPT ![s] = "open"]
        /\ key' = IF Remembered(o) THEN key
                  ELSE [key EXCEPT ![o] = [since |-> clock, session |-> s]]
        /\ call' \in {[call EXCEPT ![c].session = s], [call EXCEPT ![c] = None]}
  BY DEF Post
<1>2. /\ UNCHANGED <<clock, order, seen, announced, shown, back, sent>>
      /\ call[c] # None /\ call[c].session = None
  BY DEF Post
<1>3. TypeOK /\ call[c] \in Checkouts /\ o \in Orders /\ clock \in Times /\ clock \in Nat
  BY <1>2, Typed, CheckoutFields DEF IInv, Times
<1>4. Remembered(o) <=> key[o] # None
  BY <1>2, KeyRemembered DEF Remembered
<1> HIDE DEF o
<1>5. /\ call' \in [Calls -> Checkouts \cup {None}]
      /\ \A d \in Calls : d # c => call'[d] = call[d]
      /\ call'[c] # None => /\ call'[c].order = o /\ call'[c].stamp = call[c].stamp
                            /\ call'[c].session = s
  <2>1. LET n == [call[c] EXCEPT !.session = s] IN
        n \in Checkouts /\ n.order = o /\ n.stamp = call[c].stamp /\ n.session = s
    BY <1>3 DEF Checkouts, o
  <2> HIDE DEF Checkouts
  <2>2. CASE call' = [call EXCEPT ![c].session = s]
    BY <1>3, <2>1, <2>2 DEF TypeOK
  <2>3. CASE call' = [call EXCEPT ![c] = None]
    BY <1>3, <2>3 DEF TypeOK
  <2> QED BY <1>1, <2>2, <2>3
<1>6. /\ key' \in [Orders -> Made \cup {None}]
      /\ key'[o] # None /\ key'[o].session = s
      /\ \A q \in Orders : key[q] # None => key'[q] = key[q]
      /\ \A q \in Orders : q # o => key'[q] = key[q]
      /\ key[o] = None => key'[o].since = clock
  <2>1. LET k == [since |-> clock, session |-> s] IN
        k \in Made /\ k # None /\ k.since = clock /\ k.session = s
    BY <1>3, Keyed
  <2>2. CASE Remembered(o)
    BY <1>1, <1>3, <1>4, <2>2 DEF TypeOK, SessionFor
  <2>3. CASE ~Remembered(o)
    <3> DEFINE k == [since |-> clock, session |-> s]
    <3>1. key' = [key EXCEPT ![o] = k] /\ k \in Made /\ k # None /\ k.since = clock /\ k.session = s
      BY <1>1, <2>1, <2>3
    <3> HIDE DEF k, Made
    <3> QED BY <1>3, <1>4, <2>3, <3>1 DEF TypeOK
  <2> QED BY <2>2, <2>3
<1>7. /\ phase' \in [Sessions -> {"none", "open", "unpaid", "paid", "failed", "expired"}]
      /\ \A t \in Sessions : phase[t] # "none" => phase'[t] = phase[t]
      /\ \A t \in Sessions : t # s => phase'[t] = phase[t]
      /\ phase'[s] # "none" /\ s[1] = o
  <2>1. CASE Remembered(o)
    <3>1. KeyAgrees(o) /\ s = key[o].session
      BY <1>1, <1>3, <2>1 DEF SessionFor, IInv
    <3> QED BY <1>1, <1>3, <1>4, <2>1, <3>1 DEF TypeOK, KeyAgrees
  <2>2. CASE ~Remembered(o)
    <3>1. s[1] = o /\ phase[s] = "none"
      BY <1>1, <2>2 DEF SessionFor
    <3> QED BY <1>1, <1>3, <2>2, <3>1 DEF TypeOK
  <2> QED BY <2>1, <2>2
<1>8. TypeOK'
  BY <1>2, <1>3, <1>5, <1>6, <1>7 DEF TypeOK
<1>9. ASSUME NEW q \in Orders PROVE KeyAgrees(q)' /\ OrderAgrees(q)'
  <2>1. KeyAgrees(q) /\ OrderAgrees(q) /\ (key[q] # None => key[q].session \in Sessions)
    BY <1>3, Typed, MadeFields DEF IInv
  <2>2. CASE key[q] # None
    BY <1>1, <1>2, <1>6, <1>7, <2>1, <2>2 DEF KeyAgrees, OrderAgrees
  <2>3. CASE key[q] = None /\ q # o
    BY <1>2, <1>6, <1>7, <2>1, <2>3 DEF KeyAgrees, OrderAgrees
  <2>4. CASE key[q] = None /\ q = o
    <3>1. /\ \A t \in Sessions : t[1] = o => phase[t] = "none"
          /\ order[o].status # "absent" /\ order[o].session = None
          /\ order[o].created <= clock
      BY <1>2, <1>3, <2>1, <2>4 DEF KeyAgrees, OrderAgrees, IInv, CallAgrees, o
    <3> QED BY <1>1, <1>2, <1>3, <1>6, <1>7, <2>1, <2>4, <3>1 DEF KeyAgrees, OrderAgrees
  <2> QED BY <2>2, <2>3, <2>4
<1>10. ASSUME NEW d \in Calls PROVE CallAgrees(d)'
  <2>1. CallAgrees(d) /\ (call[d] # None => call[d].order \in Orders)
    BY <1>3, Typed, CheckoutFields DEF IInv
  <2>2. CASE d = c
    BY <1>2, <1>5, <1>6, <2>1, <2>2 DEF CallAgrees, o
  <2>3. CASE d # c
    BY <1>2, <1>5, <1>6, <2>1, <2>3 DEF CallAgrees
  <2> QED BY <2>2, <2>3
<1>11. ASSUME NEW e \in sent' PROVE EventAgrees(e)'
  <2>1. e \in sent /\ EventAgrees(e) /\ e.session \in Sessions
    BY <1>2, <1>3, EventFields DEF IInv, TypeOK
  <2> QED BY <1>7, <2>1 DEF EventAgrees
<1>12. ShownAgree'
  BY <1>2 DEF IInv, ShownAgree
<1> QED BY <1>2, <1>8, <1>9, <1>10, <1>11, <1>12, UnheardKeep DEF IInv

(* The UPDATE writes the session that the order's key made.                   *)
LEMMA SaveKeeps ==
  ASSUME IInv, NEW c \in Calls, Save(c)
  PROVE  IInv'
<1> DEFINE o == call[c].order
           s == call[c].session
<1>1. /\ call[c] # None /\ s # None
      /\ order' = [order EXCEPT ![o].session = s]
      /\ shown' = shown \cup {s} /\ call' = [call EXCEPT ![c] = None]
      /\ UNCHANGED <<clock, seen, announced, key, phase, back, sent>>
  BY DEF Save, stripe
<1>2. TypeOK /\ o \in Orders /\ s \in Sessions
  BY <1>1, Typed, CheckoutFields DEF IInv
<1>3. key[o] # None /\ key[o].session = s /\ s[1] = o /\ order[o].status # "absent"
  BY <1>1, <1>2 DEF IInv, CallAgrees, KeyAgrees
<1> HIDE DEF o, s
<1>4. order[o] \in OrderRows /\ (order[o].session # None => order[o].session = s)
  BY <1>2, <1>3, Typed DEF IInv, OrderAgrees
<1>5. /\ order' \in [Orders -> OrderRows] /\ order'[o].session = s
      /\ order'[o].status = order[o].status /\ order'[o].intent = order[o].intent
      /\ order'[o].refunded = order[o].refunded /\ order'[o].created = order[o].created
      /\ \A q \in Orders : q # o => order'[q] = order[q]
  <2>1. LET n == [order[o] EXCEPT !.session = s] IN
        /\ n \in OrderRows /\ n.session = s /\ n.status = order[o].status
        /\ n.intent = order[o].intent /\ n.refunded = order[o].refunded
        /\ n.created = order[o].created
    BY <1>2, <1>4 DEF OrderRows
  <2> HIDE DEF OrderRows
  <2> QED BY <1>1, <1>2, <2>1 DEF TypeOK
<1>6. /\ call' \in [Calls -> Checkouts \cup {None}]
      /\ \A d \in Calls : call'[d] # None => call'[d] = call[d]
  BY <1>1, <1>2 DEF TypeOK
<1>7. TypeOK'
  BY <1>1, <1>2, <1>5, <1>6 DEF TypeOK
<1>8. ASSUME NEW q \in Orders PROVE KeyAgrees(q)' /\ OrderAgrees(q)'
  <2>1. KeyAgrees(q) /\ OrderAgrees(q) /\ key'[q] = key[q] /\ clock' = clock
    BY <1>1 DEF IInv
  <2>2. KeyAgrees(q)'
    BY <1>1, <1>5, <2>1 DEF KeyAgrees
  <2>3. CASE q = o
    BY <1>2, <1>3, <1>4, <1>5, <2>1, <2>2, <2>3, SessionFields DEF OrderAgrees
  <2>4. CASE q # o
    BY <1>5, <2>1, <2>2, <2>4 DEF OrderAgrees
  <2> QED BY <2>2, <2>3, <2>4
<1>9. ASSUME NEW q \in Orders
      PROVE  HeardAgree(q)' /\ Truth(order[q], announced[q], Heard(q))'
  <2>1. HeardAgree(q) /\ Truth(order[q], announced[q], Heard(q))
    BY DEF IInv
  <2>2. Heard(q)' = Heard(q) /\ \A e \in Heard(q) : e.session \in Sessions
    BY <1>1, <1>2, EventFields DEF Heard, TypeOK
  <2>3. HeardAgree(q)'
    BY <1>4, <1>5, <2>1, <2>2, SessionFields DEF HeardAgree
  <2> QED BY <1>1, <1>5, <2>1, <2>2, <2>3 DEF Truth
<1>10. ASSUME NEW d \in Calls PROVE CallAgrees(d)'
  <2>1. CallAgrees(d) /\ (call[d] # None => call[d].order \in Orders)
    BY <1>2, Typed, CheckoutFields DEF IInv
  <2> QED BY <1>1, <1>5, <1>6, <2>1 DEF CallAgrees
<1>11. ShownAgree'
  <2>1. \A t \in shown : t \in Sessions /\ t[1] \in Orders /\ order[t[1]].session = t
    BY <1>2, SessionFields DEF IInv, ShownAgree, TypeOK
  <2> QED BY <1>1, <1>2, <1>3, <1>4, <1>5, <2>1, SessionFields DEF ShownAgree
<1>12. ASSUME NEW e \in sent' PROVE EventAgrees(e)'
  BY <1>1 DEF IInv, EventAgrees
<1> QED BY <1>7, <1>8, <1>9, <1>10, <1>11, <1>12 DEF IInv

LEMMA DropKeeps ==
  ASSUME IInv, NEW c \in Calls, Drop(c)
  PROVE  IInv'
<1>1. /\ UNCHANGED <<clock, order, seen, announced, shown, key, phase, back, sent>>
      /\ call' = [call EXCEPT ![c] = None] /\ TypeOK
  BY DEF Drop, stripe, IInv
<1>2. /\ call' \in [Calls -> Checkouts \cup {None}]
      /\ \A d \in Calls : call'[d] # None => call'[d] = call[d]
  BY <1>1 DEF TypeOK
<1>3. TypeOK'
  BY <1>1, <1>2 DEF TypeOK
<1>4. ShownAgree' /\ \A q \in Orders : KeyAgrees(q)' /\ OrderAgrees(q)'
  BY <1>1 DEF IInv, ShownAgree, KeyAgrees, OrderAgrees
<1>5. \A d \in Calls : CallAgrees(d)'
  BY <1>1, <1>2 DEF IInv, CallAgrees
<1>6. \A e \in sent' : EventAgrees(e)'
  BY <1>1 DEF IInv, EventAgrees
<1> QED BY <1>1, <1>3, <1>4, <1>5, <1>6, UnheardKeep DEF IInv

LEMMA AdvanceKeeps ==
  ASSUME IInv, Advance
  PROVE  IInv'
<1>1. /\ UNCHANGED <<order, seen, announced, call, shown, key, phase, back, sent>>
      /\ clock' = clock + 1 /\ clock < MaxTime /\ TypeOK /\ clock \in Nat
      /\ \A c \in Calls : call[c] # None => clock < call[c].stamp + Lag
  BY DEF Advance, stripe, IInv, TypeOK, Times
<1>2. clock' \in Times
  BY <1>1, ConstantFacts DEF Times
<1>3. TypeOK'
  BY <1>1, <1>2 DEF TypeOK
<1>4. ASSUME NEW q \in Orders PROVE KeyAgrees(q)' /\ OrderAgrees(q)'
  <2>1. KeyAgrees(q) /\ OrderAgrees(q)
    BY DEF IInv
  <2>2. order[q].created \in Nat /\ (key[q] # None => key[q].since \in Nat)
    BY <1>1, Typed, RowFields, MadeFields DEF Times
  <2> QED BY <1>1, <2>1, <2>2 DEF KeyAgrees, OrderAgrees
<1>5. ASSUME NEW d \in Calls PROVE CallAgrees(d)'
  <2>1. CallAgrees(d) /\ (call[d] # None => call[d].stamp \in Nat)
    BY <1>1, Typed, CheckoutFields DEF IInv, Times
  <2> QED BY <1>1, <2>1, ConstantFacts DEF CallAgrees
<1>6. ShownAgree' /\ \A e \in sent' : EventAgrees(e)'
  BY <1>1 DEF IInv, ShownAgree, EventAgrees
<1> QED BY <1>1, <1>3, <1>4, <1>5, <1>6, UnheardKeep DEF IInv

-----------------------------------------------------------------------------
(* Stripe and the customer: a session that exists goes on to exist, what is   *)
(* said of one that is settled stays true, and new events say what happened.  *)
Phases == {"none", "open", "unpaid", "paid", "failed", "expired"}

LEMMA StripeKeeps ==
  ASSUME IInv, TypeOK', UNCHANGED <<clock, order, seen, announced, call, shown, key>>,
         \A s \in Sessions :
           \/ phase'[s] = phase[s]
           \/ phase[s] \in {"open", "unpaid"} /\ phase'[s] # "none",
         \A e \in sent' : e \in sent \/ EventAgrees(e)'
  PROVE  IInv'
<1>1. ASSUME NEW q \in Orders PROVE KeyAgrees(q)' /\ OrderAgrees(q)'
  <2>1. KeyAgrees(q) /\ OrderAgrees(q) /\ (key[q] # None => key[q].session \in Sessions)
    BY Typed, MadeFields DEF IInv
  <2> QED BY <2>1 DEF KeyAgrees, OrderAgrees
<1>2. ASSUME NEW e \in sent' PROVE EventAgrees(e)'
  <2>1. CASE e \in sent
    <3>1. EventAgrees(e) /\ e.session \in Sessions
      BY <2>1, EventFields DEF IInv, TypeOK
    <3>2. phase[e.session] \notin {"open", "unpaid"} => phase'[e.session] = phase[e.session]
      BY <3>1
    <3> QED BY <3>1, <3>2 DEF EventAgrees
  <2> QED BY <2>1
<1>3. ShownAgree' /\ \A c \in Calls : CallAgrees(c)'
  BY DEF IInv, ShownAgree, CallAgrees
<1> QED BY <1>1, <1>2, <1>3, UnheardKeep DEF IInv

(* Send: the new events.                                                      *)
LEMMA SendSays ==
  ASSUME sent \subseteq Events, NEW s \in Sessions, NEW kind \in Kinds, NEW paid \in BOOLEAN,
         NEW amount \in 0..Amount, Send(s, kind, paid, amount)
  PROVE  /\ sent \subseteq sent' /\ sent' \subseteq Events
         /\ \A e \in sent' : \/ e \in sent
                             \/ /\ e.session = s /\ e.kind = kind
                                /\ e.paid = paid /\ e.amount = amount
<1>1. \A i \in Ids : LET e == [session |-> s, kind |-> kind, paid |-> paid,
                               amount |-> amount, id |-> i] IN
        /\ e \in Events /\ e.session = s /\ e.kind = kind /\ e.paid = paid
        /\ e.amount = amount
  BY DEF Events
<1> HIDE DEF Events, Kinds, Sessions
<1> QED BY <1>1 DEF Send

LEMMA MoveKeeps ==
  ASSUME IInv, NEW s \in Sessions, NEW from \in {"open", "unpaid"},
         NEW to \in Phases \ {"none", "open"}, NEW kind \in Kinds, Move(s, from, to, kind),
         to = "paid" => kind \in PaidKinds,
         kind = "succeeded" => to = "paid", kind # "refunded",
         kind \in {"expired", "failed"} => to = kind
  PROVE  IInv'
<1>1. /\ UNCHANGED <<clock, order, seen, announced, call, shown, key, back>>
      /\ phase[s] = from /\ phase' = [phase EXCEPT ![s] = to]
      /\ Send(s, kind, to = "paid", 0) /\ TypeOK
  BY DEF Move, IInv
<1> DEFINE paid == to = "paid"
<1>2. /\ sent \subseteq sent' /\ sent' \subseteq Events
      /\ \A e \in sent' : \/ e \in sent
                          \/ /\ e.session = s /\ e.kind = kind
                             /\ e.paid = paid /\ e.amount = 0
  <2>1. sent \subseteq Events /\ paid \in BOOLEAN /\ 0 \in 0..Amount
    BY <1>1, ConstantFacts DEF TypeOK
  <2>2. Send(s, kind, paid, 0)
    BY <1>1
  <2> HIDE DEF paid
  <2> QED BY <2>1, <2>2, SendSays
<1>3. /\ phase' \in [Sessions -> Phases] /\ phase'[s] = to
      /\ \A t \in Sessions : t # s => phase'[t] = phase[t]
  BY <1>1 DEF TypeOK, Phases
<1>4. TypeOK'
  BY <1>1, <1>2, <1>3 DEF TypeOK, Phases
<1>5. ASSUME NEW e \in sent' PROVE e \in sent \/ EventAgrees(e)'
  <2>1. CASE e \in sent
    BY <2>1
  <2>2. CASE /\ e.session = s /\ e.kind = kind
             /\ e.paid = paid /\ e.amount = 0
    BY <1>3, <2>2 DEF EventAgrees
  <2> QED BY <1>2, <2>1, <2>2
<1>6. \A t \in Sessions :
        \/ phase'[t] = phase[t]
        \/ phase[t] \in {"open", "unpaid"} /\ phase'[t] # "none"
  BY <1>1, <1>3
<1> QED BY <1>1, <1>4, <1>5, <1>6, StripeKeeps

LEMMA CustomerKeeps ==
  ASSUME IInv, NEW s \in Sessions, Pay(s) \/ Settle(s) \/ Expire(s)
  PROVE  IInv'
<1>1. CASE Move(s, "open", "paid", "completed")
  BY <1>1, MoveKeeps DEF Phases, Kinds, PaidKinds
<1>2. CASE Move(s, "open", "unpaid", "completed")
  BY <1>2, MoveKeeps DEF Phases, Kinds, PaidKinds
<1>3. CASE Move(s, "unpaid", "paid", "succeeded")
  BY <1>3, MoveKeeps DEF Phases, Kinds, PaidKinds
<1>4. CASE Move(s, "unpaid", "failed", "failed")
  BY <1>4, MoveKeeps DEF Phases, Kinds, PaidKinds
<1>5. CASE Move(s, "open", "expired", "expired")
  BY <1>5, MoveKeeps DEF Phases, Kinds, PaidKinds
<1> QED BY <1>1, <1>2, <1>3, <1>4, <1>5 DEF Pay, Settle, Expire

LEMMA RefundKeeps ==
  ASSUME IInv, NEW s \in Sessions, NEW a \in 1..Amount, Refund(s, a)
  PROVE  IInv'
<1>1. /\ UNCHANGED <<clock, order, seen, announced, call, shown, key, phase>>
      /\ phase[s] = "paid" /\ back' = [back EXCEPT ![s] = a]
      /\ Send(s, "refunded", FALSE, a) /\ TypeOK /\ a \in 0..Amount /\ a > 0
  <2>1. a \in 0..Amount /\ a > 0
    BY ConstantFacts
  <2> QED BY <2>1 DEF Refund, IInv
<1>2. /\ sent \subseteq sent' /\ sent' \subseteq Events
      /\ \A e \in sent' : \/ e \in sent
                          \/ /\ e.session = s /\ e.kind = "refunded"
                             /\ e.paid = FALSE /\ e.amount = a
  <2> DEFINE kind == "refunded"
             paid == FALSE
  <2>1. /\ sent \subseteq Events /\ kind \in Kinds /\ paid \in BOOLEAN /\ a \in 0..Amount
        /\ Send(s, kind, paid, a)
    BY <1>1 DEF TypeOK, Kinds
  <2> HIDE DEF kind, paid
  <2>2. /\ sent \subseteq sent' /\ sent' \subseteq Events
        /\ \A e \in sent' : \/ e \in sent
                            \/ e.session = s /\ e.kind = kind /\ e.paid = paid /\ e.amount = a
    BY <2>1, SendSays
  <2> USE DEF kind, paid
  <2> QED BY <2>2
<1>3. TypeOK'
  BY <1>1, <1>2 DEF TypeOK
<1>4. ASSUME NEW e \in sent' PROVE e \in sent \/ EventAgrees(e)'
  BY <1>1, <1>2 DEF EventAgrees
<1> QED BY <1>1, <1>3, <1>4, StripeKeeps

-----------------------------------------------------------------------------
(* webhook(): what the row says after an event, for each kind of event.       *)
LEMMA ToldRow ==
  ASSUME NEW r \in OrderRows, NEW e \in Events
  PROVE  /\ Told(r, e) \in OrderRows
         /\ Told(r, e).session = r.session /\ Told(r, e).created = r.created
         /\ e.kind = "refunded" /\ e.amount <= r.refunded => Told(r, e) = r
         /\ e.kind = "refunded" /\ e.amount > r.refunded =>
              /\ Told(r, e).refunded = e.amount /\ Told(r, e).intent = r.intent
              /\ Told(r, e).status =
                   IF e.amount = Amount THEN "refunded" ELSE "partially_refunded"
         /\ Paid(e) /\ Unpaid(r) =>
              /\ Told(r, e).status = "paid" /\ Told(r, e).intent = e.session
              /\ Told(r, e).refunded = r.refunded
         /\ e.kind \in {"expired", "failed"} /\ r.status = "pending" =>
              /\ Told(r, e).status = e.kind /\ Told(r, e).intent = r.intent
              /\ Told(r, e).refunded = r.refunded
         /\ /\ e.kind # "refunded" /\ ~(Paid(e) /\ Unpaid(r))
            /\ ~(e.kind \in {"expired", "failed"} /\ r.status = "pending")
            => Told(r, e) = r
<1>1. e.session \in Sessions /\ e.amount \in 0..Amount /\ r.refunded \in 0..Amount
  BY EventFields, RowFields
<1>2. CASE e.kind = "refunded"
  <2>1. ~Paid(e) /\ Told(r, e) = Refunded(r, e)
    BY <1>2 DEF Paid, PaidKinds, Told
  <2>2. CASE e.amount <= r.refunded
    BY <1>1, <1>2, <2>1, <2>2 DEF Refunded
  <2>3. CASE e.amount > r.refunded
    <3> DEFINE st == IF e.amount = Amount THEN "refunded" ELSE "partially_refunded"
               n == [r EXCEPT !.refunded = e.amount, !.status = st]
    <3>1. /\ n \in OrderRows /\ n.session = r.session /\ n.created = r.created
          /\ n.refunded = e.amount /\ n.intent = r.intent /\ n.status = st
      BY <1>1 DEF OrderRows
    <3>2. Told(r, e) = n
      BY <1>1, <2>1, <2>3 DEF Refunded
    <3>3. ~(e.amount <= r.refunded)
      BY <1>1, <2>3
    <3> HIDE DEF n
    <3> QED BY <1>2, <2>1, <3>1, <3>2, <3>3
  <2> QED BY <1>1, <2>2, <2>3
<1>3. CASE Paid(e) /\ Unpaid(r)
  <2>1. e.kind \in {"completed", "succeeded"}
    BY <1>3 DEF Paid, PaidKinds
  <2> DEFINE n == [r EXCEPT !.status = "paid", !.intent = e.session]
  <2>2. /\ n \in OrderRows /\ n.session = r.session /\ n.created = r.created
        /\ n.refunded = r.refunded /\ n.intent = e.session /\ n.status = "paid"
    BY <1>1 DEF OrderRows
  <2>3. Told(r, e) = n
    BY <1>3, <2>1 DEF Told
  <2> HIDE DEF n
  <2> QED BY <1>3, <2>1, <2>2, <2>3
<1>4. CASE e.kind \in {"expired", "failed"} /\ r.status = "pending"
  <2>1. ~Paid(e) /\ e.kind # "refunded"
    BY <1>4 DEF Paid, PaidKinds
  <2> DEFINE n == [r EXCEPT !.status = e.kind]
  <2>2. /\ n \in OrderRows /\ n.session = r.session /\ n.created = r.created
        /\ n.refunded = r.refunded /\ n.intent = r.intent /\ n.status = e.kind
    BY <1>4 DEF OrderRows
  <2>3. Told(r, e) = n
    BY <1>4, <2>1 DEF Told
  <2> HIDE DEF n
  <2> QED BY <1>4, <2>1, <2>2, <2>3
<1>5. CASE /\ e.kind # "refunded" /\ ~(Paid(e) /\ Unpaid(r))
           /\ ~(e.kind \in {"expired", "failed"} /\ r.status = "pending")
  <2>1. Told(r, e) = r
    BY <1>5 DEF Told
  <2> QED BY <1>5, <2>1
<1> QED BY <1>2, <1>3, <1>4, <1>5

(* What a true row's status says.                                             *)
LEMMA TruthSays ==
  ASSUME NEW r \in OrderRows, NEW k, NEW H, Truth(r, k, H)
  PROVE  LET paid == \E e \in H : e.paid IN
         /\ ~Unpaid(r) <=> (r.refunded > 0 \/ paid)
         /\ r.status = "pending" =>
              /\ r.refunded = 0 /\ ~paid
              /\ \A e \in H : e.kind # "expired" /\ e.kind # "failed"
         /\ r.status = "expired" => \E e \in H : e.kind = "expired"
         /\ r.status = "failed" => \E e \in H : e.kind = "failed"
<1>1. r.refunded \in 0..Amount /\ Amount \in Nat /\ Amount > 0
  BY RowFields, ConstantFacts
<1>2. CASE r.refunded > 0
  <2>1. r.refunded = Amount \/ r.refunded \in 1..(Amount - 1)
    BY <1>1, <1>2
  <2>2. r.status \in {"refunded", "partially_refunded"}
    BY <1>1, <1>2, <2>1 DEF Truth
  <2> QED BY <1>2, <2>2 DEF Unpaid
<1>3. CASE r.refunded = 0
  <2>1. r.refunded # Amount /\ r.refunded \notin 1..(Amount - 1)
    BY <1>1, <1>3
  <2>2. CASE \E e \in H : e.paid
    <3>1. r.status = "paid"
      BY <1>3, <2>1, <2>2 DEF Truth
    <3> QED BY <1>3, <2>2, <3>1 DEF Unpaid
  <2>3. CASE ~\E e \in H : e.paid
    <3>1. IF \E e \in H : e.kind = "expired" THEN r.status = "expired"
          ELSE IF \E e \in H : e.kind = "failed" THEN r.status = "failed"
          ELSE r.status \in {"absent", "pending"}
      BY <1>3, <2>1, <2>3 DEF Truth
    <3> QED BY <1>3, <2>3, <3>1 DEF Unpaid
  <2> QED BY <2>2, <2>3
<1> QED BY <1>1, <1>2, <1>3

(* The same in the words of OrderTruth.                                       *)
Says(r, heard) ==
  CASE r.refunded = Amount -> "refunded"
    [] r.refunded \in 1..(Amount - 1) -> "partially_refunded"
    [] r.refunded = 0 /\ (\E e \in heard : e.paid) -> "paid"
    [] \E e \in heard : e.kind = "expired" -> "expired"
    [] \E e \in heard : e.kind = "failed" -> "failed"
    [] OTHER -> IF r.status = "absent" THEN "absent" ELSE "pending"

LEMMA SaysIt ==
  ASSUME NEW r \in OrderRows, NEW k, NEW H, Truth(r, k, H),
         r.refunded > 0 => \E e \in H : e.paid,
         \A d, e \in H : ~(d.paid /\ e.kind \in {"expired", "failed"}),
         \A d, e \in H : ~(d.kind = "expired" /\ e.kind = "failed")
  PROVE  r.status = Says(r, H)
<1> DEFINE full == r.refunded = Amount
           part == r.refunded \in 1..(Amount - 1)
           paid == r.refunded = 0 /\ (\E e \in H : e.paid)
           over == \E e \in H : e.kind = "expired"
           lost == \E e \in H : e.kind = "failed"
           rest == IF r.status = "absent" THEN "absent" ELSE "pending"
<1>1. /\ r.refunded \in 0..Amount /\ Amount \in Nat /\ Amount > 0
      /\ r.status \in {"absent", "pending"} => r.status = rest
  BY RowFields, ConstantFacts
<1>2. /\ full => r.status = "refunded" /\ ~part /\ ~paid
      /\ part => r.status = "partially_refunded" /\ ~paid
      /\ paid => r.status = "paid"
      /\ ~full /\ ~part => r.refunded = 0
  BY <1>1 DEF Truth
<1>3. ~full /\ ~part /\ ~paid =>
        /\ over => r.status = "expired"
        /\ ~over /\ lost => r.status = "failed"
        /\ ~over /\ ~lost => r.status = rest
  BY <1>1, <1>2 DEF Truth
<1>4. /\ full \/ part \/ paid => ~over /\ ~lost
      /\ ~(over /\ lost)
  BY <1>1
<1>5. Says(r, H) = CASE full -> "refunded"
                     [] part -> "partially_refunded"
                     [] paid -> "paid"
                     [] over -> "expired"
                     [] lost -> "failed"
                     [] OTHER -> rest
  BY DEF Says
<1> HIDE DEF full, part, paid, over, lost, rest
<1> QED BY <1>2, <1>3, <1>4, <1>5

(* One event more, for an order that it is placed at.                         *)
LEMMA OneMore ==
  ASSUME NEW r \in OrderRows, NEW k, NEW H, NEW e \in Events, Truth(r, k, H),
         r.session # None, r.status # "absent", r.session = e.session,
         r.intent # None => r.intent = r.session, EventAgrees(e),
         \A d \in H : d \in Events /\ d.session = e.session /\ EventAgrees(d),
         r.intent # None <=> \E d \in H : d.paid,
         r.refunded > 0 => r.intent # None,
         e.kind = "refunded" => r.intent # None
  PROVE  LET n == Told(r, e)
             G == H \cup {e}
         IN /\ Truth(n, IF Paid(e) /\ Unpaid(r) THEN k + 1 ELSE k, G)
            /\ n.status # "absent" /\ (n.intent # None => n.intent = r.session)
            /\ n.intent # None <=> \E d \in G : d.paid
            /\ n.refunded > 0 => n.intent # None
<1> DEFINE n == Told(r, e)
           G == H \cup {e}
           j == IF Paid(e) /\ Unpaid(r) THEN k + 1 ELSE k
           paid == \E d \in H : d.paid
<1>1. /\ e.kind \in Kinds /\ e.paid \in BOOLEAN /\ e.amount \in 0..Amount
      /\ r.refunded \in 0..Amount /\ Amount \in Nat /\ Amount > 0
  BY EventFields, RowFields, ConstantFacts
<1>2. /\ ~Unpaid(r) <=> (r.refunded > 0 \/ paid)
      /\ r.status = "pending" =>
           /\ r.refunded = 0 /\ ~paid
           /\ \A d \in H : d.kind # "expired" /\ d.kind # "failed"
      /\ r.status = "expired" => \E d \in H : d.kind = "expired"
      /\ r.status = "failed" => \E d \in H : d.kind = "failed"
  BY TruthSays
<1>3. e.paid => Paid(e)
  BY DEF EventAgrees, Paid
<1>4. CASE e.kind = "refunded" /\ e.amount <= r.refunded
  <2>1. n = r /\ ~e.paid /\ ~Paid(e)
    BY <1>4, ToldRow DEF EventAgrees, PaidKinds, Paid
  <2>2. (\E d \in G : d.paid) <=> paid
    BY <2>1
  <2>3. /\ (\E d \in G : d.kind = "expired") <=> \E d \in H : d.kind = "expired"
        /\ (\E d \in G : d.kind = "failed") <=> \E d \in H : d.kind = "failed"
    BY <1>4
  <2>4. \A d \in G : d.amount <= r.refunded
    BY <1>4 DEF Truth
  <2>5. Truth(n, k, G)
    BY <2>1, <2>2, <2>3, <2>4 DEF Truth
  <2> QED BY <2>1, <2>2, <2>5
<1>5. CASE e.kind = "refunded" /\ e.amount > r.refunded
  <2>1. /\ n.refunded = e.amount /\ n.intent = r.intent /\ ~e.paid /\ ~Paid(e)
        /\ n.status = IF e.amount = Amount THEN "refunded" ELSE "partially_refunded"
    BY <1>5, ToldRow DEF EventAgrees, PaidKinds, Paid
  <2>2. ((\E d \in G : d.paid) <=> paid) /\ paid
    BY <1>5, <2>1
  <2>3. \A d \in G : d.amount <= n.refunded
    <3>1. \A d \in H : d.amount \in Nat /\ d.amount <= r.refunded
      BY EventFields DEF Truth
    <3> QED BY <1>1, <1>5, <2>1, <3>1
  <2>4. e.amount # Amount => n.refunded # Amount /\ n.refunded \in 1..(Amount - 1)
    BY <1>1, <1>5, <2>1
  <2>5. n.refunded > 0 /\ e \in G /\ e.amount = n.refunded
    BY <1>1, <1>5, <2>1
  <2>6. k = 1
    BY <2>2 DEF Truth
  <2> HIDE DEF n, G
  <2>7. Truth(n, k, G)
    BY <1>1, <2>1, <2>2, <2>3, <2>4, <2>5, <2>6 DEF Truth
  <2> USE DEF n, G
  <2> QED BY <1>5, <2>1, <2>2, <2>7
<1>6. CASE Paid(e) /\ Unpaid(r)
  <2>1. /\ n.status = "paid" /\ n.intent = e.session /\ n.refunded = r.refunded
        /\ e.kind # "refunded" /\ e.paid
    BY <1>6, ToldRow DEF Paid, PaidKinds
  <2>2. r.refunded = 0 /\ ~paid
    BY <1>1, <1>2, <1>6
  <2>3. (\E d \in G : d.paid) /\ \A d \in G : d.amount <= n.refunded
    BY <2>1, <2>2 DEF Truth, EventAgrees
  <2>4. k + 1 = 1
    BY <2>2 DEF Truth
  <2>5. n.refunded # Amount /\ n.refunded \notin 1..(Amount - 1) /\ n.refunded = 0
    BY <1>1, <2>1, <2>2
  <2>6. Truth(n, k + 1, G)
    BY <2>1, <2>3, <2>4, <2>5 DEF Truth
  <2> QED BY <1>6, <2>1, <2>3, <2>5, <2>6
<1>7. CASE e.kind \in {"expired", "failed"} /\ r.status = "pending"
  <2>1. /\ n.status = e.kind /\ n.intent = r.intent /\ n.refunded = r.refunded
        /\ ~e.paid /\ ~Paid(e)
    BY <1>7, ToldRow DEF EventAgrees, Paid, PaidKinds
  <2>2. /\ r.refunded = 0 /\ ~paid
        /\ \A d \in H : d.kind # "expired" /\ d.kind # "failed"
    BY <1>2, <1>7
  <2>3. ~(\E d \in G : d.paid) /\ \A d \in G : d.amount <= n.refunded
    BY <1>7, <2>1, <2>2 DEF Truth, EventAgrees
  <2>4. n.refunded # Amount /\ n.refunded \notin 1..(Amount - 1) /\ n.refunded = 0
    BY <1>1, <2>1, <2>2
  <2>5. Truth(n, k, G)
    <3>1. CASE e.kind = "expired"
      BY <2>1, <2>2, <2>3, <2>4, <3>1 DEF Truth
    <3>2. CASE e.kind = "failed"
      BY <2>1, <2>2, <2>3, <2>4, <3>2 DEF Truth
    <3> QED BY <1>7, <3>1, <3>2
  <2> QED BY <1>7, <2>1, <2>2, <2>3, <2>4, <2>5
<1>8. CASE /\ e.kind # "refunded" /\ ~(Paid(e) /\ Unpaid(r))
           /\ ~(e.kind \in {"expired", "failed"} /\ r.status = "pending")
  <2>1. n = r /\ e.amount = 0
    BY <1>8, ToldRow DEF EventAgrees
  <2>2. e.paid => paid
    BY <1>2, <1>3, <1>8
  <2>3. (\E d \in G : d.paid) <=> paid
    BY <2>2
  <2>4. \A d \in G : d.amount <= r.refunded
    BY <1>1, <2>1 DEF Truth
  <2>5. CASE paid
    <3>1. r.refunded > 0 => \E d \in G : d.amount = r.refunded
      BY DEF Truth
    <3>2. Truth(r, k, G)
      BY <2>3, <2>4, <2>5, <3>1 DEF Truth
    <3> QED BY <1>8, <2>1, <2>3, <3>2
  <2>6. CASE ~paid
    <3>1. r.refunded = 0 /\ Unpaid(r)
      BY <1>1, <1>2, <2>6
    <3>2. r.status \in {"pending", "expired", "failed"}
      BY <3>1, RowFields DEF Unpaid
    <3>3. e.kind = "expired" => \E d \in H : d.kind = "expired"
      BY <1>2, <1>8, <3>2 DEF EventAgrees
    <3>4. e.kind = "failed" => \E d \in H : d.kind = "failed"
      BY <1>2, <1>8, <3>2 DEF EventAgrees
    <3>5. /\ (\E d \in G : d.kind = "expired") <=> \E d \in H : d.kind = "expired"
          /\ (\E d \in G : d.kind = "failed") <=> \E d \in H : d.kind = "failed"
      BY <3>3, <3>4
    <3>6. Truth(n, k, G)
      BY <2>1, <2>3, <2>4, <3>5 DEF Truth
    <3> QED BY <1>8, <2>1, <2>3, <3>6
  <2> QED BY <2>5, <2>6
<1> QED BY <1>1, <1>4, <1>5, <1>6, <1>7, <1>8

LEMMA WebhookKeeps ==
  ASSUME IInv, NEW e \in sent, Webhook(e)
  PROVE  IInv'
<1> DEFINE o == e.session[1]
           r == order[o]
           n == Told(r, e)
           j == IF Paid(e) /\ Unpaid(r) THEN announced[o] + 1 ELSE announced[o]
<1>1. /\ UNCHANGED <<clock, call, shown, key, phase, back, sent>>
      /\ seen' = seen \cup {e} /\ order' = [order EXCEPT ![o] = n]
      /\ announced' = IF Paid(e) /\ Unpaid(r) THEN [announced EXCEPT ![o] = @ + 1]
                      ELSE announced
      /\ Placed(r, e)
  BY DEF Webhook, stripe
<1>2. /\ TypeOK /\ e \in Events /\ o \in Orders /\ e.session \in Sessions
      /\ r \in OrderRows /\ EventAgrees(e)
  BY Typed, EventFields DEF IInv, TypeOK
<1>3. n \in OrderRows /\ n.session = r.session /\ n.created = r.created
  BY <1>2, ToldRow
<1> HIDE DEF o, n
<1>4. /\ order' \in [Orders -> OrderRows] /\ order'[o] = n
      /\ \A q \in Orders : q # o => order'[q] = order[q]
      /\ announced' \in [Orders -> Nat] /\ announced'[o] = j
      /\ \A q \in Orders : q # o => announced'[q] = announced[q]
  BY <1>1, <1>2, <1>3 DEF TypeOK
<1>5. Heard(o)' = Heard(o) \cup {e} /\ \A q \in Orders : q # o => Heard(q)' = Heard(q)
  BY <1>1 DEF Heard, o
<1>6. TypeOK'
  BY <1>1, <1>2, <1>4 DEF TypeOK
<1>7. r.session = e.session /\ r.session # None /\ r.status # "absent"
  <2>1. OrderAgrees(o)
    BY <1>2 DEF IInv
  <2> QED BY <1>1, <1>2, <2>1, SessionFields DEF Placed, OrderAgrees
<1>8. /\ Truth(n, j, Heard(o) \cup {e})
      /\ n.status # "absent" /\ (n.intent # None => n.intent = r.session)
      /\ n.intent # None <=> \E d \in Heard(o) \cup {e} : d.paid
      /\ n.refunded > 0 => n.intent # None
  <2>1. HeardAgree(o) /\ Truth(r, announced[o], Heard(o)) /\ OrderAgrees(o)
    BY <1>2 DEF IInv
  <2>2. \A d \in Heard(o) : d \in Events /\ d.session = e.session /\ EventAgrees(d)
    BY <1>2, <1>7, <2>1 DEF IInv, TypeOK, HeardAgree, Heard
  <2>3. r.intent # None => r.intent = r.session
    BY <2>1 DEF OrderAgrees
  <2>4. /\ r.intent # None <=> \E d \in Heard(o) : d.paid
        /\ r.refunded > 0 => r.intent # None
    BY <2>1 DEF HeardAgree
  <2>5. e.kind = "refunded" => r.intent # None
    BY <1>1, <1>2, SessionFields DEF Placed
  <2> HIDE DEF r
  <2> QED BY <1>2, <1>7, <2>1, <2>2, <2>3, <2>4, <2>5, OneMore DEF n
<1>9. ASSUME NEW q \in Orders
      PROVE  HeardAgree(q)' /\ Truth(order[q], announced[q], Heard(q))'
  <2>1. HeardAgree(q) /\ Truth(order[q], announced[q], Heard(q))
    BY DEF IInv
  <2>2. CASE q = o
    <3>1. \A d \in Heard(o) \cup {e} : n.session = d.session
      BY <1>3, <1>7, <2>1, <2>2 DEF HeardAgree
    <3>2. HeardAgree(q)'
      BY <1>4, <1>5, <1>8, <2>2, <3>1 DEF HeardAgree
    <3>3. Truth(order[q], announced[q], Heard(q))'
      BY <1>4, <1>5, <1>8, <2>2 DEF Truth
    <3> QED BY <3>2, <3>3
  <2>3. CASE q # o
    BY <1>4, <1>5, <2>1, <2>3 DEF HeardAgree, Truth
  <2> QED BY <2>2, <2>3
<1>10. ASSUME NEW q \in Orders PROVE KeyAgrees(q)' /\ OrderAgrees(q)'
  <2>1. KeyAgrees(q) /\ OrderAgrees(q)
    BY DEF IInv
  <2>2. CASE q = o
    BY <1>1, <1>3, <1>4, <1>7, <1>8, <2>1, <2>2 DEF KeyAgrees, OrderAgrees
  <2>3. CASE q # o
    BY <1>1, <1>4, <2>1, <2>3 DEF KeyAgrees, OrderAgrees
  <2> QED BY <2>2, <2>3
<1>11. ASSUME NEW d \in Calls PROVE CallAgrees(d)'
  <2>1. CallAgrees(d) /\ (call[d] # None => call[d].order \in Orders)
    BY <1>2, Typed, CheckoutFields DEF IInv
  <2> QED BY <1>1, <1>3, <1>4, <1>8, <2>1 DEF CallAgrees
<1>12. ShownAgree'
  <2>1. \A s \in shown : s \in Sessions /\ s[1] \in Orders /\ order[s[1]].session = s
    BY <1>2, SessionFields DEF IInv, ShownAgree, TypeOK
  <2> QED BY <1>1, <1>3, <1>4, <2>1 DEF ShownAgree
<1>13. \A d \in sent' : EventAgrees(d)'
  BY <1>1 DEF IInv, EventAgrees
<1> QED BY <1>6, <1>9, <1>10, <1>11, <1>12, <1>13 DEF IInv

-----------------------------------------------------------------------------
LEMMA StutterKeeps == IInv /\ UNCHANGED vars => IInv'
<1> SUFFICES ASSUME IInv, UNCHANGED vars PROVE IInv'
  OBVIOUS
<1>1. UNCHANGED <<clock, order, seen, announced, call, shown, key, phase, back, sent>>
  BY DEF vars, stripe
<1>2. TypeOK' /\ ShownAgree' /\ \A q \in Orders : KeyAgrees(q)' /\ OrderAgrees(q)'
  BY <1>1 DEF IInv, TypeOK, ShownAgree, KeyAgrees, OrderAgrees
<1>3. (\A c \in Calls : CallAgrees(c)') /\ \A e \in sent' : EventAgrees(e)'
  BY <1>1 DEF IInv, CallAgrees, EventAgrees
<1> QED BY <1>1, <1>2, <1>3, UnheardKeep DEF IInv

LEMMA StepKeeps == IInv /\ [Next]_vars => IInv'
<1> SUFFICES ASSUME IInv, Next PROVE IInv'
  BY StutterKeeps
<1>1. ASSUME NEW o \in Orders, ShowAgain(o) PROVE IInv'
  BY <1>1, ShowAgainKeeps
<1>2. ASSUME NEW o \in Orders, NEW c \in Calls, Begin(c, o) PROVE IInv'
  BY <1>2, BeginKeeps
<1>3. ASSUME NEW c \in Calls, Post(c) PROVE IInv'
  BY <1>3, PostKeeps
<1>4. ASSUME NEW c \in Calls, Save(c) PROVE IInv'
  BY <1>4, SaveKeeps
<1>5. ASSUME NEW c \in Calls, Drop(c) PROVE IInv'
  BY <1>5, DropKeeps
<1>6. ASSUME NEW s \in Sessions, Pay(s) \/ Settle(s) \/ Expire(s) PROVE IInv'
  BY <1>6, CustomerKeeps
<1>7. ASSUME NEW s \in Sessions, NEW a \in 1..Amount, Refund(s, a) PROVE IInv'
  BY <1>7, RefundKeeps
<1>8. ASSUME NEW e \in sent, Webhook(e) PROVE IInv'
  BY <1>8, WebhookKeeps
<1>9. ASSUME Advance PROVE IInv'
  BY <1>9, AdvanceKeeps
<1> QED BY <1>1, <1>2, <1>3, <1>4, <1>5, <1>6, <1>7, <1>8, <1>9 DEF Next

(* The inductive invariant: a key made the order's one session after the      *)
(* order was created, a request ends before Stripe forgets its key, an event  *)
(* says what goes on being true of its session, and each row is what was      *)
(* heard.                                                                     *)
THEOREM BillingInvariant == Spec => []IInv
<1>1. Init => IInv
  BY InitEstablishes
<1>2. IInv /\ [Next]_vars => IInv'
  BY StepKeeps
<1> QED BY <1>1, <1>2, PTL DEF Spec

(* A customer is never given two sessions that can be paid for one order, for *)
(* any number of repeated requests and lost answers (the 23 hour window of    *)
(* checkout and its idempotency key).                                         *)
THEOREM OneSessionEver == Spec => []OneSession
<1>1. IInv => OneSession
  <2> SUFFICES ASSUME IInv PROVE OneSession
    OBVIOUS
  <2>1. ASSUME NEW s \in Sessions, NEW t \in Sessions,
               s[1] = t[1], phase[s] # "none", phase[t] # "none"
        PROVE  s = t
    <3>1. KeyAgrees(s[1])
      BY SessionFields DEF IInv
    <3> QED BY <2>1, <3>1 DEF KeyAgrees
  <2> QED BY <2>1 DEF IInv, ShownAgree, OneSession
<1> QED BY <1>1, BillingInvariant, PTL

(* Whatever order events come in and however often, an order says what they   *)
(* say together, and a payment is announced once (webhook).                   *)
THEOREM OrdersAreTrue == Spec => []OrderTruth
<1>1. IInv => OrderTruth
  <2> SUFFICES ASSUME IInv, NEW o \in Orders
               PROVE  LET heard == Heard(o)
                          paid  == \E e \in heard : e.paid
                      IN /\ announced[o] = (IF paid THEN 1 ELSE 0)
                         /\ \A e \in heard : e.amount <= order[o].refunded
                         /\ order[o].refunded > 0 =>
                              \E e \in heard : e.amount = order[o].refunded
                         /\ order[o].status = Says(order[o], heard)
    BY DEF OrderTruth, Says
  <2>1. Truth(order[o], announced[o], Heard(o)) /\ order[o] \in OrderRows
    BY Typed DEF IInv
  <2>2. \A e \in Heard(o) : EventAgrees(e) /\ e.session = order[o].session
    BY DEF IInv, TypeOK, HeardAgree, Heard
  <2>3. /\ \A d, e \in Heard(o) : ~(d.paid /\ e.kind \in {"expired", "failed"})
        /\ \A d, e \in Heard(o) : ~(d.kind = "expired" /\ e.kind = "failed")
    BY <2>2 DEF EventAgrees
  <2>4. order[o].refunded > 0 => \E e \in Heard(o) : e.paid
    BY DEF IInv, HeardAgree
  <2>5. order[o].status = Says(order[o], Heard(o))
    BY <2>1, <2>3, <2>4, SaysIt
  <2> QED BY <2>1, <2>5 DEF Truth
<1> QED BY <1>1, BillingInvariant, PTL

-----------------------------------------------------------------------------
(* The queue.                                                                 *)
(* What the provider remembers and did.                                       *)
ProviderInv ==
  \A e \in Entries :
    /\ known[e] = Nobody => effects[e] = 0
    /\ known[e] # Nobody => effects[e] = 1 /\ known[e] <= time
    /\ row[e].status = "absent" => known[e] = Nobody
    /\ row[e].status \in {"sent", "deleted"} => known[e] # Nobody

(* A row was created before the provider first heard of it, and nobody holds  *)
(* one that is gone.                                                          *)
CreatedInv ==
  \A e \in Entries :
    /\ row[e].status \notin {"absent", "deleted"} =>
         /\ row[e].created <= time
         /\ known[e] # Nobody => row[e].created <= known[e]
    /\ row[e].status = "deleted" => row[e].lease = Nobody

(* A worker is done before the provider forgets what it may have been told.   *)
JobInv ==
  \A w \in Workers : job[w] # Nobody =>
    /\ row[job[w].entry].status # "absent"
    /\ job[w].stamp <= time /\ time <= job[w].stamp + CallLag
    /\ known[job[w].entry] # Nobody => job[w].stamp + CallLag < known[job[w].entry] + KeyLife
    /\ job[w].answer = "sent" => known[job[w].entry] # Nobody

RequestInv == \A a \in Admins : request[a] # Nobody => row[request[a]].status # "absent"

(* The inductive invariant.                                                   *)
QueueInv == QueueTypeOK /\ ProviderInv /\ CreatedInv /\ JobInv /\ RequestInv

(* The assumption, constant by constant.                                      *)
LEMMA QueueConstants ==
  /\ MaxAttempts \in Nat /\ Lease \in Nat /\ SendWindow \in Nat /\ CallLag \in Nat
  /\ KeyLife \in Nat /\ Keep \in Nat /\ LastTime \in Nat
  /\ Backoff \in [0..(MaxAttempts - 1) -> Nat]
  /\ SendWindow + CallLag < KeyLife /\ MaxAttempts > 0
  /\ Nobody \notin Workers /\ Nobody \notin Nat
BY OutboxAssumption

USE QueueConstants DEF Statuses, Moments, Attempts

-----------------------------------------------------------------------------
(* Rows and jobs: what the operators that build them return.                  *)
LEMMA QueueRowFields ==
  ASSUME NEW r \in Rows
  PROVE  /\ r.status \in Statuses /\ r.attempts \in Attempts /\ r.created \in Moments
         /\ r.available \in Nat /\ r.until \in Nat /\ r.lease \in Workers \cup {Nobody}
BY DEF Rows

LEMMA NewRows ==
  ASSUME QueueTypeOK
  PROVE  /\ NoRow \in Rows /\ NoRow.status = "absent"
         /\ New \in Rows /\ New.status = "queued" /\ New.created = time
         /\ Gone \in Rows /\ Gone.status = "deleted" /\ Gone.lease = Nobody
<1>1. NoRow \in Rows /\ NoRow.status = "absent" /\ NoRow.lease = Nobody
  BY DEF Rows, NoRow
<1>2. time \in Moments /\ time \in Nat
  BY DEF QueueTypeOK
<1>3. New \in Rows /\ New.status = "queued" /\ New.created = time
  BY <1>2 DEF Rows, New
<1>4. Gone \in Rows /\ Gone.status = "deleted" /\ Gone.lease = Nobody
  BY <1>1 DEF Rows, Gone
<1> QED
  BY <1>1, <1>3, <1>4

LEMMA DeadRow ==
  ASSUME NEW r \in Rows
  PROVE  LET d == [r EXCEPT !.status = "dead"] IN
           d \in Rows /\ d.status = "dead" /\ d.created = r.created
BY DEF Rows

LEMMA TakenRow ==
  ASSUME QueueTypeOK, NEW r \in Rows, NEW w \in Workers, r.attempts < MaxAttempts
  PROVE  Taken(r, w) \in Rows /\ Taken(r, w).status = "sending" /\ Taken(r, w).created = r.created
<1>1. r.attempts + 1 \in Attempts /\ time + Lease \in Nat
  BY QueueRowFields DEF QueueTypeOK
<1>2. r.available \in Nat /\ r.created \in Moments
  BY QueueRowFields
<1> HIDE DEF Attempts, Moments
<1> QED
  BY <1>1, <1>2 DEF Rows, Taken

LEMMA JobFields ==
  ASSUME NEW j \in Jobs
  PROVE  /\ j.entry \in Entries /\ j.stamp \in Moments /\ j.attempts \in 0..(MaxAttempts - 1)
         /\ j.answer \in {"none", "sent", "failed"}
BY DEF Jobs

LEMMA DecidedRow ==
  ASSUME NEW r \in Rows, NEW j \in Jobs
  PROVE  /\ Decided(r, j) \in Rows /\ Decided(r, j).created = r.created
         /\ Decided(r, j).status \in {"sent", "dead", "queued"}
         /\ Decided(r, j).status = "sent" => j.answer = "sent"
<1>1. /\ StatusAfter(j) \in {"sent", "dead", "queued"}
      /\ StatusAfter(j) = "sent" => j.answer = "sent"
  BY DEF StatusAfter
<1>2. j.stamp + Backoff[j.attempts] \in Nat
  BY JobFields
<1> QED
  BY <1>1, <1>2 DEF Decided, Rows

LEMMA RequeuedRow ==
  ASSUME QueueTypeOK, NEW r \in Rows
  PROVE  Requeued(r) \in Rows /\ Requeued(r).status = "queued" /\ Requeued(r).created = r.created
<1>1. time \in Nat /\ r.lease \in Workers \cup {Nobody} /\ r.created \in Moments
  BY QueueRowFields DEF QueueTypeOK
<1> HIDE DEF Moments
<1> QED
  BY <1>1 DEF Rows, Requeued

-----------------------------------------------------------------------------
(* Everything starts empty.                                                   *)
LEMMA QueueInitSound == QueueInit => QueueInv
<1> SUFFICES ASSUME QueueInit PROVE QueueInv
  OBVIOUS
<1>1. NoRow \in Rows /\ NoRow.status = "absent"
  BY DEF Rows, NoRow
<1>2. QueueTypeOK
  BY <1>1 DEF QueueInit, QueueTypeOK
<1> QED
  BY <1>1, <1>2 DEF QueueInit, QueueInv, ProviderInv, CreatedInv, JobInv, RequestInv

(* Cleaning up touches only rows that were sent.                              *)
LEMMA CleanedKeeps ==
  ASSUME QueueTypeOK
  PROVE  /\ Cleaned \in [Entries -> Rows]
         /\ \A e \in Entries : \/ Cleaned[e] = row[e]
                               \/ row[e].status = "sent" /\ Cleaned[e].status = "deleted"
                                  /\ Cleaned[e].lease = Nobody
BY NewRows DEF QueueTypeOK, Cleaned

(* What the invariant says of one worker, and what rows may do to it.         *)
LEMMA JobFacts ==
  ASSUME QueueInv, NEW v \in Workers, job[v] # Nobody
  PROVE  /\ job[v] \in Jobs /\ job[v].entry \in Entries /\ job[v].stamp \in Nat
         /\ row[job[v].entry].status # "absent"
         /\ job[v].stamp <= time /\ time <= job[v].stamp + CallLag
         /\ known[job[v].entry] # Nobody =>
              job[v].stamp + CallLag < known[job[v].entry] + KeyLife
         /\ job[v].answer = "sent" => known[job[v].entry] # Nobody
<1>1. job[v] \in Jobs
  BY DEF QueueInv, QueueTypeOK
<1>2. job[v].entry \in Entries /\ job[v].stamp \in Nat
  BY <1>1, JobFields
<1> QED
  BY <1>1, <1>2 DEF QueueInv, JobInv

LEMMA RowsKeepJobs ==
  ASSUME QueueInv, time' = time, job' = job, known' = known,
         \A e \in Entries : row[e].status # "absent" => row'[e].status # "absent"
  PROVE  JobInv'
<1>1. \A v \in Workers : job[v] # Nobody => row'[job[v].entry].status # "absent"
  BY JobFacts
<1> QED
  BY <1>1 DEF QueueInv, JobInv

(* What a step that changes rows only may do to them.                         *)
Harmless(old, new) ==
  /\ new \in Rows
  /\ \/ new = old
     \/ old.status = "sent" /\ new.status = "deleted" /\ new.lease = Nobody
     \/ /\ old.status \notin {"absent", "deleted"} /\ new.created = old.created
        /\ new.status \in {"queued", "sending", "dead"}

LEMMA HarmlessKeeps ==
  ASSUME QueueInv, row' \in [Entries -> Rows], \A e \in Entries : Harmless(row[e], row'[e]),
         UNCHANGED <<time, job, request, provider>>
  PROVE  QueueInv'
<1> USE DEF QueueInv, provider
<1>1. QueueTypeOK'
  BY DEF QueueTypeOK
<1>2. ProviderInv' /\ CreatedInv'
  BY QueueRowFields DEF QueueTypeOK, ProviderInv, CreatedInv, Harmless
<1>3. JobInv'
  BY RowsKeepJobs DEF Harmless
<1>4. RequestInv'
  BY DEF QueueTypeOK, RequestInv, Harmless
<1> QED
  BY <1>1, <1>2, <1>3, <1>4

(* The steps of enqueue(), tick(), deliver() and retry().                     *)
LEMMA EnqueueKeeps ==
  ASSUME QueueInv, NEW e \in Entries, Enqueue(e)
  PROVE  QueueInv'
<1> USE DEF QueueInv, Enqueue, provider
<1>1. /\ row' \in [Entries -> Rows]
      /\ row'[e].status = "queued" /\ row'[e].created = time
      /\ \A f \in Entries : f # e => row'[f] = row[f]
  BY NewRows DEF QueueTypeOK
<1>2. QueueTypeOK'
  BY <1>1 DEF QueueTypeOK
<1>3. ProviderInv' /\ CreatedInv'
  BY <1>1, QueueRowFields DEF QueueTypeOK, ProviderInv, CreatedInv
<1>4. JobInv'
  BY <1>1, RowsKeepJobs
<1>5. RequestInv'
  BY <1>1 DEF QueueTypeOK, RequestInv
<1> QED
  BY <1>2, <1>3, <1>4, <1>5

LEMMA SweepKeeps ==
  ASSUME QueueInv, NEW w \in Workers, Sweep(w)
  PROVE  QueueInv'
<1>1. QueueTypeOK
  BY DEF QueueInv
<1>2. \A e \in Entries : Harmless(row[e], row'[e])
  BY <1>1, CleanedKeeps DEF Sweep, Harmless
<1> QED
  BY <1>1, <1>2, CleanedKeeps, HarmlessKeeps DEF Sweep

(* A row that is due is not one that goes.                                    *)
LEMMA DueStays ==
  ASSUME QueueTypeOK, NEW e \in Entries, Due(e)
  PROVE  row[e].status \in {"queued", "sending"} /\ Cleaned[e] = row[e]
BY CleanedKeeps DEF Due

LEMMA GiveUpKeeps ==
  ASSUME QueueInv, NEW w \in Workers, NEW e \in Entries, GiveUp(w, e)
  PROVE  QueueInv'
<1> DEFINE d == [row[e] EXCEPT !.status = "dead"]
<1>1. QueueTypeOK /\ row[e] \in Rows
  BY DEF QueueInv, QueueTypeOK
<1>2. row[e].status \in {"queued", "sending"} /\ Cleaned[e] = row[e]
  BY <1>1, DueStays DEF GiveUp, First
<1>3. d \in Rows /\ d.status = "dead" /\ d.created = row[e].created
  BY <1>1, DeadRow
<1>4. row' = [Cleaned EXCEPT ![e] = d]
  BY DEF GiveUp
<1> HIDE DEF d
<1>5. \A f \in Entries : Harmless(row[f], row'[f])
  BY <1>1, <1>2, <1>3, <1>4, CleanedKeeps DEF Harmless
<1>6. row' \in [Entries -> Rows]
  BY <1>1, <1>3, <1>4, CleanedKeeps
<1> QED
  BY <1>5, <1>6, HarmlessKeeps DEF GiveUp

(* A row is taken inside its window, and the last call of that worker comes   *)
(* before the provider may have forgotten.                                    *)
LEMMA TakeKeeps ==
  ASSUME QueueInv, NEW w \in Workers, NEW e \in Entries, Take(w, e)
  PROVE  QueueInv'
<1> DEFINE t == Taken(row[e], w)
           k == [entry |-> e, stamp |-> time, attempts |-> row[e].attempts,
                 answer |-> "none"]
<1>1. QueueTypeOK /\ row[e] \in Rows /\ time \in Nat
  BY DEF QueueInv, QueueTypeOK
<1>2. row[e].status \in {"queued", "sending"} /\ Cleaned[e] = row[e]
  BY <1>1, DueStays DEF Take, First
<1>3. row[e].created + SendWindow >= time /\ row[e].attempts < MaxAttempts
  BY <1>1, QueueRowFields DEF Take, Expired
<1>4. t \in Rows /\ t.status = "sending" /\ t.created = row[e].created
  BY <1>1, <1>3, TakenRow
<1>5. k \in Jobs /\ k.entry = e /\ k.stamp = time /\ k.answer = "none"
  BY <1>1, <1>3, QueueRowFields DEF Jobs, QueueTypeOK
<1>6. row' = [Cleaned EXCEPT ![e] = t] /\ job' = [job EXCEPT ![w] = k]
  BY DEF Take
<1> HIDE DEF t, k
<1>7. row' \in [Entries -> Rows] /\ job' \in [Workers -> Jobs \cup {Nobody}]
  BY <1>1, <1>4, <1>5, <1>6, CleanedKeeps DEF QueueTypeOK
<1>8. \A f \in Entries : Harmless(row[f], row'[f])
  BY <1>1, <1>2, <1>4, <1>6, CleanedKeeps DEF Harmless
<1>9. QueueTypeOK'
  BY <1>7 DEF QueueInv, QueueTypeOK, Take, provider
<1>10. ProviderInv' /\ CreatedInv'
  <2>1. time' = time /\ known' = known /\ effects' = effects
    BY DEF Take, provider
  <2> QED
    BY <1>8, <2>1 DEF QueueInv, ProviderInv, CreatedInv, Harmless
<1>11. known[e] # Nobody => time + CallLag < known[e] + KeyLife
  <2>1. row[e].created \in Nat /\ known[e] \in Nat \cup {Nobody}
    BY <1>1, QueueRowFields DEF QueueTypeOK
  <2>2. known[e] # Nobody => row[e].created <= known[e]
    BY <1>2 DEF QueueInv, CreatedInv
  <2> QED
    BY <1>1, <1>3, <2>1, <2>2
<1>12. JobInv'
  <2> SUFFICES ASSUME NEW v \in Workers, job'[v] # Nobody
               PROVE  /\ row'[job'[v].entry].status # "absent"
                      /\ job'[v].stamp <= time /\ time <= job'[v].stamp + CallLag
                      /\ known[job'[v].entry] # Nobody =>
                           job'[v].stamp + CallLag < known[job'[v].entry] + KeyLife
                      /\ job'[v].answer = "sent" => known[job'[v].entry] # Nobody
    BY DEF JobInv, Take, provider
  <2>1. CASE v = w
    <3>1. job'[v].entry = e /\ job'[v].stamp = time /\ job'[v].answer = "none"
      BY <1>1, <1>5, <1>6, <2>1 DEF QueueTypeOK
    <3>2. row'[e].status # "absent"
      BY <1>2, <1>8 DEF Harmless
    <3> QED
      BY <1>1, <1>11, <3>1, <3>2
  <2>2. CASE v # w
    <3>1. job'[v] = job[v] /\ job[v] \in Jobs
      BY <1>1, <1>6, <2>2 DEF QueueTypeOK
    <3> QED
      BY <1>8, <3>1, JobFields DEF QueueInv, JobInv, Harmless
  <2> QED
    BY <2>1, <2>2
<1>13. RequestInv'
  <2>1. \A f \in Entries : row[f].status # "absent" => row'[f].status # "absent"
    BY <1>8 DEF Harmless
  <2> QED
    BY <1>1, <2>1 DEF QueueInv, QueueTypeOK, RequestInv, Take
<1> QED
  BY <1>9, <1>10, <1>12, <1>13 DEF QueueInv

(* A worker's job only learns its answer.                                     *)
LEMMA AnswerKeeps ==
  ASSUME QueueInv, NEW w \in Workers, job[w] # Nobody, NEW a \in {"sent", "failed"},
         job' = [job EXCEPT ![w].answer = a]
  PROVE  /\ job' \in [Workers -> Jobs \cup {Nobody}]
         /\ \A v \in Workers : job'[v] # Nobody =>
              /\ job[v] # Nobody /\ job'[v].entry = job[v].entry
              /\ job'[v].stamp = job[v].stamp
              /\ job'[v] = job[v] \/ (v = w /\ job'[v].answer = a)
<1> DEFINE k == [job[w] EXCEPT !.answer = a]
<1>1. job \in [Workers -> Jobs \cup {Nobody}] /\ job[w] \in Jobs
  BY JobFacts DEF QueueInv, QueueTypeOK
<1>2. k \in Jobs /\ k.entry = job[w].entry /\ k.stamp = job[w].stamp /\ k.answer = a
  BY <1>1 DEF Jobs
<1>3. job' = [job EXCEPT ![w] = k]
  BY <1>1
<1> HIDE DEF k
<1> QED
  BY <1>1, <1>2, <1>3

(* deliver(): a provider that has heard of the row still remembers it.        *)
LEMMA AcceptKeeps ==
  ASSUME QueueInv, NEW w \in Workers, Accept(w)
  PROVE  QueueInv'
<1> DEFINE e == job[w].entry
<1>1. PICK a \in {"sent", "failed"} : job' = [job EXCEPT ![w].answer = a]
  BY DEF Accept
<1>2. QueueTypeOK /\ time \in Nat /\ job[w] # Nobody /\ job[w] \in Jobs /\ e \in Entries
  BY JobFacts DEF QueueInv, QueueTypeOK, Accept
<1>3. known[e] # Nobody => StillKnown(e)
  <2>1. known[e] \in Nat \cup {Nobody}
    BY <1>2 DEF QueueTypeOK
  <2>2. /\ job[w].stamp \in Nat /\ time <= job[w].stamp + CallLag
        /\ known[e] # Nobody => job[w].stamp + CallLag < known[e] + KeyLife
    BY <1>2, JobFacts
  <2> HIDE DEF e
  <2> QED
    BY <1>2, <2>1, <2>2 DEF StillKnown
<1>4. /\ known' = IF known[e] # Nobody THEN known ELSE [known EXCEPT ![e] = time]
      /\ effects' = IF known[e] # Nobody THEN effects ELSE [effects EXCEPT ![e] = @ + 1]
  BY <1>2, <1>3 DEF QueueTypeOK, StillKnown, Accept
<1>5. /\ known' \in [Entries -> Moments \cup {Nobody}] /\ effects' \in [Entries -> Nat]
      /\ known'[e] # Nobody /\ \A f \in Entries : f # e => known'[f] = known[f]
      /\ known[e] # Nobody => known' = known
      /\ known[e] = Nobody => known'[e] = time
  <2>1. /\ known \in [Entries -> Moments \cup {Nobody}] /\ effects \in [Entries -> Nat]
        /\ time \in Moments /\ time # Nobody
    BY <1>2 DEF QueueTypeOK
  <2>2. CASE known[e] = Nobody
    BY <1>2, <1>4, <2>1, <2>2
  <2>3. CASE known[e] # Nobody
    BY <1>2, <1>4, <2>1, <2>3
  <2> QED
    BY <2>2, <2>3
<1>6. QueueTypeOK'
  BY <1>1, <1>5, AnswerKeeps DEF QueueInv, QueueTypeOK, Accept
<1>7. row[e].status # "absent"
  BY DEF QueueInv, JobInv, Accept
<1>8. ProviderInv'
  <2>1. time' = time /\ row' = row
    BY DEF Accept
  <2>2. CASE known[e] # Nobody
    BY <1>4, <2>1, <2>2 DEF QueueInv, ProviderInv
  <2>3. CASE known[e] = Nobody
    <3>1. effects[e] = 0
      BY <1>2, <2>3 DEF QueueInv, ProviderInv
    <3>2. effects'[e] = 1 /\ \A f \in Entries : f # e => effects'[f] = effects[f]
      BY <1>2, <1>4, <2>3, <3>1 DEF QueueTypeOK
    <3> QED
      BY <1>2, <1>5, <1>7, <2>1, <2>3, <3>2 DEF QueueInv, ProviderInv
  <2> QED
    BY <2>2, <2>3
<1>9. CreatedInv'
  BY <1>2, <1>5, QueueRowFields DEF QueueInv, QueueTypeOK, CreatedInv, Accept
<1>10. JobInv'
  <2> SUFFICES ASSUME NEW v \in Workers, job'[v] # Nobody
               PROVE  /\ row[job'[v].entry].status # "absent"
                      /\ job'[v].stamp <= time /\ time <= job'[v].stamp + CallLag
                      /\ known'[job'[v].entry] # Nobody =>
                           job'[v].stamp + CallLag < known'[job'[v].entry] + KeyLife
                      /\ job'[v].answer = "sent" => known'[job'[v].entry] # Nobody
    BY DEF JobInv, Accept
  <2>1. /\ job[v] # Nobody /\ job'[v].entry = job[v].entry /\ job'[v].stamp = job[v].stamp
        /\ job'[v] = job[v] \/ v = w
    BY <1>1, AnswerKeeps DEF Accept
  <2>3. /\ job[v].entry \in Entries /\ job[v].stamp \in Nat
        /\ row[job[v].entry].status # "absent"
        /\ job[v].stamp <= time /\ time <= job[v].stamp + CallLag
        /\ known[job[v].entry] # Nobody =>
             job[v].stamp + CallLag < known[job[v].entry] + KeyLife
        /\ job[v].answer = "sent" => known[job[v].entry] # Nobody
    BY <2>1, JobFacts
  <2>4. CASE known'[job[v].entry] = known[job[v].entry]
    BY <1>5, <2>1, <2>3, <2>4
  <2>5. CASE known'[job[v].entry] # known[job[v].entry]
    <3>1. job[v].entry = e /\ known'[e] = time
      BY <1>5, <2>3, <2>5
    <3>2. job[v].stamp + CallLag < time + KeyLife
      BY <1>2, <2>3
    <3> QED
      BY <1>5, <2>1, <2>3, <3>1, <3>2
  <2> QED
    BY <2>4, <2>5
<1> QED
  BY <1>6, <1>8, <1>9, <1>10 DEF QueueInv, RequestInv, Accept

LEMMA RefuseKeeps ==
  ASSUME QueueInv, NEW w \in Workers, Refuse(w)
  PROVE  QueueInv'
<1>1. job' = [job EXCEPT ![w].answer = "failed"] /\ job[w] # Nobody
  BY DEF Refuse
<1>2. QueueTypeOK'
  BY <1>1, AnswerKeeps DEF QueueInv, QueueTypeOK, Refuse, provider
<1>3. JobInv'
  <2>1. time' = time /\ row' = row /\ known' = known
    BY DEF Refuse, provider
  <2>2. \A v \in Workers : job'[v] # Nobody =>
          /\ job[v] # Nobody /\ job'[v].entry = job[v].entry /\ job'[v].stamp = job[v].stamp
          /\ job'[v] = job[v] \/ job'[v].answer = "failed"
    BY <1>1, AnswerKeeps
  <2> QED
    BY <2>1, <2>2, JobFacts DEF JobInv
<1> QED
  BY <1>2, <1>3 DEF QueueInv, ProviderInv, CreatedInv, RequestInv, Refuse, provider

(* The second transaction writes "sent" only for what was accepted.           *)
LEMMA FinishKeeps ==
  ASSUME QueueInv, NEW w \in Workers, Finish(w)
  PROVE  QueueInv'
<1> DEFINE e == job[w].entry
           d == Decided(row[e], job[w])
<1>1. QueueTypeOK /\ job[w] \in Jobs /\ e \in Entries /\ row[e] \in Rows
  BY JobFields DEF QueueInv, QueueTypeOK, Finish
<1>2. /\ d \in Rows /\ d.created = row[e].created
      /\ d.status \in {"sent", "dead", "queued"}
      /\ d.status = "sent" => job[w].answer = "sent"
  BY <1>1, DecidedRow
<1>3. /\ row' = IF Holds(w) THEN [row EXCEPT ![e] = d] ELSE row
      /\ job' = [job EXCEPT ![w] = Nobody]
  BY DEF Finish
<1> HIDE DEF d
<1>4. /\ row' \in [Entries -> Rows]
      /\ \A f \in Entries : row'[f] = row[f] \/ (f = e /\ row'[f] = d)
  BY <1>1, <1>2, <1>3 DEF QueueTypeOK
<1>5. time' = time /\ known' = known /\ effects' = effects /\ request' = request
  BY DEF Finish, provider
<1>6. job[w] # Nobody /\ row[e].status # "absent" /\ (d.status = "sent" => known[e] # Nobody)
  BY <1>2 DEF QueueInv, JobInv, Finish
<1>7. QueueTypeOK'
  BY <1>1, <1>3, <1>4, <1>5 DEF QueueTypeOK
<1>8. ProviderInv'
  BY <1>2, <1>4, <1>5, <1>6 DEF QueueInv, ProviderInv
<1>9. CreatedInv'
  <2>1. row[e].status = "deleted" => row' = row
    BY <1>1, <1>3 DEF QueueInv, CreatedInv, Holds
  <2>2. CASE row' = row
    BY <1>5, <2>2 DEF QueueInv, CreatedInv
  <2>3. CASE row[e].status \notin {"absent", "deleted"}
    BY <1>2, <1>4, <1>5, <2>3 DEF QueueInv, CreatedInv
  <2> QED
    BY <1>6, <2>1, <2>2, <2>3
<1>10. JobInv'
  BY <1>1, <1>2, <1>3, <1>4, <1>5, JobFields DEF QueueInv, QueueTypeOK, JobInv
<1>11. RequestInv'
  BY <1>1, <1>2, <1>4, <1>5 DEF QueueInv, QueueTypeOK, RequestInv
<1> QED
  BY <1>7, <1>8, <1>9, <1>10, <1>11 DEF QueueInv

(* The worker dies, and the steps of retry().                                 *)
LEMMA VanishKeeps ==
  ASSUME QueueInv, NEW w \in Workers, Vanish(w)
  PROVE  QueueInv'
<1> USE DEF QueueInv, Vanish, provider
<1>1. QueueTypeOK'
  BY DEF QueueTypeOK
<1>2. JobInv'
  BY DEF QueueTypeOK, JobInv
<1> QED
  BY <1>1, <1>2 DEF ProviderInv, CreatedInv, RequestInv

LEMMA RetryWriteKeeps ==
  ASSUME QueueInv, NEW a \in Admins, RetryWrite(a)
  PROVE  QueueInv'
<1> DEFINE e == request[a]
           d == Requeued(row[e])
<1>1. QueueTypeOK /\ e \in Entries /\ row[e] \in Rows
  BY DEF QueueInv, QueueTypeOK, RetryWrite
<1>2. d \in Rows /\ d.status = "queued" /\ d.created = row[e].created
  BY <1>1, RequeuedRow
<1>3. row[e].status # "absent"
  BY DEF QueueInv, RequestInv, RetryWrite
<1>4. /\ row' = IF row[e].status = "deleted" THEN row ELSE [row EXCEPT ![e] = d]
      /\ request' = [request EXCEPT ![a] = Nobody]
      /\ time' = time /\ job' = job /\ known' = known /\ effects' = effects
  BY DEF RetryWrite, provider
<1> HIDE DEF d
<1>5. row' \in [Entries -> Rows] /\ \A f \in Entries : Harmless(row[f], row'[f])
  BY <1>1, <1>2, <1>3, <1>4 DEF QueueTypeOK, Harmless
<1>6. QueueTypeOK'
  BY <1>1, <1>4, <1>5 DEF QueueTypeOK
<1>7. ProviderInv' /\ CreatedInv'
  BY <1>4, <1>5 DEF QueueInv, ProviderInv, CreatedInv, Harmless
<1>8. JobInv'
  BY <1>4, <1>5, RowsKeepJobs DEF Harmless
<1>9. RequestInv'
  <2>1. \A f \in Entries : row[f].status # "absent" => row'[f].status # "absent"
    BY <1>5 DEF Harmless
  <2> QED
    BY <1>1, <1>4, <2>1 DEF QueueInv, QueueTypeOK, RequestInv
<1> QED
  BY <1>6, <1>7, <1>8, <1>9 DEF QueueInv

LEMMA RetryReadKeeps ==
  ASSUME QueueInv, NEW a \in Admins, RetryFails(a) \/ \E e \in Entries : RetryRead(a, e)
  PROVE  QueueInv'
<1> USE DEF QueueInv, RetryRead, RetryFails, provider
<1>1. QueueTypeOK'
  BY DEF QueueTypeOK
<1>2. RequestInv'
  BY DEF QueueTypeOK, RequestInv
<1> QED
  BY <1>1, <1>2 DEF ProviderInv, CreatedInv, JobInv

(* Time passes no worker by.                                                  *)
LEMMA PassTimeKeeps ==
  ASSUME QueueInv, PassTime
  PROVE  QueueInv'
<1>1. QueueTypeOK /\ time \in Nat /\ time' = time + 1 /\ time' \in Moments
  BY DEF QueueInv, QueueTypeOK, PassTime
<1>2. row' = row /\ job' = job /\ request' = request /\ known' = known /\ effects' = effects
  BY DEF PassTime, provider
<1>3. QueueTypeOK'
  BY <1>1, <1>2 DEF QueueTypeOK
<1>4. ProviderInv'
  BY <1>1, <1>2 DEF QueueInv, QueueTypeOK, ProviderInv
<1>5. CreatedInv'
  BY <1>1, <1>2, QueueRowFields DEF QueueInv, QueueTypeOK, CreatedInv
<1>6. JobInv'
  BY <1>1, <1>2, JobFields DEF QueueInv, QueueTypeOK, JobInv, PassTime
<1> QED
  BY <1>2, <1>3, <1>4, <1>5, <1>6 DEF QueueInv, RequestInv

(* Every step keeps the inductive invariant.                                  *)
LEMMA QueueNextSound == QueueInv /\ [QueueNext]_queueVars => QueueInv'
<1> SUFFICES ASSUME QueueInv, [QueueNext]_queueVars PROVE QueueInv'
  OBVIOUS
<1>1. CASE UNCHANGED queueVars
  BY <1>1
    DEF queueVars, provider, QueueInv, QueueTypeOK, ProviderInv, CreatedInv, JobInv, RequestInv
<1>2. CASE QueueNext
  BY <1>2, EnqueueKeeps, SweepKeeps, GiveUpKeeps, TakeKeeps, AcceptKeeps, RefuseKeeps,
     FinishKeeps, VanishKeeps, RetryReadKeeps, RetryWriteKeeps, PassTimeKeeps
  DEF QueueNext, Tick, Deliver
<1> QED
  BY <1>1, <1>2

-----------------------------------------------------------------------------
(* The inductive invariant holds in every reachable state.                    *)
THEOREM OutboxInvariant == QueueSpec => []QueueInv
BY QueueInitSound, QueueNextSound, PTL DEF QueueSpec

(* Type correctness.                                                          *)
THEOREM OutboxTypes == QueueSpec => []QueueTypeOK
<1>1. QueueInv => QueueTypeOK
  BY DEF QueueInv
<1> QED
  BY <1>1, OutboxInvariant, PTL

(* A message goes out at most once, and what the row calls sent went out.     *)
THEOREM OutboxSentOnce == QueueSpec => []SentOnce
<1>1. QueueInv => SentOnce
  BY DEF QueueInv, QueueTypeOK, ProviderInv, SentOnce
<1> QED
  BY <1>1, OutboxInvariant, PTL

(* The property that the runs check: the two above together.                  *)
THEOREM OutboxDelivered == QueueSpec => []DeliveredOnce
BY OutboxTypes, OutboxSentOnce, PTL DEF DeliveredOnce

-----------------------------------------------------------------------------
(* A worker that still holds the lease of what it delivers has not told the   *)
(* row's answer yet: a lease that lapsed is given to the row's next worker.   *)
LeaseInv ==
  \A w \in Workers :
    job[w] # Nobody /\ row[job[w].entry].lease = w => row[job[w].entry].status # "sent"

(* What a step does to a row that is sent, and what a worker goes on with.    *)
SentStep(e) ==
  /\ row'[e].status = "sent" =>
       \/ row'[e] = row[e]
       \/ \E w \in Workers : row'[e].lease = w /\ job'[w] = Nobody
  /\ row[e].status = "sent" =>
       \/ row'[e].status \in {"sent", "deleted"}
       \/ \E a \in Admins : request[a] = e /\ request'[a] = Nobody

GoesOn(v) ==
  job'[v] # Nobody =>
    \/ job[v] # Nobody /\ job'[v].entry = job[v].entry
    \/ row'[job'[v].entry].status # "sent"

LEMMA TickSent ==
  ASSUME QueueInv, NEW w \in Workers, Tick(w)
  PROVE  (\A e \in Entries : SentStep(e)) /\ \A v \in Workers : GoesOn(v)
<1>1. QueueTypeOK
  BY DEF QueueInv
<1>2. \A e \in Entries : Cleaned[e] = row[e] \/ Cleaned[e].status = "deleted"
  BY <1>1, CleanedKeeps
<1>3. CASE Sweep(w)
  BY <1>2, <1>3 DEF Sweep, SentStep, GoesOn
<1>4. ASSUME NEW e \in Entries, GiveUp(w, e)
      PROVE  (\A f \in Entries : SentStep(f)) /\ \A v \in Workers : GoesOn(v)
  <2> DEFINE d == [row[e] EXCEPT !.status = "dead"]
  <2>1. row[e].status \in {"queued", "sending"} /\ row[e] \in Rows
    BY <1>1, <1>4, DueStays DEF GiveUp, First, QueueTypeOK
  <2>2. d.status = "dead" /\ row' = [Cleaned EXCEPT ![e] = d] /\ job' = job
    BY <1>4, <2>1, DeadRow DEF GiveUp
  <2> HIDE DEF d
  <2>3. row'[e] = d /\ \A f \in Entries : f # e => row'[f] = Cleaned[f]
    BY <1>1, <2>2, CleanedKeeps
  <2> QED BY <1>2, <2>1, <2>2, <2>3 DEF SentStep, GoesOn
<1>5. ASSUME NEW e \in Entries, Take(w, e)
      PROVE  (\A f \in Entries : SentStep(f)) /\ \A v \in Workers : GoesOn(v)
  <2> DEFINE t == Taken(row[e], w)
             k == [entry |-> e, stamp |-> time, attempts |-> row[e].attempts,
                   answer |-> "none"]
  <2>1. row[e].status \in {"queued", "sending"}
    BY <1>1, <1>5, DueStays DEF Take, First
  <2>2. /\ t.status = "sending" /\ k.entry = e
        /\ row' = [Cleaned EXCEPT ![e] = t] /\ job' = [job EXCEPT ![w] = k]
    BY <1>5 DEF Take, Taken
  <2> HIDE DEF t, k
  <2>3. /\ row'[e] = t /\ \A f \in Entries : f # e => row'[f] = Cleaned[f]
        /\ job'[w] = k /\ \A v \in Workers : v # w => job'[v] = job[v]
    BY <1>1, <2>2, CleanedKeeps DEF QueueTypeOK
  <2> QED BY <1>2, <2>1, <2>2, <2>3 DEF SentStep, GoesOn
<1> QED BY <1>3, <1>4, <1>5 DEF Tick

LEMMA FinishSent ==
  ASSUME QueueInv, LeaseInv, NEW w \in Workers, Finish(w)
  PROVE  (\A e \in Entries : SentStep(e)) /\ \A v \in Workers : GoesOn(v)
<1> DEFINE e == job[w].entry
           d == Decided(row[e], job[w])
<1>1. QueueTypeOK /\ e \in Entries /\ row[e] \in Rows
  BY JobFields DEF QueueInv, QueueTypeOK, Finish
<1>2. d.lease = row[e].lease
  BY <1>1 DEF Decided, Rows
<1>3. /\ row' = IF Holds(w) THEN [row EXCEPT ![e] = d] ELSE row
      /\ job' = [job EXCEPT ![w] = Nobody] /\ job[w] # Nobody
  BY DEF Finish
<1>4. job'[w] = Nobody /\ \A v \in Workers : job'[v] # Nobody => job'[v] = job[v] /\ job[v] # Nobody
  BY <1>1, <1>3 DEF QueueTypeOK
<1> HIDE DEF d, e
<1>5. CASE ~Holds(w)
  BY <1>3, <1>4, <1>5 DEF SentStep, GoesOn
<1>6. CASE Holds(w)
  <2>1. row[e].lease = w /\ row[e].status # "sent"
    BY <1>3, <1>6 DEF Holds, LeaseInv, e
  <2>2. row'[e] = d /\ \A f \in Entries : f # e => row'[f] = row[f]
    BY <1>1, <1>3, <1>6 DEF QueueTypeOK
  <2> QED BY <1>2, <1>4, <2>1, <2>2 DEF SentStep, GoesOn
<1> QED BY <1>5, <1>6

LEMMA RetrySent ==
  ASSUME QueueInv, NEW a \in Admins, RetryWrite(a)
  PROVE  (\A e \in Entries : SentStep(e)) /\ \A v \in Workers : GoesOn(v)
<1> DEFINE e == request[a]
           d == Requeued(row[e])
<1>1. QueueTypeOK /\ e \in Entries
  BY DEF QueueInv, QueueTypeOK, RetryWrite
<1>2. /\ row' = IF row[e].status = "deleted" THEN row ELSE [row EXCEPT ![e] = d]
      /\ request' = [request EXCEPT ![a] = Nobody] /\ job' = job /\ d.status = "queued"
  BY DEF RetryWrite, Requeued
<1>3. request'[a] = Nobody /\ request[a] = e
  BY <1>1, <1>2 DEF QueueTypeOK
<1> HIDE DEF d, e
<1>4. \/ row' = row
      \/ row'[e] = d /\ \A f \in Entries : f # e => row'[f] = row[f]
  BY <1>1, <1>2 DEF QueueTypeOK
<1> QED BY <1>2, <1>3, <1>4 DEF SentStep, GoesOn

LEMMA StepSent ==
  ASSUME QueueInv, LeaseInv, [QueueNext]_queueVars
  PROVE  (\A e \in Entries : SentStep(e)) /\ \A v \in Workers : GoesOn(v)
<1>1. QueueTypeOK
  BY DEF QueueInv
<1>2. ASSUME NEW e \in Entries, Enqueue(e)
      PROVE  (\A f \in Entries : SentStep(f)) /\ \A v \in Workers : GoesOn(v)
  <2>1. New.status = "queued"
    BY DEF New
  <2>2. row'[e] = New /\ job' = job /\ \A f \in Entries : f # e => row'[f] = row[f]
    BY <1>1, <1>2 DEF Enqueue, QueueTypeOK
  <2> QED BY <1>2, <2>1, <2>2 DEF Enqueue, SentStep, GoesOn
<1>3. ASSUME NEW w \in Workers, Deliver(w) \/ Vanish(w)
      PROVE  (\A e \in Entries : SentStep(e)) /\ \A v \in Workers : GoesOn(v)
  <2>1. row' = row
    BY <1>3 DEF Deliver, Accept, Refuse, Vanish
  <2>2. CASE Vanish(w)
    <3>1. \A v \in Workers : job'[v] # Nobody => job'[v] = job[v]
      BY <1>1, <2>2 DEF Vanish, QueueTypeOK
    <3> QED BY <2>1, <3>1 DEF SentStep, GoesOn
  <2>3. CASE Deliver(w)
    <3>1. PICK a \in {"sent", "failed"} : job[w] # Nobody /\ job' = [job EXCEPT ![w].answer = a]
      BY <2>3 DEF Deliver, Accept, Refuse
    <3>2. \A v \in Workers : job'[v] # Nobody => job[v] # Nobody /\ job'[v].entry = job[v].entry
      BY <3>1, AnswerKeeps
    <3> QED BY <2>1, <3>2 DEF SentStep, GoesOn
  <2> QED BY <1>3, <2>2, <2>3
<1>4. ASSUME NEW a \in Admins, RetryFails(a) \/ \E e \in Entries : RetryRead(a, e)
      PROVE  (\A e \in Entries : SentStep(e)) /\ \A v \in Workers : GoesOn(v)
  <2>1. row' = row /\ job' = job
    BY <1>4 DEF RetryFails, RetryRead
  <2> QED BY <2>1 DEF SentStep, GoesOn
<1>5. CASE PassTime \/ UNCHANGED queueVars
  <2>1. row' = row /\ job' = job
    BY <1>5 DEF PassTime, queueVars
  <2> QED BY <2>1 DEF SentStep, GoesOn
<1> QED BY <1>2, <1>3, <1>4, <1>5, TickSent, FinishSent, RetrySent DEF QueueNext

LEMMA LeaseKeeps == QueueInv /\ LeaseInv /\ [QueueNext]_queueVars => LeaseInv'
<1> SUFFICES ASSUME QueueInv, LeaseInv, [QueueNext]_queueVars, NEW v \in Workers,
                    job'[v] # Nobody, row'[job'[v].entry].lease = v,
                    row'[job'[v].entry].status = "sent"
             PROVE  FALSE
  BY DEF LeaseInv
<1> DEFINE e == job'[v].entry
<1>1. QueueInv'
  BY QueueNextSound
<1>2. e \in Entries
  BY <1>1, JobFields DEF QueueInv, QueueTypeOK
<1>3. SentStep(e) /\ GoesOn(v)
  BY <1>2, StepSent
<1>4. job[v] # Nobody /\ job[v].entry = e
  BY <1>3 DEF GoesOn
<1>5. row'[e] = row[e]
  BY <1>3 DEF SentStep
<1> QED BY <1>4, <1>5 DEF LeaseInv

(* What was sent is not queued again by a worker that lost its lease, only by *)
(* a retry whose administrator had read the row before (the last UPDATE of    *)
(* tick() names its lease in the WHERE clause; retry() looks at no lease).    *)
THEOREM SentIsKept == QueueSpec => SentStays
<1>1. QueueInit => LeaseInv
  BY DEF QueueInit, LeaseInv
<1>2. QueueInv /\ LeaseInv /\ [QueueNext]_queueVars =>
        [\A e \in Entries :
           row[e].status = "sent" =>
             \/ row'[e].status \in {"sent", "deleted"}
             \/ \E a \in Admins : request[a] = e /\ request'[a] = Nobody]_queueVars
  BY StepSent DEF SentStep
<1> QED BY <1>1, <1>2, LeaseKeeps, OutboxInvariant, PTL DEF QueueSpec, SentStays
=============================================================================
