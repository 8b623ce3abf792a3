---------------------------- MODULE AccountsProofs ----------------------------
(* Proofs about the accounts of the Accounts kit, for any number of users,    *)
(* sessions, links and requests at a time, and any lifetimes.                 *)
EXTENDS Accounts, FiniteSetTheorems, TLAPS

(* What SessionsHonest says of sessions.                                      *)
SessionsRest ==
  \A k \in Cookies : session[k] # None =>
    LET u == user[session[k].user] IN
      /\ u # None /\ u.active /\ u.verified
      /\ u.password = session[k].password /\ u.role = session[k].role

(* What a running handler has read stays true: accounts are never removed and *)
(* never unverified.                                                          *)
CallsKnow ==
  \A c \in Calls : call[c] # None =>
    /\ call[c].op \in {"login", "invite", "change_role"} => user[call[c].user] # None
    /\ call[c].op = "login" => user[call[c].user].verified

(* Links are numbered in the order they are sent; a link that still works is  *)
(* the newest of its kind and was sent after any other was completed.  Each   *)
(* was sent to an account.                                                    *)
LinksAgree ==
  /\ \E m \in 0..MaxLinks : Sent = 1..m
  /\ token \cap retired = {}
  /\ \A n \in token : Newest(n)
  /\ \A n \in Sent : user[link[n].user] # None

(* The inductive invariant.                                                   *)
IInv == TypeOK /\ SessionsRest /\ CallsKnow /\ LinksAgree

USE DEF Times, Links, Roles, Hashes, UserRows, LinkRecords, SessionRows, CallRecords,
        Exists, Idle, Answer

-----------------------------------------------------------------------------
LEMMA InitEstablishes == Init => IInv
<1> SUFFICES ASSUME Init PROVE IInv
  OBVIOUS
<1>1. TypeOK /\ SessionsRest /\ CallsKnow
  BY AccountsAssumption DEF Init, TypeOK, SessionsRest, CallsKnow, Sent
<1>2. Sent = {}
  BY DEF Init, Sent
<1>3. Sent = 1..0 /\ 0 \in 0..MaxLinks
  BY <1>2, AccountsAssumption
<1> QED BY <1>1, <1>2, <1>3 DEF Init, IInv, LinksAgree

(* A handler that sends no link leaves their order alone; completing one and  *)
(* cleaning up only take links away.                                          *)
LEMMA LinksStay ==
  ASSUME IInv, UNCHANGED link, token' \subseteq token,
         \A u \in Users : user[u] # None => user'[u] # None,
         retired' = retired \/ \E u \in Users : retired' = retired \cup Of(u)
                                               /\ token' = token \ Of(u)
  PROVE  LinksAgree'
<1>1. Sent' = Sent
  BY DEF Sent
<1>2. \A n \in Links : Newest(n)' = Newest(n)
  BY <1>1 DEF Newest, Of
<1>3. token' \cap retired' = {}
  BY DEF IInv, LinksAgree
<1>4. \A n \in token' : n \in Links /\ Newest(n)
  BY DEF IInv, LinksAgree, TypeOK, Sent
<1>5. \E m \in 0..MaxLinks : Sent' = 1..m
  BY <1>1 DEF IInv, LinksAgree
<1>6. \A n \in Sent' : user'[link'[n].user] # None
  BY <1>1 DEF IInv, LinksAgree, TypeOK, Sent
<1> QED BY <1>2, <1>3, <1>4, <1>5, <1>6 DEF LinksAgree

(* send_token()                                                               *)
LEMMA LinkSent ==
  ASSUME IInv, NEW u \in Users, NEW kind \in {"verify", "reset", "invite"},
         SendToken(u, kind), UNCHANGED retired,
         user'[u] # None, \A v \in Users : user[v] # None => user'[v] # None
  PROVE  /\ link' \in [Links -> LinkRecords \cup {None}]
         /\ token' \subseteq Sent' /\ retired' \subseteq Sent'
         /\ LinksAgree'
<1> USE AccountsAssumption
<1>1. PICK n \in Links :
        /\ n - 1 = Cardinality(Sent)
        /\ link' = [link EXCEPT ![n] = [user |-> u, kind |-> kind, sent |-> clock]]
        /\ token' = (token \ Stored(u, kind)) \cup {n}
  BY Zenon DEF SendToken
<1>2. PICK m \in 0..MaxLinks : Sent = 1..m
  BY DEF IInv, LinksAgree
<1>3. Cardinality(Sent) = m
  <2>1. Cardinality(1..m) = IF 1 > m THEN 0 ELSE m - 1 + 1
    BY FS_Interval
  <2> QED BY <1>2, <2>1
<1>4. n = m + 1 /\ n \notin Sent
  BY <1>1, <1>2, <1>3
<1>5. link' \in [Links -> LinkRecords \cup {None}]
  BY <1>1 DEF IInv, TypeOK
<1>6. \A i \in Links : link'[i] = IF i = n THEN [user |-> u, kind |-> kind, sent |-> clock]
                                           ELSE link[i]
  BY <1>1 DEF IInv, TypeOK
<1>7. Sent' = Sent \cup {n}
  <2>1. [user |-> u, kind |-> kind, sent |-> clock] \in LinkRecords
    BY DEF IInv, TypeOK
  <2>2. [user |-> u, kind |-> kind, sent |-> clock] # None
    BY <2>1, NoneAssumption
  <2> QED BY <1>6, <2>2 DEF Sent
<1>8. Sent' = 1..(m + 1) /\ m + 1 \in 0..MaxLinks
  BY <1>2, <1>4, <1>7
<1>9. token' \subseteq Sent' /\ retired' \subseteq Sent'
  BY <1>1, <1>7 DEF IInv, TypeOK
<1>10. token' \cap retired' = {}
  BY <1>1, <1>4 DEF IInv, TypeOK, LinksAgree
<1>11. ASSUME NEW i \in token' PROVE Newest(i)'
  <2> SUFFICES ASSUME NEW j \in Sent', link'[j].user = link'[i].user,
                      link'[j].kind = link'[i].kind
               PROVE  j <= i
    BY DEF Newest, Of
  <2>1. i \in Links /\ j \in Links
    BY <1>9 DEF Sent
  <2>2. CASE i = n
    BY <2>2, <1>4, <1>8
  <2>3. CASE i # n /\ j = n
    <3>1. i \in token \ Stored(u, kind)
      BY <1>1, <2>3
    <3>2. link[i].user = u /\ link[i].kind = kind
      BY <1>6, <2>1, <2>3
    <3>3. i \in Stored(u, kind)
      BY <3>1, <3>2 DEF Stored, Of, IInv, TypeOK
    <3> QED BY <3>1, <3>3
  <2>4. CASE i # n /\ j # n
    <3>1. i \in token /\ Newest(i)
      BY <1>1, <2>4 DEF IInv, LinksAgree
    <3>2. j \in Sent /\ link[j].user = link[i].user /\ link[j].kind = link[i].kind
      BY <1>6, <1>7, <2>1, <2>4
    <3> QED BY <3>1, <3>2 DEF Newest, Of
  <2> QED BY <2>2, <2>3, <2>4
<1>12. \A i \in Sent' : user'[link'[i].user] # None
  BY <1>6, <1>7 DEF IInv, LinksAgree, TypeOK, Sent
<1> QED BY <1>5, <1>8, <1>9, <1>10, <1>11, <1>12 DEF LinksAgree

-----------------------------------------------------------------------------
LEMMA NewRow ==
  ASSUME NEW role \in Roles, NEW verified \in BOOLEAN, NEW password \in Hashes
  PROVE  New(role, verified, password) \in UserRows /\ New(role, verified, password) # None
<1>1. New(role, verified, password) \in UserRows
  BY DEF New
<1>2. None \notin UserRows
  BY NoneAssumption
<1> QED BY <1>1, <1>2, Zenon

(* register(), request_reset() and create-admin.                              *)
LEMMA RegisterKeeps ==
  ASSUME IInv, NEW u \in Users, Register(u) \/ CreateAdmin(u) \/ RequestReset(u)
  PROVE  IInv'
<1> USE AccountsAssumption
<1>1. CASE Register(u)
  <2>1. link' \in [Links -> LinkRecords \cup {None}] /\ token' \subseteq Sent'
        /\ retired' \subseteq Sent' /\ LinksAgree'
    <3>1. user'[u] = New("member", FALSE, 0) /\ \A v \in Users \ {u} : user'[v] = user[v]
      BY <1>1 DEF Register, IInv, TypeOK
    <3>2. New("member", FALSE, 0) # None
      <4>1. "member" \in Roles /\ FALSE \in BOOLEAN /\ 0 \in Hashes
        OBVIOUS
      <4> QED BY <4>1, NewRow
    <3> QED BY <1>1, <3>1, <3>2, LinkSent DEF Register
  <2>2. user' \in [Users -> UserRows \cup {None}]
    BY <1>1 DEF Register, New, IInv, TypeOK
  <2>3. TypeOK'
    BY <1>1, <2>1, <2>2 DEF Register, IInv, TypeOK
  <2>4. SessionsRest' /\ CallsKnow'
    <3>1. (\A v \in Users : user[v] # None => user'[v] = user[v]) /\ UNCHANGED <<session, call>>
      BY <1>1 DEF Register, IInv, TypeOK
    <3> QED BY <3>1 DEF IInv, TypeOK, SessionsRest, CallsKnow
  <2> QED BY <2>1, <2>3, <2>4 DEF IInv
<1>2. CASE CreateAdmin(u)
  <2>1. user' \in [Users -> UserRows \cup {None}]
    BY <1>2 DEF CreateAdmin, New, IInv, TypeOK
  <2>2. TypeOK'
    BY <1>2, <2>1 DEF CreateAdmin, IInv, TypeOK, Sent
  <2>3. \A v \in Users : user[v] # None => user'[v] = user[v]
    BY <1>2 DEF CreateAdmin, IInv, TypeOK
  <2>4. SessionsRest' /\ CallsKnow'
    <3>1. UNCHANGED <<session, call>>
      BY <1>2 DEF CreateAdmin
    <3> QED BY <2>3, <3>1 DEF IInv, TypeOK, SessionsRest, CallsKnow
  <2>5. LinksAgree'
    BY <1>2, <2>3, LinksStay DEF CreateAdmin
  <2> QED BY <2>2, <2>4, <2>5 DEF IInv
<1>3. CASE RequestReset(u)
  <2>1. link' \in [Links -> LinkRecords \cup {None}] /\ token' \subseteq Sent'
        /\ retired' \subseteq Sent' /\ LinksAgree'
    BY <1>3, LinkSent DEF RequestReset
  <2>2. TypeOK'
    BY <1>3, <2>1 DEF RequestReset, IInv, TypeOK
  <2>3. SessionsRest' /\ CallsKnow'
    BY <1>3 DEF RequestReset, IInv, SessionsRest, CallsKnow
  <2> QED BY <2>1, <2>2, <2>3 DEF IInv
<1> QED BY <1>1, <1>2, <1>3

(* complete() rewrites the row of the account its link was sent to.           *)
LEMMA CompletedRow ==
  ASSUME IInv, NEW n \in Links, Complete(n)
  PROVE  /\ \A v \in Users \ {link[n].user} : user'[v] = user[v]
         /\ \A v \in Users : v = link[n].user =>
              /\ user'[v] # None /\ user'[v].verified
              /\ user'[v].role = user[v].role /\ user'[v].active = user[v].active
         /\ user' \in [Users -> UserRows \cup {None}]
<1> USE AccountsAssumption
<1> DEFINE u == link[n].user
<1>1. n \in token /\ link[n] \in LinkRecords /\ u \in Users
  BY DEF Complete, IInv, TypeOK, Sent
<1>2. user[u] \in UserRows
  BY <1>1 DEF IInv, TypeOK, LinksAgree
<1> DEFINE row == [password |-> IF link[n].kind = "verify" THEN user[u].password ELSE n,
                   role |-> user[u].role, active |-> user[u].active, verified |-> TRUE]
<1>3. user' = [user EXCEPT ![u] = row]
  BY DEF Complete
<1>4. row \in UserRows /\ row # None
  <2>1. (IF link[n].kind = "verify" THEN user[u].password ELSE n) \in Hashes
    BY <1>2
  <2>2. row \in UserRows
    BY <1>2, <2>1
  <2> QED BY <2>2, NoneAssumption
<1>5. \A v \in Users : user'[v] = IF v = u THEN row ELSE user[v]
  BY <1>1, <1>3 DEF IInv, TypeOK
<1>6. user' \in [Users -> UserRows \cup {None}]
  BY <1>1, <1>3, <1>4 DEF IInv, TypeOK
<1> HIDE DEF row
<1>7. row.verified /\ row.role = user[u].role /\ row.active = user[u].active
  BY DEF row
<1> QED BY <1>1, <1>4, <1>5, <1>6, <1>7

(* complete(): every session of the account goes with its old password.       *)
LEMMA CompleteKeeps ==
  ASSUME IInv, NEW n \in Links, Complete(n)
  PROVE  IInv'
<1> USE AccountsAssumption
<1> DEFINE u == link[n].user
<1>1. n \in token /\ link[n] \in LinkRecords /\ u \in Users
  BY DEF Complete, IInv, TypeOK, Sent
<1>2. /\ \A v \in Users \ {u} : user'[v] = user[v]
      /\ user'[u] # None /\ user'[u].verified
      /\ user' \in [Users -> UserRows \cup {None}]
  BY <1>1, CompletedRow
<1>3. TypeOK'
  BY <1>1, <1>2 DEF Complete, SignOut, Spent, Of, IInv, TypeOK, Sent
<1>4. SessionsRest'
  <2> SUFFICES ASSUME NEW k \in Cookies, session'[k] # None
               PROVE  LET v == user'[session'[k].user] IN
                        /\ v # None /\ v.active /\ v.verified
                        /\ v.password = session'[k].password /\ v.role = session'[k].role
    BY DEF SessionsRest
  <2>1. session'[k] = session[k] /\ session[k] # None /\ session[k].user # u
    BY DEF Complete, SignOut
  <2>2. session[k].user \in Users
    BY <2>1 DEF IInv, TypeOK
  <2> QED BY <1>2, <2>1, <2>2 DEF IInv, SessionsRest
<1>5. CallsKnow'
  BY <1>2 DEF Complete, IInv, TypeOK, CallsKnow
<1>6. LinksAgree'
  BY <1>1, <1>2, LinksStay DEF Complete, Spent
<1> QED BY <1>3, <1>4, <1>5, <1>6 DEF IInv

-----------------------------------------------------------------------------
(* login()                                                                    *)
LEMMA LoginKeeps ==
  ASSUME IInv, NEW c \in Calls,
         (\E u \in Users : BeginLogin(c, u)) \/ (\E k \in Cookies : OpenSession(c, k))
  PROVE  IInv'
<1> USE AccountsAssumption, NoneAssumption
<1>1. CASE \E u \in Users : BeginLogin(c, u)
  <2>1. TypeOK'
    BY <1>1 DEF BeginLogin, IInv, TypeOK, Sent
  <2>2. SessionsRest' /\ CallsKnow'
    BY <1>1 DEF BeginLogin, IInv, TypeOK, SessionsRest, CallsKnow
  <2>3. LinksAgree'
    BY <1>1, LinksStay DEF BeginLogin
  <2> QED BY <2>1, <2>2, <2>3 DEF IInv
<1>2. CASE \E k \in Cookies : OpenSession(c, k)
  <2>1. PICK k \in Cookies : OpenSession(c, k)
    BY <1>2
  <2> DEFINE u == call[c].user
             s == [user |-> u, opened |-> clock, seen |-> clock,
                   password |-> call[c].password, role |-> user[u].role]
  <2>2. /\ call[c] # None /\ call[c].op = "login"
        /\ user[u].active /\ user[u].password = call[c].password
        /\ session' = [session EXCEPT ![k] = s] /\ call' = [call EXCEPT ![c] = None]
    BY <2>1 DEF OpenSession, StillValid
  <2>3. call[c] \in [op : {"login"}, user : Users, password : Hashes]
    BY <2>2 DEF IInv, TypeOK
  <2>4. user[u] # None /\ user[u] \in UserRows /\ user[u].verified
    BY <2>2, <2>3 DEF IInv, TypeOK, CallsKnow
  <2>5. s \in SessionRows
    BY <2>3, <2>4 DEF IInv, TypeOK
  <2>6. /\ session' \in [Cookies -> SessionRows \cup {None}]
        /\ call' \in [Calls -> CallRecords \cup {None}]
    BY <2>2, <2>5 DEF IInv, TypeOK
  <2>7. TypeOK'
    BY <2>1, <2>6 DEF OpenSession, IInv, TypeOK, Sent
  <2>8. \A j \in Cookies : session'[j] = IF j = k THEN s ELSE session[j]
    BY <2>2 DEF IInv, TypeOK
  <2>9. SessionsRest'
    <3>1. user' = user
      BY <2>1 DEF OpenSession
    <3>2. s.user = u /\ s.password = call[c].password /\ s.role = user[u].role
      OBVIOUS
    <3> HIDE DEF s
    <3> QED BY <2>2, <2>4, <2>8, <3>1, <3>2 DEF IInv, SessionsRest
  <2>10. CallsKnow'
    BY <2>1, <2>2 DEF OpenSession, IInv, TypeOK, CallsKnow
  <2>11. LinksAgree'
    BY <2>1, LinksStay DEF OpenSession
  <2> QED BY <2>7, <2>9, <2>10, <2>11 DEF IInv
<1> QED BY <1>1, <1>2

(* current_user() moves seen_at and nothing else of a session.                *)
LEMMA SeenKeeps ==
  ASSUME IInv, NEW k \in Cookies, SignedIn(k), Seen(k)
  PROVE  /\ session' \in [Cookies -> SessionRows \cup {None}]
         /\ user' = user => SessionsRest'
         /\ session[k].user \in Users
<1> USE AccountsAssumption, NoneAssumption
<1>1. session[k] # None /\ session[k] \in SessionRows
  BY DEF SignedIn, Alive, IInv, TypeOK
<1> DEFINE s == [user |-> session[k].user, opened |-> session[k].opened, seen |-> clock,
                 password |-> session[k].password, role |-> session[k].role]
<1>2. session' = [session EXCEPT ![k] = s]
  BY DEF Seen
<1>3. s \in SessionRows
  BY <1>1 DEF IInv, TypeOK
<1>4. \A j \in Cookies : session'[j] = IF j = k THEN s ELSE session[j]
  BY <1>2 DEF IInv, TypeOK
<1>5. session' \in [Cookies -> SessionRows \cup {None}]
  BY <1>2, <1>3 DEF IInv, TypeOK
<1>6. user' = user => SessionsRest'
  BY <1>1, <1>4 DEF IInv, SessionsRest
<1> QED BY <1>1, <1>5, <1>6

LEMMA VisitKeeps ==
  ASSUME IInv, NEW k \in Cookies,
         \/ Visit(k)
         \/ \E c \in Calls : BeginLogout(c, k)
                              \/ \E op \in {"invite", "change_role"} : BeginAdmin(c, k, op)
  PROVE  IInv'
<1> USE AccountsAssumption, NoneAssumption
<1>1. SignedIn(k) /\ Seen(k) /\ UNCHANGED <<clock, user, link, token, retired>>
  BY DEF Visit, BeginLogout, BeginAdmin
<1>2. /\ session' \in [Cookies -> SessionRows \cup {None}] /\ SessionsRest'
      /\ session[k].user \in Users
  BY <1>1, SeenKeeps
<1>3. user[session[k].user] # None
  BY <1>1 DEF SignedIn, Alive, IInv, SessionsRest
<1>4. call' \in [Calls -> CallRecords \cup {None}] /\ CallsKnow'
  <2>1. CASE Visit(k)
    BY <2>1 DEF Visit, IInv, TypeOK, CallsKnow
  <2>2. CASE \E c \in Calls : BeginLogout(c, k)
    BY <2>2 DEF BeginLogout, IInv, TypeOK, CallsKnow
  <2>3. CASE \E c \in Calls, op \in {"invite", "change_role"} : BeginAdmin(c, k, op)
    BY <1>2, <1>3, <2>3 DEF BeginAdmin, IInv, TypeOK, CallsKnow
  <2> QED BY <2>1, <2>2, <2>3
<1>5. TypeOK'
  BY <1>1, <1>2, <1>4 DEF IInv, TypeOK, Sent
<1>6. LinksAgree'
  BY <1>1, LinksStay
<1> QED BY <1>2, <1>4, <1>5, <1>6 DEF IInv

(* logout(), refusals, the clean-up and the clock take sessions or calls away.*)
LEMMA EndKeeps ==
  ASSUME IInv, (\E c \in Calls : Refuse(c) \/ Logout(c)) \/ Clean \/ Tick
  PROVE  IInv'
<1> USE AccountsAssumption, NoneAssumption
<1>1. CASE \E c \in Calls : Refuse(c)
  <2>1. TypeOK' /\ SessionsRest' /\ CallsKnow'
    BY <1>1 DEF Refuse, IInv, TypeOK, Sent, SessionsRest, CallsKnow
  <2> QED BY <1>1, <2>1, LinksStay DEF Refuse, IInv
<1>2. CASE \E c \in Calls : Logout(c)
  <2>1. TypeOK' /\ CallsKnow'
    BY <1>2 DEF Logout, IInv, TypeOK, Sent, CallsKnow
  <2>2. SessionsRest'
    BY <1>2 DEF Logout, IInv, TypeOK, SessionsRest
  <2> QED BY <1>2, <2>1, <2>2, LinksStay DEF Logout, IInv
<1>3. CASE Clean
  <2>1. TypeOK' /\ SessionsRest' /\ CallsKnow'
    BY <1>3 DEF Clean, IInv, TypeOK, Sent, SessionsRest, CallsKnow
  <2> QED BY <1>3, <2>1, LinksStay DEF Clean, IInv
<1>4. CASE Tick
  <2>1. TypeOK' /\ SessionsRest' /\ CallsKnow'
    BY <1>4 DEF Tick, IInv, TypeOK, Sent, SessionsRest, CallsKnow
  <2> QED BY <1>4, <2>1, LinksStay DEF Tick, IInv
<1> QED BY <1>1, <1>2, <1>3, <1>4

-----------------------------------------------------------------------------
(* invite()                                                                   *)
LEMMA InviteKeeps ==
  ASSUME IInv, NEW c \in Calls, NEW u \in Users, Invite(c, u)
  PROVE  IInv'
<1> USE AccountsAssumption
<1> DEFINE row == New("member", FALSE, None)
<1>1. row \in UserRows /\ row # None
  <2>1. "member" \in Roles /\ FALSE \in BOOLEAN /\ None \in Hashes
    OBVIOUS
  <2> QED BY <2>1, NewRow
<1> HIDE DEF row
<1>2. \A v \in Users : user[v] # None => user'[v] = user[v]
  BY DEF Invite, IInv, TypeOK
<1>3. user'[u] # None /\ user' \in [Users -> UserRows \cup {None}]
  <2>1. CASE user[u] # None
    BY <2>1 DEF Invite, IInv, TypeOK
  <2>2. CASE user[u] = None
    <3>1. user' = [user EXCEPT ![u] = row]
      BY <2>2 DEF Invite, row
    <3> QED BY <1>1, <3>1 DEF IInv, TypeOK
  <2> QED BY <2>1, <2>2
<1>4. link' \in [Links -> LinkRecords \cup {None}] /\ token' \subseteq Sent'
      /\ retired' \subseteq Sent' /\ LinksAgree'
  <2>1. \A v \in Users : user[v] # None => user'[v] # None
    BY <1>2
  <2>2. SendToken(u, "invite") /\ UNCHANGED retired
    BY DEF Invite
  <2> QED BY <1>3, <2>1, <2>2, LinkSent
<1>5. TypeOK' /\ CallsKnow'
  <2>1. UNCHANGED <<clock, session>> /\ call' = [call EXCEPT ![c] = None]
    BY DEF Invite
  <2>2. TypeOK'
    BY <1>3, <1>4, <2>1 DEF IInv, TypeOK
  <2>3. CallsKnow'
    BY <1>2, <2>1 DEF IInv, TypeOK, CallsKnow
  <2> QED BY <2>2, <2>3
<1>6. SessionsRest'
  <2>1. session' = session
    BY DEF Invite
  <2>2. \A k \in Cookies : session[k] # None => session[k].user \in Users
    BY DEF IInv, TypeOK
  <2> QED BY <1>2, <2>1, <2>2 DEF IInv, SessionsRest
<1> QED BY <1>4, <1>5, <1>6 DEF IInv

(* change_role() rewrites one row, but not whether it is verified.            *)
LEMMA RoleRow ==
  ASSUME IInv, NEW c \in Calls, NEW u \in Users, NEW role \in Roles,
         NEW active \in BOOLEAN, ChangeRole(c, u, role, active)
  PROVE  /\ user[u] \in UserRows /\ user[u] # None
         /\ \A v \in Users \ {u} : user'[v] = user[v]
         /\ user'[u] # None
         /\ user'[u].password = user[u].password /\ user'[u].verified = user[u].verified
         /\ user'[u].role = role /\ user'[u].active = active
         /\ user' \in [Users -> UserRows \cup {None}]
<1>1. user[u] \in UserRows /\ user[u] # None
  BY DEF ChangeRole, IInv, TypeOK
<1> DEFINE row == [password |-> user[u].password, role |-> role,
                   active |-> active, verified |-> user[u].verified]
<1>2. row \in UserRows
  BY <1>1
<1>3. row # None
  <2>1. None \notin UserRows
    BY NoneAssumption
  <2> QED BY <1>2, <2>1, Zenon
<1>4. user' = [user EXCEPT ![u] = row]
  BY DEF ChangeRole
<1>5. /\ row.password = user[u].password /\ row.verified = user[u].verified
      /\ row.role = role /\ row.active = active
  OBVIOUS
<1> HIDE DEF row
<1>6. /\ \A v \in Users \ {u} : user'[v] = user[v]
      /\ user'[u] = row
      /\ user' \in [Users -> UserRows \cup {None}]
  BY <1>2, <1>4 DEF IInv, TypeOK
<1> QED BY <1>1, <1>3, <1>5, <1>6

LEMMA ChangeRoleKeeps ==
  ASSUME IInv, NEW c \in Calls, NEW u \in Users, NEW role \in Roles,
         NEW active \in BOOLEAN, ChangeRole(c, u, role, active)
  PROVE  IInv'
<1> USE AccountsAssumption
<1>1. /\ \A v \in Users \ {u} : user'[v] = user[v]
      /\ user'[u] # None /\ user'[u].verified = user[u].verified
      /\ user' \in [Users -> UserRows \cup {None}]
  BY RoleRow
<1>2. TypeOK'
  BY <1>1 DEF ChangeRole, SignOut, IInv, TypeOK, Sent
<1>3. SessionsRest'
  <2> SUFFICES ASSUME NEW k \in Cookies, session'[k] # None
               PROVE  LET v == user'[session'[k].user] IN
                        /\ v # None /\ v.active /\ v.verified
                        /\ v.password = session'[k].password /\ v.role = session'[k].role
    BY DEF SessionsRest
  <2>1. session'[k] = session[k] /\ session[k] # None /\ session[k].user # u
    BY DEF ChangeRole, SignOut
  <2>2. session[k].user \in Users
    BY <2>1 DEF IInv, TypeOK
  <2> QED BY <1>1, <2>1, <2>2 DEF IInv, SessionsRest
<1>4. CallsKnow'
  <2>1. call' = [call EXCEPT ![c] = None]
    BY DEF ChangeRole
  <2>2. \A v \in Users : user[v] # None => user'[v] # None /\ user'[v].verified = user[v].verified
    BY <1>1
  <2> QED BY <2>1, <2>2 DEF IInv, TypeOK, CallsKnow
<1>5. LinksAgree'
  BY <1>1, LinksStay DEF ChangeRole
<1> QED BY <1>2, <1>3, <1>4, <1>5 DEF IInv

LEMMA NextKeeps == IInv /\ [Next]_vars => IInv'
<1> SUFFICES ASSUME IInv, [Next]_vars PROVE IInv'
  OBVIOUS
<1>1. CASE UNCHANGED vars
  <2>1. TypeOK' /\ SessionsRest' /\ CallsKnow'
    BY <1>1 DEF vars, IInv, TypeOK, Sent, SessionsRest, CallsKnow
  <2> QED BY <1>1, <2>1, LinksStay DEF vars, IInv
<1>2. CASE Next
  BY <1>2, RegisterKeeps, CompleteKeeps, LoginKeeps, VisitKeeps, EndKeeps, InviteKeeps,
     ChangeRoleKeeps DEF Next
<1> QED BY <1>1, <1>2

(* The invariant the three theorems below rest on: what sessions and running  *)
(* handlers rely on stays true, and the links stay in order.                  *)
THEOREM AccountsInvariant == Spec => []IInv
BY InitEstablishes, NextKeeps, PTL DEF Spec

(* A session rests on what its account is now, however logins, resets and     *)
(* changes of role overlap: with its password, its role, and in use (auth.py  *)
(* login, complete, change_role).                                             *)
THEOREM HonestSessions == Spec => []SessionsHonest
<1>1. IInv => SessionsHonest
  BY DEF IInv, SessionsHonest, SessionsRest
<1> QED BY <1>1, AccountsInvariant, PTL

-----------------------------------------------------------------------------
(* change_role() leaves an administrator.                                     *)
LEMMA OneLeft ==
  ASSUME IInv, NEW c \in Calls, NEW u \in Users, NEW role \in Roles,
         NEW active \in BOOLEAN, ChangeRole(c, u, role, active), Admins # {}
  PROVE  Admins' # {}
<1> USE AccountsAssumption
<1>1. /\ \A v \in Users \ {u} : user'[v] = user[v]
      /\ user'[u] # None /\ user'[u].verified = user[u].verified
      /\ user'[u].role = role /\ user'[u].active = active
  BY RoleRow
<1>2. Admins \ {u} \subseteq Admins'
  BY <1>1 DEF Admins
<1>3. CASE u \notin Admins
  BY <1>2, <1>3
<1>4. CASE u \in Admins /\ role = "admin" /\ active
  BY <1>1, <1>4 DEF Admins
<1>5. CASE u \in Admins /\ ~(role = "admin" /\ active)
  <2>1. ~(Cardinality(Admins) <= 1)
    BY <1>5 DEF ChangeRole, LastAdmin
  <2>2. IsFiniteSet(Admins) /\ Cardinality(Admins) \in Nat
    <3>1. Admins \in SUBSET Users
      BY DEF Admins
    <3> QED BY <3>1, FS_Subset, FS_CardinalityType
  <2>3. IsFiniteSet(Admins \ {u}) /\ Cardinality(Admins \ {u}) = Cardinality(Admins) - 1
    BY <1>5, <2>2, FS_RemoveElement
  <2>4. Admins \ {u} # {}
    BY <2>1, <2>2, <2>3, FS_EmptySet
  <2> QED BY <1>2, <2>4
<1> QED BY <1>3, <1>4, <1>5

(* An administrator who can sign in remains, whatever administrators do to    *)
(* each other at the same time (auth.py change_role).                         *)
THEOREM AnAdminRemains == Spec => AdminRemains
<1>1. ASSUME IInv, [Next]_vars, Admins # {}
      PROVE  Admins' # {}
  <2>1. CASE \E c \in Calls, u \in Users, r \in Roles, a \in BOOLEAN : ChangeRole(c, u, r, a)
    BY <1>1, <2>1, OneLeft
  <2>2. CASE user' = user
    BY <1>1, <2>2 DEF Admins
  <2>3. CASE \E u \in Users : Register(u) \/ CreateAdmin(u) \/ \E c \in Calls : Invite(c, u)
    <3>1. \A v \in Users : user[v] # None => user'[v] = user[v]
      BY <1>1, <2>3 DEF Register, CreateAdmin, Invite, IInv, TypeOK
    <3> QED BY <1>1, <3>1 DEF Admins
  <2>4. CASE \E n \in Links : Complete(n)
    <3>1. \A v \in Users : user[v] # None =>
            /\ user'[v] # None
            /\ user[v].verified => user'[v].verified
            /\ user'[v].role = user[v].role /\ user'[v].active = user[v].active
      BY <1>1, <2>4, CompletedRow
    <3> QED BY <1>1, <3>1 DEF Admins
  <2> QED BY <1>1, <2>1, <2>2, <2>3, <2>4 DEF Next, vars, RequestReset, Visit, Refuse, Logout,
            BeginLogin, OpenSession, BeginLogout, BeginAdmin, Clean, Tick
<1>2. IInv /\ [Next]_vars => [Admins # {} => Admins' # {}]_vars
  BY <1>1
<1> QED BY <1>2, AccountsInvariant, PTL DEF Spec, AdminRemains

(* Passwords and verified addresses change only through a live link, the      *)
(* newest of its kind and younger than any that was completed (auth.py        *)
(* complete, send_token).                                                     *)
THEOREM LiveLinks == Spec => ByLiveLink
<1> DEFINE Changed(u) == user[u] # None /\ (user'[u].password # user[u].password
                                            \/ user'[u].verified # user[u].verified)
           ByLink(u) == \E n \in Of(u) \ retired : Newest(n) /\ clock < link[n].sent + LinkLife
<1>1. ASSUME IInv, [Next]_vars, NEW u \in Users, Changed(u)
      PROVE  ByLink(u)
  <2>1. CASE \E c \in Calls, v \in Users, r \in Roles, a \in BOOLEAN : ChangeRole(c, v, r, a)
    <3>1. PICK c \in Calls, v \in Users, r \in Roles, a \in BOOLEAN : ChangeRole(c, v, r, a)
      BY <2>1
    <3>2. user'[u].password = user[u].password /\ user'[u].verified = user[u].verified
      BY <1>1, <3>1, RoleRow
    <3> QED BY <1>1, <3>2
  <2>2. CASE user' = user
    BY <1>1, <2>2
  <2>3. CASE \E v \in Users : Register(v) \/ CreateAdmin(v) \/ \E c \in Calls : Invite(c, v)
    <3>1. user'[u] = user[u]
      BY <1>1, <2>3 DEF Register, CreateAdmin, Invite, IInv, TypeOK
    <3> QED BY <1>1, <3>1
  <2>4. CASE \E n \in Links : Complete(n)
    <3>1. PICK n \in Links : Complete(n)
      BY <2>4
    <3>2. n \in token /\ n \in Sent /\ n \notin retired /\ Newest(n)
      BY <1>1, <3>1 DEF Complete, IInv, TypeOK, LinksAgree
    <3>3. clock < link[n].sent + LinkLife
      BY <3>1 DEF Complete
    <3>4. link[n].user = u
      BY <1>1, <3>1, <3>2, CompletedRow
    <3> QED BY <3>2, <3>3, <3>4 DEF Of
  <2> QED BY <1>1, <2>1, <2>2, <2>3, <2>4 DEF Next, vars, RequestReset, Visit, Refuse, Logout,
            BeginLogin, OpenSession, BeginLogout, BeginAdmin, Clean, Tick
<1>2. IInv /\ [Next]_vars => [\A u \in Users : Changed(u) => ByLink(u)]_vars
  BY <1>1
<1> QED BY <1>2, AccountsInvariant, PTL DEF Spec, ByLiveLink
=============================================================================
