------------------------------- MODULE Accounts -------------------------------
(* Accounts, sessions and one-time links of the Accounts kit (auth.py,        *)
(* security.py, manage.py).  A handler is one or two transactions: the second *)
(* takes the advisory lock, so it is one step, and what the first one read    *)
(* (current_user, the password's hash) is carried across in `call` while      *)
(* other handlers run.  A password hash is named by what made it: 0 for the   *)
(* one an account is created with, n for the one set through link n.          *)
EXTENDS Naturals, FiniteSets

CONSTANTS
  Users,        \* email addresses
  Cookies,      \* session tokens
  Calls,        \* requests that run at the same time
  LinkLife,     \* 1800 s
  SessionLife,  \* 43200 s
  IdleLife,     \* 1800 s
  MaxLinks,     \* bound on the links that are sent
  MaxTime,      \* bound on the clock
  None          \* no account, no session, no hash that a password matches

ASSUME AccountsAssumption ==
  /\ IsFiniteSet(Users)
  /\ {LinkLife, SessionLife, IdleLife, MaxLinks, MaxTime} \subseteq Nat
  /\ None \notin Nat /\ None \notin Users \cup Cookies

VARIABLES
  clock,      \* now()
  user,       \* app_users
  link,       \* links sent so far, in order
  token,      \* app_tokens: the links whose hash is still stored
  retired,    \* links sent to a user before the last one of theirs was completed
  session,    \* app_sessions, and what the login that opened each was based on
  call        \* what each running handler has read in its first transaction

vars == <<clock, user, link, token, retired, session, call>>

-----------------------------------------------------------------------------
Times  == 0..MaxTime
Links  == 1..MaxLinks
Roles  == {"admin", "member", "viewer"}
Hashes == 0..MaxLinks \cup {None}

UserRows    == [password : Hashes, role : Roles, active : BOOLEAN, verified : BOOLEAN]
LinkRecords == [user : Users, kind : {"verify", "reset", "invite"}, sent : Times]
SessionRows == [user : Users, opened : Times, seen : Times, password : Hashes, role : Roles]
CallRecords == [op : {"login"}, user : Users, password : Hashes]
               \cup [op : {"invite", "change_role"}, user : Users]
               \cup [op : {"logout"}, session : Cookies]

ASSUME NoneAssumption ==
  None \notin UserRows \cup LinkRecords \cup SessionRows \cup CallRecords

Sent    == {n \in Links : link[n] # None}
Exists(u) == user[u] # None
Admins  == {u \in Users : Exists(u) /\ user[u].role = "admin"
                                    /\ user[u].active /\ user[u].verified}

TypeOK ==
  /\ clock \in Times
  /\ user \in [Users -> UserRows \cup {None}]
  /\ link \in [Links -> LinkRecords \cup {None}]
  /\ token \subseteq Sent /\ retired \subseteq Sent
  /\ session \in [Cookies -> SessionRows \cup {None}]
  /\ call \in [Calls -> CallRecords \cup {None}]

Init ==
  /\ clock = 0
  /\ user = [u \in Users |-> None]
  /\ link = [n \in Links |-> None]
  /\ token = {} /\ retired = {}
  /\ session = [k \in Cookies |-> None]
  /\ call = [c \in Calls |-> None]

-----------------------------------------------------------------------------
(* Helpers.  Each one named *Fault is no part of the specification: it is     *)
(* what a slip in the code would make of its namesake.                        *)
Of(u) == {n \in Sent : link[n].user = u}

(* send_token(): a new link of its kind takes the place of the older ones.    *)
Stored(u, kind) == {n \in token \cap Of(u) : link[n].kind = kind}
SendToken(u, kind) ==
  \E n \in Links :
    /\ n - 1 = Cardinality(Sent)
    /\ link' = [link EXCEPT ![n] = [user |-> u, kind |-> kind, sent |-> clock]]
    /\ token' = (token \ Stored(u, kind)) \cup {n}

(* DELETE FROM app_sessions WHERE user_id                                     *)
SignOut(u) ==
  session' = [k \in Cookies |->
                IF session[k] # None /\ session[k].user = u THEN None ELSE session[k]]

(* current_user(): the session has not expired, is not idle, and its account  *)
(* may be used.                                                               *)
Alive(s) == s # None /\ clock < s.opened + SessionLife /\ clock <= s.seen + IdleLife
SignedIn(k) == Alive(session[k]) /\ user[session[k].user].active
                                 /\ user[session[k].user].verified

New(role, verified, password) ==
  [password |-> password, role |-> role, active |-> TRUE, verified |-> verified]

Idle(c)   == call[c] = None
Answer(c) == call' = [call EXCEPT ![c] = None]

-----------------------------------------------------------------------------
(* register(): an address that is known already is answered alike.            *)
Register(u) ==
  /\ ~Exists(u)
  /\ user' = [user EXCEPT ![u] = New("member", FALSE, 0)]
  /\ SendToken(u, "verify")
  /\ UNCHANGED <<clock, retired, session, call>>

(* manage.py create-admin, in the container.                                  *)
CreateAdmin(u) ==
  /\ ~Exists(u)
  /\ user' = [user EXCEPT ![u] = New("admin", TRUE, 0)]
  /\ UNCHANGED <<clock, link, token, retired, session, call>>

RequestReset(u) ==
  /\ Exists(u) /\ user[u].active
  /\ SendToken(u, "reset")
  /\ UNCHANGED <<clock, user, retired, session, call>>

(* complete(): one transaction under the lock.  A link that verifies leaves   *)
(* the password alone.                                                        *)
SpentFault(n) == Stored(link[n].user, link[n].kind)
Spent(n) == Of(link[n].user)
Complete(n) ==
  /\ n \in token
  /\ clock < link[n].sent + LinkLife
  /\ LET u == link[n].user IN
       /\ user' = [user EXCEPT ![u] = [password |-> IF link[n].kind = "verify" THEN @.password
                                                                              ELSE n,
                                       role |-> @.role, active |-> @.active,
                                       verified |-> TRUE]]
       /\ SignOut(u)
       /\ retired' = retired \cup Of(u)
  /\ token' = token \ Spent(n)
  /\ UNCHANGED <<clock, link, call>>

-----------------------------------------------------------------------------
(* login(): the account is read and the password verified against its hash    *)
(* outside any transaction ...                                                *)
BeginLogin(c, u) ==
  /\ Idle(c)
  /\ Exists(u) /\ user[u].password # None /\ user[u].active /\ user[u].verified
  /\ call' = [call EXCEPT ![c] = [op |-> "login", user |-> u,
                                  password |-> user[u].password]]
  /\ UNCHANGED <<clock, user, link, token, retired, session>>

(* ... and the session is inserted under the lock if neither has changed.     *)
StillValidFault(l) == user[l.user].active
StillValid(l) == user[l.user].active /\ user[l.user].password = l.password
LoggingOut == {c \in Calls : call[c] # None /\ call[c].op = "logout"}
Fresh(k) == session[k] = None /\ \A c \in LoggingOut : call[c].session # k
OpenSession(c, k) ==
  /\ ~Idle(c) /\ call[c].op = "login"
  /\ StillValid(call[c])
  /\ Fresh(k)
  /\ session' = [session EXCEPT ![k] =
                   [user |-> call[c].user, opened |-> clock, seen |-> clock,
                    password |-> call[c].password, role |-> user[call[c].user].role]]
  /\ Answer(c)
  /\ UNCHANGED <<clock, user, link, token, retired>>

(* A handler refuses (401, 403, 404, 409), or its transaction rolls back.     *)
Refuse(c) ==
  /\ ~Idle(c)
  /\ Answer(c)
  /\ UNCHANGED <<clock, user, link, token, retired, session>>

(* current_user() of a handler that changes nothing else ...                  *)
Seen(k) == session' = [session EXCEPT ![k] =
             [user |-> @.user, opened |-> @.opened, seen |-> clock,
              password |-> @.password, role |-> @.role]]
Visit(k) ==
  /\ SignedIn(k)
  /\ Seen(k)
  /\ UNCHANGED <<clock, user, link, token, retired, call>>

(* ... and of one that goes on in a transaction of its own.                   *)
BeginAdmin(c, k, op) ==
  /\ Idle(c)
  /\ SignedIn(k) /\ user[session[k].user].role = "admin"
  /\ Seen(k)
  /\ call' = [call EXCEPT ![c] = [op |-> op, user |-> session[k].user]]
  /\ UNCHANGED <<clock, user, link, token, retired>>

BeginLogout(c, k) ==
  /\ Idle(c)
  /\ SignedIn(k)
  /\ Seen(k)
  /\ call' = [call EXCEPT ![c] = [op |-> "logout", session |-> k]]
  /\ UNCHANGED <<clock, user, link, token, retired>>

Logout(c) ==
  /\ ~Idle(c) /\ call[c].op = "logout"
  /\ session' = [session EXCEPT ![call[c].session] = None]
  /\ Answer(c)
  /\ UNCHANGED <<clock, user, link, token, retired>>

(* invite(): the role that current_user() saw is not looked at again.         *)
Invite(c, u) ==
  /\ ~Idle(c) /\ call[c].op = "invite"
  /\ Exists(u) => ~user[u].verified
  /\ user' = IF Exists(u) THEN user
                          ELSE [user EXCEPT ![u] = New("member", FALSE, None)]
  /\ SendToken(u, "invite")
  /\ Answer(c)
  /\ UNCHANGED <<clock, retired, session>>

(* change_role(): actor, target and count are read under the lock.            *)
LastAdminFault(u, role, active) ==             \* counts the unverified ones too
  /\ u \in Admins /\ (role # "admin" \/ ~active)
  /\ Cardinality({v \in Users : Exists(v) /\ user[v].role = "admin" /\ user[v].active}) <= 1
LastAdmin(u, role, active) ==
  u \in Admins /\ Cardinality(Admins) <= 1 /\ (role # "admin" \/ ~active)
ChangeRole(c, u, role, active) ==
  /\ ~Idle(c) /\ call[c].op = "change_role"
  /\ user[call[c].user].active /\ user[call[c].user].role = "admin"
  /\ Exists(u) /\ ~LastAdmin(u, role, active)
  /\ user' = [user EXCEPT ![u] = [password |-> @.password, role |-> role,
                                  active |-> active, verified |-> @.verified]]
  /\ SignOut(u)
  /\ Answer(c)
  /\ UNCHANGED <<clock, link, token, retired>>

(* The delivery worker's tick(): DELETE ... WHERE expires_at < now().         *)
Clean ==
  /\ token' = {n \in token : clock <= link[n].sent + LinkLife}
  /\ session' = [k \in Cookies |->
       IF session[k] # None /\ clock <= session[k].opened + SessionLife
                            /\ clock <= session[k].seen + IdleLife
       THEN session[k] ELSE None]
  /\ <<token', session'>> # <<token, session>>
  /\ UNCHANGED <<clock, user, link, retired, call>>

Tick ==
  /\ clock < MaxTime
  /\ clock' = clock + 1
  /\ UNCHANGED <<user, link, token, retired, session, call>>

-----------------------------------------------------------------------------
Next ==
  \/ \E u \in Users : Register(u) \/ CreateAdmin(u) \/ RequestReset(u)
  \/ \E n \in Links : Complete(n)
  \/ \E k \in Cookies : Visit(k)
  \/ \E c \in Calls :
       \/ Refuse(c) \/ Logout(c)
       \/ \E u \in Users : BeginLogin(c, u) \/ Invite(c, u)
       \/ \E k \in Cookies : OpenSession(c, k) \/ BeginLogout(c, k)
       \/ \E k \in Cookies, op \in {"invite", "change_role"} : BeginAdmin(c, k, op)
       \/ \E u \in Users, r \in Roles, a \in BOOLEAN : ChangeRole(c, u, r, a)
  \/ Clean \/ Tick

Spec == Init /\ [][Next]_vars

-----------------------------------------------------------------------------
(* Every session rests on what its account is now: the password it was opened *)
(* with, the role its login was answered with, an account in use.  A login    *)
(* that began before a reset or a deactivation opens no session; one that     *)
(* began before a change of role opens it with the new role (auth.py "Recheck *)
(* state in the same lock used for password resets and role changes").        *)
SessionsHonest ==
  /\ TypeOK
  /\ \A k \in Cookies : session[k] # None =>
       LET u == user[session[k].user] IN
         /\ u # None /\ u.active /\ u.verified
         /\ u.password = session[k].password /\ u.role = session[k].role

(* Once there is an administrator who can sign in there always is one, even   *)
(* when administrators demote each other at the same time (auth.py "Keep at   *)
(* least one active, verified administrator").                                *)
AdminRemains == [][Admins # {} => Admins' # {}]_vars

(* A password is set, or an address verified, by a link that is not expired,  *)
(* is the newest of its kind that its user was sent, and was sent after any   *)
(* other link of theirs was completed ("This link expired or was already      *)
(* used"), whatever was requested or completed meanwhile.                     *)
Newest(n) == \A m \in Of(link[n].user) : link[m].kind = link[n].kind => m <= n
ByLiveLink ==
  [][\A u \in Users :
       Exists(u) /\ (user'[u].password # user[u].password
                     \/ user'[u].verified # user[u].verified) =>
         \E n \in Of(u) \ retired : Newest(n) /\ clock < link[n].sent + LinkLife]_vars
=============================================================================
