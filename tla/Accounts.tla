------------------------------ MODULE Accounts ------------------------------
(***************************************************************************)
(* Accounts, sessions and the gate in front of every protected handler:    *)
(* internal/auth, internal/store and auth_handlers.go / security.go of     *)
(* internal/httpserver.  Each request runs on its own goroutine; the store *)
(* has one connection, so one SQL statement is one step and requests       *)
(* interleave between any two.  The gateway may be killed at any step; the *)
(* tables survive, the requests do not.                                    *)
(*                                                                         *)
(* A session id is 32 random bytes: it is named by the request whose login *)
(* made it.  CSRF checks and the wording of pages are left out.            *)
(***************************************************************************)
EXTENDS Integers, FiniteSets

CONSTANTS
    Request,    \* HTTP requests
    Name,       \* valid user names
    Password,   \* valid passwords; a hash stands for its password
    TTL,        \* sessionTTL in ticks
    StoreFails, \* TRUE: a statement of the store may fail
    None        \* no user, no session

ASSUME TTLAssumption == TTL \in Nat \ {0}
ASSUME StoreFailsAssumption == StoreFails \in BOOLEAN
ASSUME NoneAssumption == None \notin Request \cup Name \cup Password

VARIABLES
    users,      \* users[n]: the password of account n, or None
    session,    \* session[s]: the row of session s and the ticks it has left
    cookies,    \* session ids a browser was given
    req,        \* req[q]: progress of request q
    audit,      \* rows of the audit table: <<action, user, session>>
    over,       \* history: sessions whose row a logout has deleted
    late,       \* history: requests begun after what they ask for was settled
    admitted    \* history: requests requireAuth let through

tables == <<users, session>>
vars == <<tables, cookies, req, audit, over, late, admitted>>

PC == {"idle", "check", "create", "created", "lookup", "grant", "refuse",
       "welcome", "gate", "validate", "purge", "run", "bye", "done", "dead"}
Kind == {"setup", "login", "action", "logout"}
Progress == [pc : PC, kind : Kind \cup {None}, name : Name \cup {None},
             password : Password \cup {None}, sid : Request \cup {None},
             user : Name \cup {None}]
NoSession == [user |-> None, left |-> 0]

TypeOK ==
    /\ users \in [Name -> Password \cup {None}]
    /\ session \in [Request -> [user : Name \cup {None}, left : 0..TTL]]
    /\ cookies \subseteq Request
    /\ req \in [Request -> Progress]
    /\ audit \subseteq {"setup", "login", "login_failed", "action", "logout"}
                       \X Name \X (Request \cup {None})
    /\ over \subseteq Request
    /\ late \subseteq Request
    /\ admitted \subseteq Request

Init ==
    /\ users = [n \in Name |-> None]
    /\ session = [s \in Request |-> NoSession]
    /\ cookies = {}
    /\ req = [q \in Request |-> [pc |-> "idle", kind |-> None, name |-> None,
                                 password |-> None, sid |-> None, user |-> None]]
    /\ audit = {}
    /\ over = {}
    /\ late = {}
    /\ admitted = {}

At(q, pc) == req[q].pc = pc
Goto(q, pc) == req' = [req EXCEPT ![q].pc = pc]

(* UserCount is 0: first-boot setup is open. *)
NeedsSetup == \A n \in Name : users[n] = None

Valid(s) == session[s].user # None /\ session[s].left > 0
Expired(s) == session[s].user # None /\ session[s].left = 0

(* store.AddAudit: every handler ignores its error. *)
AddAudit(action, user, s) ==
    \/ audit' = audit \cup {<<action, user, s>>}
    \/ StoreFails /\ UNCHANGED audit

DeleteSession(s) == session' = [session EXCEPT ![s] = NoSession]

----------------------------------------------------------------------------
(* Wrong variants of actions below: each is a bug a property must catch.   *)

(* CreateAdmin without asking NeedsSetup: the page was only shown once. *)
CheckSetupOnPage(q) ==
    /\ At(q, "check")
    /\ Goto(q, "create") \/ Goto(q, "done")
    /\ UNCHANGED <<tables, cookies, audit, over, late, admitted>>

(* An INSERT OR REPLACE. *)
CreateUserOrReplace(q) ==
    /\ At(q, "create")
    /\ users' = [users EXCEPT ![req[q].name] = req[q].password]
    /\ Goto(q, "created")
    /\ UNCHANGED <<session, cookies, audit, over, late, admitted>>

(* A login that looks at found and forgets ok. *)
LookupFound(q) ==
    /\ At(q, "lookup")
    /\ Goto(q, IF users[req[q].name] # None THEN "grant" ELSE "refuse")
    /\ UNCHANGED <<tables, cookies, audit, over, late, admitted>>

(* A logout that only clears the cookie of the browser that asked. *)
LogoutCookie(q) ==
    /\ At(q, "run") /\ req[q].kind = "logout"
    /\ over' = over \cup {req[q].sid}
    /\ Goto(q, "bye")
    /\ UNCHANGED <<tables, cookies, audit, late, admitted>>

(* auth.Validate that looks at err and forgets ok: a cookie whose session  *)
(* row is gone comes with the empty user.                                  *)
ValidateAnyone(q) ==
    LET s == req[q].sid IN
    /\ At(q, "validate")
    /\ \/ /\ s # None
          /\ req' = [req EXCEPT ![q].pc = "run", ![q].user = session[s].user]
          /\ admitted' = admitted \cup {q}
       \/ /\ s = None \/ StoreFails
          /\ Goto(q, "done")
          /\ UNCHANGED admitted
    /\ UNCHANGED <<tables, cookies, audit, over, late>>

----------------------------------------------------------------------------
(* POST /setup: CreateAdmin, then the new administrator is logged in. *)

Setup(q, n, p) ==
    /\ At(q, "idle")
    /\ req' = [req EXCEPT ![q] = [@ EXCEPT !.pc = "check", !.kind = "setup",
                                           !.name = n, !.password = p]]
    /\ late' = IF NeedsSetup THEN late ELSE late \cup {q}
    /\ UNCHANGED <<tables, cookies, audit, over, admitted>>

(* CreateAdmin asks whether an account exists; validation may still fail. *)
CheckSetup(q) ==
    /\ At(q, "check")
    /\ (NeedsSetup /\ Goto(q, "create")) \/ Goto(q, "done")
    /\ UNCHANGED <<tables, cookies, audit, over, late, admitted>>

(* After hashing the password, the INSERT: the user name is UNIQUE, and    *)
(* nothing asks again whether another account exists by now.               *)
CreateUser(q) ==
    /\ At(q, "create")
    /\ \/ /\ users[req[q].name] = None
          /\ users' = [users EXCEPT ![req[q].name] = req[q].password]
          /\ Goto(q, "created")
       \/ /\ users[req[q].name] # None \/ StoreFails
          /\ UNCHANGED users
          /\ Goto(q, "done")
    /\ UNCHANGED <<session, cookies, audit, over, late, admitted>>

RecordSetup(q) ==
    /\ At(q, "created")
    /\ AddAudit("setup", req[q].name, None)
    /\ Goto(q, "lookup")
    /\ UNCHANGED <<tables, cookies, over, late, admitted>>

----------------------------------------------------------------------------
(* POST /login and startSession. *)

Login(q, n, p) ==
    /\ At(q, "idle")
    /\ req' = [req EXCEPT ![q] = [@ EXCEPT !.pc = "lookup", !.kind = "login",
                                           !.name = n, !.password = p]]
    /\ UNCHANGED <<tables, cookies, audit, over, late, admitted>>

(* UserByUsername and verifyPassword on the row it returned. *)
Lookup(q) ==
    /\ At(q, "lookup")
    /\ \/ users[req[q].name] = req[q].password /\ Goto(q, "grant")
       \/ (users[req[q].name] # req[q].password \/ StoreFails) /\ Goto(q, "refuse")
    /\ UNCHANGED <<tables, cookies, audit, over, late, admitted>>

(* CreateSession. *)
Grant(q) ==
    /\ At(q, "grant")
    /\ \/ /\ session' = [session EXCEPT ![q] = [user |-> req[q].name, left |-> TTL]]
          /\ Goto(q, "welcome")
       \/ StoreFails /\ UNCHANGED session /\ Goto(q, "refuse")
    /\ UNCHANGED <<users, cookies, audit, over, late, admitted>>

Refuse(q) ==
    /\ At(q, "refuse")
    /\ AddAudit("login_failed", req[q].name, None)
    /\ Goto(q, "done")
    /\ UNCHANGED <<tables, cookies, over, late, admitted>>

(* The audit row, then the cookie reaches the browser. *)
Welcome(q) ==
    /\ At(q, "welcome")
    /\ cookies' = cookies \cup {q}
    /\ AddAudit("login", req[q].name, q)
    /\ Goto(q, "done")
    /\ UNCHANGED <<tables, over, late, admitted>>

----------------------------------------------------------------------------
(* requireAuth, in front of the protected handlers. *)

(* A browser sends a request of kind k with a cookie it was given before,  *)
(* from any of its tabs, or with none.                                     *)
Present(q, k, s) ==
    /\ At(q, "idle")
    /\ s \in cookies \cup {None}
    /\ req' = [req EXCEPT ![q] = [@ EXCEPT !.pc = "gate", !.kind = k, !.sid = s]]
    /\ late' = IF s \in over \/ (s # None /\ ~Valid(s)) THEN late \cup {q} ELSE late
    /\ UNCHANGED <<tables, cookies, audit, over, admitted>>

(* NeedsSetup sends the browser to /setup; an error counts as "no". *)
Gate(q) ==
    /\ At(q, "gate")
    /\ \/ NeedsSetup /\ Goto(q, "done")
       \/ (~NeedsSetup \/ StoreFails) /\ Goto(q, "validate")
    /\ UNCHANGED <<tables, cookies, audit, over, late, admitted>>

(* SessionUser's SELECT: the handler runs with the user the row names. *)
Validate(q) ==
    LET s == req[q].sid IN
    /\ At(q, "validate")
    /\ \/ /\ s # None /\ Valid(s)
          /\ req' = [req EXCEPT ![q].pc = "run", ![q].user = session[s].user]
          /\ admitted' = admitted \cup {q}
       \/ s # None /\ Expired(s) /\ Goto(q, "purge") /\ UNCHANGED admitted
       \/ /\ (s # None => session[s].user = None) \/ StoreFails
          /\ Goto(q, "done")
          /\ UNCHANGED admitted
    /\ UNCHANGED <<tables, cookies, audit, over, late>>

(* SessionUser deletes the expired row, in a statement of its own. *)
Purge(q) ==
    /\ At(q, "purge")
    /\ DeleteSession(req[q].sid) \/ (StoreFails /\ UNCHANGED session)
    /\ Goto(q, "done")
    /\ UNCHANGED <<users, cookies, audit, over, late, admitted>>

(* A protected handler changes something and audits it under userFrom. *)
Act(q) ==
    /\ At(q, "run") /\ req[q].kind = "action"
    /\ AddAudit("action", req[q].user, req[q].sid)
    /\ Goto(q, "done")
    /\ UNCHANGED <<tables, cookies, over, late, admitted>>

(* handleLogout: the session is over once DeleteSession has returned; its  *)
(* error is ignored.                                                       *)
Logout(q) ==
    /\ At(q, "run") /\ req[q].kind = "logout"
    /\ \/ DeleteSession(req[q].sid) /\ over' = over \cup {req[q].sid}
       \/ StoreFails /\ UNCHANGED <<session, over>>
    /\ Goto(q, "bye")
    /\ UNCHANGED <<users, cookies, audit, late, admitted>>

(* The audit row "session ended", then the answer. *)
Bye(q) ==
    /\ At(q, "bye")
    /\ AddAudit("logout", req[q].user, req[q].sid)
    /\ Goto(q, "done")
    /\ UNCHANGED <<tables, cookies, over, late, admitted>>

----------------------------------------------------------------------------
(* Time passes for the sessions. *)
Tick ==
    /\ \E s \in Request : Valid(s)
    /\ session' = [s \in Request |->
           IF session[s].left > 0 THEN [session[s] EXCEPT !.left = @ - 1] ELSE session[s]]
    /\ UNCHANGED <<users, cookies, req, audit, over, late, admitted>>

(* The gateway is killed and started again. *)
Crash ==
    /\ req' = [q \in Request |->
           IF req[q].pc \in {"idle", "done"} THEN req[q] ELSE [req[q] EXCEPT !.pc = "dead"]]
    /\ UNCHANGED <<tables, cookies, audit, over, late, admitted>>

Handle(q) ==
    \/ CheckSetup(q) \/ CreateUser(q) \/ RecordSetup(q)
    \/ Lookup(q) \/ Grant(q) \/ Refuse(q) \/ Welcome(q)
    \/ Gate(q) \/ Validate(q) \/ Purge(q) \/ Act(q) \/ Logout(q) \/ Bye(q)

Next ==
    \/ \E q \in Request, n \in Name, p \in Password : Setup(q, n, p) \/ Login(q, n, p)
    \/ \E q \in Request, k \in {"action", "logout"}, s \in Request \cup {None} :
           Present(q, k, s)
    \/ \E q \in Request : Handle(q)
    \/ Tick
    \/ Crash

Spec == Init /\ [][Next]_vars

----------------------------------------------------------------------------
(* Whoever has a session knew the password of the account it is for, even  *)
(* when set-ups race for one name with different passwords.                *)
SessionIsEarned ==
    \A s \in Request : session[s].user # None =>
        /\ req[s].name = session[s].user
        /\ req[s].password = users[session[s].user]

(* Set-up closes: a set-up request that arrives when an account exists     *)
(* gets no account, however it races with the requests still under way.    *)
SetupCloses ==
    \A q \in late : req[q].kind = "setup" => req[q].pc \in {"check", "done", "dead"}

(* A session that was logged out or has expired stays so: no request begun *)
(* with it afterwards ever reaches a handler.                              *)
EndedStaysEnded == \A q \in late : req[q].kind # "setup" => q \notin admitted

(* A row of the audit table names the account whose password was given for *)
(* the session that did it, also when that session has ended meanwhile.    *)
AuditNamesHolder ==
    \A row \in audit : row[3] # None =>
        /\ req[row[3]].name = row[2]
        /\ req[row[3]].password = users[row[2]]

(* CreateAdmin: "Creates the first administrator account. Fails if one     *)
(* exists."                                                                *)
OneAdmin == Cardinality({n \in Name : users[n] # None}) <= 1
=============================================================================
