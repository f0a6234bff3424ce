------------------------- MODULE AccountsInductive -------------------------
(* The inductive invariants behind the theorems of AccountsProofs. *)
EXTENDS Accounts

(* Requests that carry a name and a password. *)
Naming == {"check", "create", "created", "lookup", "grant", "refuse", "welcome"}
(* Requests that carry a cookie. *)
Carrying == {"gate", "validate", "purge", "run", "bye"}
Over == {"done", "dead"}

(* A request that has not begun has left no trace. *)
IdleIsFresh == \A q \in Request : At(q, "idle") => q \notin late \cup admitted

NamingTyped ==
    \A q \in Request : req[q].pc \in Naming =>
        /\ req[q].kind \in {"setup", "login"}
        /\ req[q].name \in Name
        /\ req[q].password \in Password

(* The password of request s is the one of the account it names. *)
Earned(s) ==
    /\ req[s].name \in Name /\ req[s].password \in Password
    /\ users[req[s].name] = req[s].password

GrantIsEarned == \A q \in Request : req[q].pc \in {"grant", "welcome"} => Earned(q)

(* A session was made by a login that is about to hand it out, or is over. *)
RowIsMade ==
    \A s \in Request : session[s].user # None =>
        /\ req[s].pc \in {"welcome"} \cup Over
        /\ req[s].name = session[s].user
        /\ Earned(s)

CookieIsEarned == \A s \in cookies : req[s].pc \in Over /\ Earned(s)

Carries(q) ==
    /\ req[q].kind \in {"action", "logout"}
    /\ req[q].sid \in cookies \cup {None}
    /\ req[q].pc \in {"purge", "run", "bye"} => req[q].sid \in cookies
    /\ req[q].pc \in {"run", "bye"} => req[q].user = req[req[q].sid].name

CarryingTyped == \A q \in Request : req[q].pc \in Carrying => Carries(q)

(* Rows are about sessions whose login is over. *)
RowIsOver ==
    \A row \in audit : row[3] # None => req[row[3]].pc \in Over /\ Earned(row[3])

(* A late set-up came when an account existed, and accounts stay. *)
LateIsClosed == \A q \in late : req[q].kind = "setup" => ~NeedsSetup

(* The inductive invariant of accounts and sessions: sessions, cookies and  *)
(* audit rows go back to a login whose password was the account's.         *)
AccountsInv ==
    /\ TypeOK
    /\ IdleIsFresh
    /\ NamingTyped
    /\ GrantIsEarned
    /\ RowIsMade
    /\ CookieIsEarned
    /\ CarryingTyped
    /\ RowIsOver
    /\ LateIsClosed
    /\ SetupCloses
    /\ AuditNamesHolder

(* A session that was ended is not valid, whoever still carries it. *)
EndedIsInvalid ==
    /\ over \subseteq cookies
    /\ \A s \in over : ~Valid(s)

LateIsInvalid ==
    \A q \in late : req[q].pc \in {"gate", "validate"} =>
        req[q].sid \in cookies /\ ~Valid(req[q].sid)

(* The inductive invariant for ended sessions. *)
EndedInv ==
    /\ AccountsInv
    /\ EndedIsInvalid
    /\ LateIsInvalid
    /\ EndedStaysEnded
=============================================================================
