--------------------------- MODULE AccountsProofs ---------------------------
(***************************************************************************)
(* Sessions are earned, set-up closes, audit rows name the holder, and,    *)
(* while the store answers, ended sessions stay ended: for any number of   *)
(* requests, names, passwords and any lifetime of a session.               *)
(***************************************************************************)
EXTENDS AccountsInductive, TLAPS

(* What no step takes back of a request that has begun. *)
Keeps ==
    /\ NeedsSetup' => NeedsSetup
    /\ \A p \in Request : req[p].pc # "idle" =>
           /\ req'[p].pc # "idle"
           /\ req'[p].kind = req[p].kind /\ req'[p].name = req[p].name
           /\ req'[p].password = req[p].password /\ req'[p].sid = req[p].sid
           /\ Earned(p) => Earned(p)'
           /\ req[p].pc \in Over => req'[p].pc \in Over

LEMMA EntryPlain ==
    ASSUME TypeOK, NEW q \in Request, NEW e \in Progress, req' = [req EXCEPT ![q] = e]
    PROVE  /\ req' \in [Request -> Progress]
           /\ req'[q] = e
           /\ \A p \in Request \ {q} : req'[p] = req[p]
BY DEF TypeOK

LEMMA GotoPlain ==
    ASSUME TypeOK, NEW q \in Request, NEW pc \in PC, Goto(q, pc)
    PROVE  /\ req' \in [Request -> Progress]
           /\ \A p \in Request \ {q} : req'[p] = req[p]
           /\ req'[q].kind = req[q].kind /\ req'[q].name = req[q].name
           /\ req'[q].password = req[q].password /\ req'[q].sid = req[q].sid
           /\ req'[q].user = req[q].user /\ req'[q].pc = pc
<1>1. [req[q] EXCEPT !.pc = pc] \in Progress
  BY DEF TypeOK, Progress
<1>2. req' = [req EXCEPT ![q] = [req[q] EXCEPT !.pc = pc]]
  BY DEF Goto
<1>3. QED
  BY <1>1, <1>2, EntryPlain DEF Progress

LEMMA AuditPlain ==
    ASSUME TypeOK, NEW row \in audit
    PROVE  row[2] \in Name /\ row[3] \in Request \cup {None}
BY DEF TypeOK

LEMMA AddAuditPlain ==
    ASSUME NEW a, NEW u, NEW s, AddAudit(a, u, s)
    PROVE  \A row \in audit' : row \in audit \/ (row[2] = u /\ row[3] = s)
BY DEF AddAudit

(* A row stays about a login that is over. *)
LEMMA RowStays ==
    ASSUME AccountsInv, Keeps, NEW row \in audit, row[3] # None
    PROVE  /\ req'[row[3]].pc \in Over /\ Earned(row[3])'
           /\ req'[row[3]].name = row[2] /\ req'[row[3]].password = users'[row[2]]
<1>1. row[3] \in Request
  BY AuditPlain DEF AccountsInv
<1>2. /\ req[row[3]].pc \in Over /\ Earned(row[3])
      /\ req[row[3]].name = row[2]
  BY DEF AccountsInv, RowIsOver, AuditNamesHolder
<1>3. /\ req'[row[3]].pc \in Over /\ Earned(row[3])'
      /\ req'[row[3]].name = row[2]
  BY <1>1, <1>2 DEF Keeps, Over
<1>4. QED
  BY <1>3 DEF Earned

(* Who carries a cookie goes on doing so. *)
LEMMA CarriesStays ==
    ASSUME AccountsInv, Keeps, cookies \subseteq cookies', NEW r \in Request,
           req'[r] = req[r], req[r].pc \in Carrying
    PROVE  Carries(r)'
<1>1. Carries(r)
  BY DEF AccountsInv, CarryingTyped
<1>2. \A s \in cookies : s \in Request /\ req'[s].name = req[s].name
  BY DEF AccountsInv, TypeOK, CookieIsEarned, Keeps, Over
<1>3. QED
  BY <1>1, <1>2 DEF Carries

LEMMA AccountsStep == AccountsInv /\ [Next]_vars => AccountsInv'
<1> SUFFICES ASSUME AccountsInv, [Next]_vars PROVE AccountsInv'
  OBVIOUS
<1> USE DEF AccountsInv, At
<1>1. ASSUME NEW q \in Request, NEW n \in Name, NEW p \in Password, Setup(q, n, p)
      PROVE  AccountsInv'
  <2>0. /\ req' \in [Request -> Progress]
        /\ \A r \in Request \ {q} : req'[r] = req[r]
        /\ req'[q].pc = "check" /\ req'[q].kind = "setup"
        /\ req'[q].name = n /\ req'[q].password = p
    <3> DEFINE e == [req[q] EXCEPT !.pc = "check", !.kind = "setup", !.name = n, !.password = p]
    <3>1. e \in Progress
      BY ZenonT(40) DEF TypeOK, Progress, PC, Kind
    <3>2. req' = [req EXCEPT ![q] = e]
      BY <1>1 DEF Setup
    <3>3. QED
      BY <3>1, <3>2, EntryPlain DEF Progress
  <2>1. TypeOK'
    BY <1>1, <2>0 DEF Setup, TypeOK, tables
  <2>2. Keeps
    BY <1>1 DEF Setup, Keeps, Earned, NeedsSetup, tables
  <2>3. IdleIsFresh' /\ NamingTyped'
    BY <1>1, <2>0 DEF Setup, IdleIsFresh, NamingTyped
  <2>4. GrantIsEarned'
    BY <1>1, <2>2 DEF Setup, GrantIsEarned, Keeps
  <2>5. RowIsMade'
    BY <1>1, <2>2 DEF Setup, RowIsMade, Keeps, Over, tables
  <2>6. CookieIsEarned'
    BY <1>1, <2>2 DEF Setup, CookieIsEarned, Keeps, Over, TypeOK
  <2>7. CarryingTyped'
    <3>1. cookies \subseteq cookies'
      BY <1>1 DEF Setup
    <3>2. req'[q].pc \notin Carrying
      BY <2>0 DEF Carrying
    <3>3. QED
      BY <2>0, <2>2, <3>1, <3>2, CarriesStays DEF CarryingTyped
  <2>8. RowIsOver' /\ AuditNamesHolder'
    <3>1. UNCHANGED audit
      BY <1>1 DEF Setup
    <3>2. QED
      BY <2>2, <3>1, RowStays DEF RowIsOver, AuditNamesHolder
  <2>9. LateIsClosed' /\ SetupCloses'
    BY <1>1, <2>0, <2>2
    DEF Setup, LateIsClosed, SetupCloses, Keeps, IdleIsFresh
  <2>10. QED
    BY <2>1, <2>3, <2>4, <2>5, <2>6, <2>7, <2>8, <2>9
<1>2. ASSUME NEW q \in Request, CheckSetup(q)
      PROVE  AccountsInv'
  <2>0. /\ req' \in [Request -> Progress]
        /\ \A r \in Request \ {q} : req'[r] = req[r]
        /\ req'[q].kind = req[q].kind /\ req'[q].name = req[q].name
        /\ req'[q].password = req[q].password /\ req'[q].sid = req[q].sid
        /\ req'[q].user = req[q].user /\ req'[q].pc \in {"create", "done"}
    BY <1>2, GotoPlain DEF CheckSetup, PC
  <2>1. TypeOK'
    BY <1>2, <2>0 DEF CheckSetup, TypeOK, tables
  <2>2. Keeps
    BY <1>2, <2>0 DEF CheckSetup, Keeps, Earned, NeedsSetup, Over, tables
  <2>3. IdleIsFresh' /\ NamingTyped'
    BY <1>2, <2>0 DEF CheckSetup, IdleIsFresh, NamingTyped, Naming
  <2>4. GrantIsEarned'
    BY <1>2, <2>0, <2>2 DEF CheckSetup, GrantIsEarned, Keeps
  <2>5. RowIsMade'
    BY <1>2, <2>0, <2>2 DEF CheckSetup, RowIsMade, Keeps, Over, tables
  <2>6. CookieIsEarned'
    BY <1>2, <2>2 DEF CheckSetup, CookieIsEarned, Keeps, Over, TypeOK
  <2>7. CarryingTyped'
    <3>1. cookies \subseteq cookies'
      BY <1>2 DEF CheckSetup
    <3>2. req'[q].pc \notin Carrying
      BY <2>0 DEF Carrying
    <3>3. QED
      BY <2>0, <2>2, <3>1, <3>2, CarriesStays DEF CarryingTyped
  <2>8. RowIsOver' /\ AuditNamesHolder'
    <3>1. UNCHANGED audit
      BY <1>2 DEF CheckSetup
    <3>2. QED
      BY <2>2, <3>1, RowStays DEF RowIsOver, AuditNamesHolder
  <2>9. LateIsClosed' /\ SetupCloses'
    <3>1. late' = late /\ users' = users
      BY <1>2 DEF CheckSetup, tables
    <3>2. late \subseteq Request
      BY DEF TypeOK
    <3>3. \A r \in late : req'[r].kind = req[r].kind
      BY <2>0, <3>2
    <3>4. LateIsClosed'
      BY <3>1, <3>3 DEF LateIsClosed, NeedsSetup
    <3>5. q \in late /\ req[q].kind = "setup" => req'[q].pc = "done"
      <4>1. "done" \in PC
        BY DEF PC
      <4>2. q \in late /\ req[q].kind = "setup" => Goto(q, "done")
        BY <1>2 DEF CheckSetup, LateIsClosed
      <4>3. QED
        BY <4>1, <4>2, GotoPlain
    <3>6. SetupCloses'
      BY <2>0, <3>1, <3>2, <3>3, <3>5 DEF SetupCloses
    <3>7. QED
      BY <3>4, <3>6
  <2>10. QED
    BY <2>1, <2>3, <2>4, <2>5, <2>6, <2>7, <2>8, <2>9
<1>3. ASSUME NEW q \in Request, CreateUser(q)
      PROVE  AccountsInv'
  <2>0. /\ req' \in [Request -> Progress]
        /\ \A r \in Request \ {q} : req'[r] = req[r]
        /\ req'[q].kind = req[q].kind /\ req'[q].name = req[q].name
        /\ req'[q].password = req[q].password /\ req'[q].sid = req[q].sid
        /\ req'[q].user = req[q].user /\ req'[q].pc \in {"created", "done"}
    BY <1>3, GotoPlain DEF CreateUser, PC
  <2>1. TypeOK'
    BY <1>3, <2>0 DEF CreateUser, TypeOK, NamingTyped, Naming
  <2>2. Keeps
    BY <1>3, <2>0, NoneAssumption
    DEF CreateUser, Keeps, Earned, TypeOK, NeedsSetup, Over
  <2>3. IdleIsFresh' /\ NamingTyped'
    BY <1>3, <2>0 DEF CreateUser, IdleIsFresh, NamingTyped, Naming
  <2>4. GrantIsEarned'
    BY <1>3, <2>0, <2>2 DEF CreateUser, GrantIsEarned, Keeps
  <2>5. RowIsMade'
    BY <1>3, <2>0, <2>2 DEF CreateUser, RowIsMade, Keeps, Over
  <2>6. CookieIsEarned'
    BY <1>3, <2>2 DEF CreateUser, CookieIsEarned, Keeps, Over, TypeOK
  <2>7. CarryingTyped'
    <3>1. cookies \subseteq cookies'
      BY <1>3 DEF CreateUser
    <3>2. req'[q].pc \notin Carrying
      BY <2>0 DEF Carrying
    <3>3. QED
      BY <2>0, <2>2, <3>1, <3>2, CarriesStays DEF CarryingTyped
  <2>8. RowIsOver' /\ AuditNamesHolder'
    <3>1. UNCHANGED audit
      BY <1>3 DEF CreateUser
    <3>2. QED
      BY <2>2, <3>1, RowStays DEF RowIsOver, AuditNamesHolder
  <2>9. LateIsClosed' /\ SetupCloses'
    BY <1>3, <2>0, <2>2
    DEF CreateUser, LateIsClosed, SetupCloses, Keeps, TypeOK
  <2>10. QED
    BY <2>1, <2>3, <2>4, <2>5, <2>6, <2>7, <2>8, <2>9
<1>4. ASSUME NEW q \in Request, RecordSetup(q)
      PROVE  AccountsInv'
  <2>0. /\ req' \in [Request -> Progress]
        /\ \A r \in Request \ {q} : req'[r] = req[r]
        /\ req'[q].kind = req[q].kind /\ req'[q].name = req[q].name
        /\ req'[q].password = req[q].password /\ req'[q].sid = req[q].sid
        /\ req'[q].user = req[q].user /\ req'[q].pc \in {"lookup"}
    BY <1>4, GotoPlain DEF RecordSetup, PC
  <2>1. TypeOK'
    BY <1>4, <2>0
    DEF RecordSetup, TypeOK, AddAudit, NamingTyped, Naming, tables
  <2>2. Keeps
    BY <1>4, <2>0 DEF RecordSetup, Keeps, Earned, NeedsSetup, Over, tables
  <2>3. IdleIsFresh' /\ NamingTyped'
    BY <1>4, <2>0 DEF RecordSetup, IdleIsFresh, NamingTyped, Naming
  <2>4. GrantIsEarned'
    BY <1>4, <2>0, <2>2 DEF RecordSetup, GrantIsEarned, Keeps
  <2>5. RowIsMade'
    BY <1>4, <2>0, <2>2 DEF RecordSetup, RowIsMade, Keeps, Over, tables
  <2>6. CookieIsEarned'
    BY <1>4, <2>2 DEF RecordSetup, CookieIsEarned, Keeps, Over, TypeOK
  <2>7. CarryingTyped'
    <3>1. cookies \subseteq cookies'
      BY <1>4 DEF RecordSetup
    <3>2. req'[q].pc \notin Carrying
      BY <2>0 DEF Carrying
    <3>3. QED
      BY <2>0, <2>2, <3>1, <3>2, CarriesStays DEF CarryingTyped
  <2>8. RowIsOver' /\ AuditNamesHolder'
    <3>1. \A row \in audit' : row \in audit \/ (row[2] = req[q].name /\ row[3] = None)
      BY <1>4, AddAuditPlain DEF RecordSetup
    <3>2. QED
      BY <2>2, <3>1, RowStays DEF RowIsOver, AuditNamesHolder
  <2>9. LateIsClosed' /\ SetupCloses'
    BY <1>4, <2>0, <2>2
    DEF RecordSetup, LateIsClosed, SetupCloses, Keeps, TypeOK
  <2>10. QED
    BY <2>1, <2>3, <2>4, <2>5, <2>6, <2>7, <2>8, <2>9
<1>5. ASSUME NEW q \in Request, NEW n \in Name, NEW p \in Password, Login(q, n, p)
      PROVE  AccountsInv'
  <2>0. /\ req' \in [Request -> Progress]
        /\ \A r \in Request \ {q} : req'[r] = req[r]
        /\ req'[q].pc = "lookup" /\ req'[q].kind = "login"
        /\ req'[q].name = n /\ req'[q].password = p
    <3> DEFINE e == [req[q] EXCEPT !.pc = "lookup", !.kind = "login", !.name = n, !.password = p]
    <3>1. e \in Progress
      BY ZenonT(40) DEF TypeOK, Progress, PC, Kind
    <3>2. req' = [req EXCEPT ![q] = e]
      BY <1>5 DEF Login
    <3>3. QED
      BY <3>1, <3>2, EntryPlain DEF Progress
  <2>1. TypeOK'
    BY <1>5, <2>0 DEF Login, TypeOK, tables
  <2>2. Keeps
    BY <1>5 DEF Login, Keeps, Earned, NeedsSetup, tables
  <2>3. IdleIsFresh' /\ NamingTyped'
    BY <1>5 DEF Login, IdleIsFresh, NamingTyped
  <2>4. GrantIsEarned'
    BY <1>5, <2>2 DEF Login, GrantIsEarned, Keeps
  <2>5. RowIsMade'
    BY <1>5, <2>2 DEF Login, RowIsMade, Keeps, Over, tables
  <2>6. CookieIsEarned'
    BY <1>5, <2>2 DEF Login, CookieIsEarned, Keeps, Over, TypeOK
  <2>7. CarryingTyped'
    <3>1. cookies \subseteq cookies'
      BY <1>5 DEF Login
    <3>2. req'[q].pc \notin Carrying
      BY <2>0 DEF Carrying
    <3>3. QED
      BY <2>0, <2>2, <3>1, <3>2, CarriesStays DEF CarryingTyped
  <2>8. RowIsOver' /\ AuditNamesHolder'
    <3>1. UNCHANGED audit
      BY <1>5 DEF Login
    <3>2. QED
      BY <2>2, <3>1, RowStays DEF RowIsOver, AuditNamesHolder
  <2>9. LateIsClosed' /\ SetupCloses'
    BY <1>5, <2>2 DEF Login, LateIsClosed, SetupCloses, Keeps
  <2>10. QED
    BY <2>1, <2>3, <2>4, <2>5, <2>6, <2>7, <2>8, <2>9
<1>6. ASSUME NEW q \in Request, Lookup(q)
      PROVE  AccountsInv'
  <2>0. /\ req' \in [Request -> Progress]
        /\ \A r \in Request \ {q} : req'[r] = req[r]
        /\ req'[q].kind = req[q].kind /\ req'[q].name = req[q].name
        /\ req'[q].password = req[q].password /\ req'[q].sid = req[q].sid
        /\ req'[q].user = req[q].user /\ req'[q].pc \in {"grant", "refuse"}
    BY <1>6, GotoPlain DEF Lookup, PC
  <2>1. TypeOK'
    BY <1>6, <2>0 DEF Lookup, TypeOK, tables
  <2>2. Keeps
    BY <1>6, <2>0 DEF Lookup, Keeps, Earned, NeedsSetup, Over, tables
  <2>3. IdleIsFresh' /\ NamingTyped'
    BY <1>6, <2>0 DEF Lookup, IdleIsFresh, NamingTyped, Naming
  <2>4. GrantIsEarned'
    <3>1. req'[q].pc = "grant" => users[req[q].name] = req[q].password
      BY <1>6, GotoPlain DEF Lookup, PC
    <3>2. req[q].name \in Name /\ req[q].password \in Password
      BY <1>6 DEF Lookup, NamingTyped, Naming
    <3>3. UNCHANGED users
      BY <1>6 DEF Lookup, tables
    <3>4. QED
      BY <2>0, <3>1, <3>2, <3>3 DEF GrantIsEarned, Earned
  <2>5. RowIsMade'
    BY <1>6, <2>0, <2>2 DEF Lookup, RowIsMade, Keeps, Over, tables
  <2>6. CookieIsEarned'
    BY <1>6, <2>2 DEF Lookup, CookieIsEarned, Keeps, Over, TypeOK
  <2>7. CarryingTyped'
    <3>1. cookies \subseteq cookies'
      BY <1>6 DEF Lookup
    <3>2. req'[q].pc \notin Carrying
      BY <2>0 DEF Carrying
    <3>3. QED
      BY <2>0, <2>2, <3>1, <3>2, CarriesStays DEF CarryingTyped
  <2>8. RowIsOver' /\ AuditNamesHolder'
    <3>1. UNCHANGED audit
      BY <1>6 DEF Lookup
    <3>2. QED
      BY <2>2, <3>1, RowStays DEF RowIsOver, AuditNamesHolder
  <2>9. LateIsClosed' /\ SetupCloses'
    BY SMTT(30), <1>6, <2>0, <2>2 DEF Lookup, LateIsClosed, SetupCloses, Keeps, TypeOK
  <2>10. QED
    BY <2>1, <2>3, <2>4, <2>5, <2>6, <2>7, <2>8, <2>9
<1>7. ASSUME NEW q \in Request, Grant(q)
      PROVE  AccountsInv'
  <2>0. /\ req' \in [Request -> Progress]
        /\ \A r \in Request \ {q} : req'[r] = req[r]
        /\ req'[q].kind = req[q].kind /\ req'[q].name = req[q].name
        /\ req'[q].password = req[q].password /\ req'[q].sid = req[q].sid
        /\ req'[q].user = req[q].user /\ req'[q].pc \in {"welcome", "refuse"}
    BY <1>7, GotoPlain DEF Grant, PC
  <2>1. TypeOK'
    BY <1>7, <2>0, TTLAssumption DEF Grant, TypeOK, NamingTyped, Naming
  <2>2. Keeps
    BY <1>7, <2>0 DEF Grant, Keeps, Earned, NeedsSetup, Over
  <2>3. IdleIsFresh' /\ NamingTyped'
    BY <1>7, <2>0 DEF Grant, IdleIsFresh, NamingTyped, Naming
  <2>4. GrantIsEarned'
    BY <1>7, <2>0 DEF Grant, GrantIsEarned, Earned
  <2>5. RowIsMade'
    <3>1. \A s \in Request \ {q} : session'[s] = session[s]
      BY <1>7 DEF Grant, TypeOK
    <3>2. req'[q].pc = "refuse" => session' = session
      BY <1>7, GotoPlain DEF Grant, PC
    <3>3. req'[q].pc = "welcome" => session'[q].user = req[q].name
      BY <1>7, GotoPlain DEF Grant, PC, TypeOK
    <3>4. session[q].user = None
      BY <1>7 DEF Grant, RowIsMade, Over
    <3>5. Earned(q)'
      BY <1>7, <2>2 DEF Grant, GrantIsEarned, Keeps
    <3>6. QED
      BY <1>7, <2>0, <2>2, <3>1, <3>2, <3>3, <3>4, <3>5
      DEF RowIsMade, Keeps, Over
  <2>6. CookieIsEarned'
    BY <1>7, <2>2 DEF Grant, CookieIsEarned, Keeps, Over, TypeOK
  <2>7. CarryingTyped'
    <3>1. cookies \subseteq cookies'
      BY <1>7 DEF Grant
    <3>2. req'[q].pc \notin Carrying
      BY <2>0 DEF Carrying
    <3>3. QED
      BY <2>0, <2>2, <3>1, <3>2, CarriesStays DEF CarryingTyped
  <2>8. RowIsOver' /\ AuditNamesHolder'
    <3>1. UNCHANGED audit
      BY <1>7 DEF Grant
    <3>2. QED
      BY <2>2, <3>1, RowStays DEF RowIsOver, AuditNamesHolder
  <2>9. LateIsClosed' /\ SetupCloses'
    BY <1>7, <2>0, <2>2 DEF Grant, LateIsClosed, SetupCloses, Keeps, TypeOK
  <2>10. QED
    BY <2>1, <2>3, <2>4, <2>5, <2>6, <2>7, <2>8, <2>9
<1>8. ASSUME NEW q \in Request, Refuse(q)
      PROVE  AccountsInv'
  <2>0. /\ req' \in [Request -> Progress]
        /\ \A r \in Request \ {q} : req'[r] = req[r]
        /\ req'[q].kind = req[q].kind /\ req'[q].name = req[q].name
        /\ req'[q].password = req[q].password /\ req'[q].sid = req[q].sid
        /\ req'[q].user = req[q].user /\ req'[q].pc \in {"done"}
    BY <1>8, GotoPlain DEF Refuse, PC
  <2>1. TypeOK'
    BY <1>8, <2>0 DEF Refuse, TypeOK, AddAudit, NamingTyped, Naming, tables
  <2>2. Keeps
    BY <1>8, <2>0 DEF Refuse, Keeps, Earned, NeedsSetup, Over, tables
  <2>3. IdleIsFresh' /\ NamingTyped'
    BY <1>8, <2>0 DEF Refuse, IdleIsFresh, NamingTyped, Naming
  <2>4. GrantIsEarned'
    BY <1>8, <2>0, <2>2 DEF Refuse, GrantIsEarned, Keeps
  <2>5. RowIsMade'
    BY <1>8, <2>0, <2>2 DEF Refuse, RowIsMade, Keeps, Over, tables
  <2>6. CookieIsEarned'
    BY <1>8, <2>2 DEF Refuse, CookieIsEarned, Keeps, Over, TypeOK
  <2>7. CarryingTyped'
    <3>1. cookies \subseteq cookies'
      BY <1>8 DEF Refuse
    <3>2. req'[q].pc \notin Carrying
      BY <2>0 DEF Carrying
    <3>3. QED
      BY <2>0, <2>2, <3>1, <3>2, CarriesStays DEF CarryingTyped
  <2>8. RowIsOver' /\ AuditNamesHolder'
    <3>1. \A row \in audit' : row \in audit \/ (row[2] = req[q].name /\ row[3] = None)
      BY <1>8, AddAuditPlain DEF Refuse
    <3>2. QED
      BY <2>2, <3>1, RowStays DEF RowIsOver, AuditNamesHolder
  <2>9. LateIsClosed' /\ SetupCloses'
    BY <1>8, <2>0, <2>2 DEF Refuse, LateIsClosed, SetupCloses, Keeps, TypeOK
  <2>10. QED
    BY <2>1, <2>3, <2>4, <2>5, <2>6, <2>7, <2>8, <2>9
<1>9. ASSUME NEW q \in Request, Welcome(q)
      PROVE  AccountsInv'
  <2>0. /\ req' \in [Request -> Progress]
        /\ \A r \in Request \ {q} : req'[r] = req[r]
        /\ req'[q].kind = req[q].kind /\ req'[q].name = req[q].name
        /\ req'[q].password = req[q].password /\ req'[q].sid = req[q].sid
        /\ req'[q].user = req[q].user /\ req'[q].pc \in {"done"}
    BY <1>9, GotoPlain DEF Welcome, PC
  <2>1. TypeOK'
    BY <1>9, <2>0 DEF Welcome, TypeOK, AddAudit, NamingTyped, Naming, tables
  <2>2. Keeps
    BY <1>9, <2>0 DEF Welcome, Keeps, Earned, NeedsSetup, Over, tables
  <2>3. IdleIsFresh' /\ NamingTyped'
    BY <1>9, <2>0 DEF Welcome, IdleIsFresh, NamingTyped, Naming
  <2>4. GrantIsEarned'
    BY <1>9, <2>0, <2>2 DEF Welcome, GrantIsEarned, Keeps
  <2>5. RowIsMade'
    BY <1>9, <2>0, <2>2 DEF Welcome, RowIsMade, Keeps, Over, tables
  <2>6. CookieIsEarned'
    BY <1>9, <2>0, <2>2
    DEF Welcome, CookieIsEarned, Keeps, GrantIsEarned, Over, TypeOK
  <2>7. CarryingTyped'
    <3>1. cookies \subseteq cookies'
      BY <1>9 DEF Welcome
    <3>2. req'[q].pc \notin Carrying
      BY <2>0 DEF Carrying
    <3>3. QED
      BY <2>0, <2>2, <3>1, <3>2, CarriesStays DEF CarryingTyped
  <2>8. RowIsOver' /\ AuditNamesHolder'
    <3>1. \A row \in audit' : row \in audit \/ (row[2] = req[q].name /\ row[3] = q)
      BY <1>9, AddAuditPlain DEF Welcome
    <3>2. req'[q].pc \in Over /\ Earned(q)' /\ req'[q].name = req[q].name
      BY <1>9, <2>0, <2>2 DEF Welcome, GrantIsEarned, Keeps, Over
    <3>3. QED
      BY <2>2, <3>1, <3>2, RowStays DEF RowIsOver, AuditNamesHolder, Earned
  <2>9. LateIsClosed' /\ SetupCloses'
    BY <1>9, <2>0, <2>2 DEF Welcome, LateIsClosed, SetupCloses, Keeps, TypeOK
  <2>10. QED
    BY <2>1, <2>3, <2>4, <2>5, <2>6, <2>7, <2>8, <2>9
<1>10. ASSUME NEW q \in Request, NEW k \in {"action", "logout"}, NEW s \in Request \cup {None}, Present(q, k, s)
      PROVE  AccountsInv'
  <2>0. /\ req' \in [Request -> Progress]
        /\ \A r \in Request \ {q} : req'[r] = req[r]
        /\ req'[q].pc = "gate" /\ req'[q].kind = k
        /\ req'[q].sid = s
    <3> DEFINE e == [req[q] EXCEPT !.pc = "gate", !.kind = k, !.sid = s]
    <3>1. e \in Progress
      <4>1. req[q] \in Progress /\ k \in Kind /\ "gate" \in PC
        BY DEF TypeOK, Kind, PC
      <4>2. QED
        BY <4>1 DEF Progress
    <3>2. req' = [req EXCEPT ![q] = e]
      BY <1>10 DEF Present
    <3>3. QED
      BY <3>1, <3>2, EntryPlain DEF Progress
  <2>1. TypeOK'
    BY <1>10, <2>0 DEF Present, TypeOK, tables
  <2>2. Keeps
    BY <1>10 DEF Present, Keeps, Earned, NeedsSetup, tables
  <2>3. IdleIsFresh' /\ NamingTyped'
    BY <1>10, <2>0 DEF Present, IdleIsFresh, NamingTyped, Naming
  <2>4. GrantIsEarned'
    BY <1>10, <2>2 DEF Present, GrantIsEarned, Keeps
  <2>5. RowIsMade'
    BY <1>10, <2>2 DEF Present, RowIsMade, Keeps, Over, tables
  <2>6. CookieIsEarned'
    BY <1>10, <2>2 DEF Present, CookieIsEarned, Keeps, Over, TypeOK
  <2>7. CarryingTyped'
    <3>1. UNCHANGED cookies
      BY <1>10 DEF Present
    <3>2. \A r \in Request \ {q} : req'[r].pc \in Carrying => Carries(r)'
      BY <2>0, <2>2, <3>1, CarriesStays
    <3>3. ASSUME req'[q].pc \in Carrying PROVE Carries(q)'
      BY <1>10, <2>0, <3>1 DEF Present, Carries
    <3>4. QED
      BY <3>2, <3>3 DEF CarryingTyped
  <2>8. RowIsOver' /\ AuditNamesHolder'
    <3>1. UNCHANGED audit
      BY <1>10 DEF Present
    <3>2. QED
      BY <2>2, <3>1, RowStays DEF RowIsOver, AuditNamesHolder
  <2>9. LateIsClosed' /\ SetupCloses'
    BY <1>10, <2>0, <2>2 DEF Present, LateIsClosed, SetupCloses, Keeps
  <2>10. QED
    BY <2>1, <2>3, <2>4, <2>5, <2>6, <2>7, <2>8, <2>9
<1>11. ASSUME NEW q \in Request, Gate(q)
      PROVE  AccountsInv'
  <2>0. /\ req' \in [Request -> Progress]
        /\ \A r \in Request \ {q} : req'[r] = req[r]
        /\ req'[q].kind = req[q].kind /\ req'[q].name = req[q].name
        /\ req'[q].password = req[q].password /\ req'[q].sid = req[q].sid
        /\ req'[q].user = req[q].user /\ req'[q].pc \in {"validate", "done"}
    BY <1>11, GotoPlain DEF Gate, PC
  <2>1. TypeOK'
    BY <1>11, <2>0 DEF Gate, TypeOK, tables
  <2>2. Keeps
    BY <1>11, <2>0 DEF Gate, Keeps, Earned, NeedsSetup, Over, tables
  <2>3. IdleIsFresh' /\ NamingTyped'
    BY <1>11, <2>0 DEF Gate, IdleIsFresh, NamingTyped, Naming
  <2>4. GrantIsEarned'
    BY <1>11, <2>0, <2>2 DEF Gate, GrantIsEarned, Keeps
  <2>5. RowIsMade'
    BY <1>11, <2>0, <2>2 DEF Gate, RowIsMade, Keeps, Over, tables
  <2>6. CookieIsEarned'
    BY <1>11, <2>2 DEF Gate, CookieIsEarned, Keeps, Over, TypeOK
  <2>7. CarryingTyped'
    <3>1. UNCHANGED cookies
      BY <1>11 DEF Gate
    <3>2. \A r \in Request \ {q} : req'[r].pc \in Carrying => Carries(r)'
      BY <2>0, <2>2, <3>1, CarriesStays
    <3>3. ASSUME req'[q].pc \in Carrying PROVE Carries(q)'
      BY <1>11, <2>0, <3>1, <3>3 DEF Gate, Carries, CarryingTyped, Carrying
    <3>4. QED
      BY <3>2, <3>3 DEF CarryingTyped
  <2>8. RowIsOver' /\ AuditNamesHolder'
    <3>1. UNCHANGED audit
      BY <1>11 DEF Gate
    <3>2. QED
      BY <2>2, <3>1, RowStays DEF RowIsOver, AuditNamesHolder
  <2>9. LateIsClosed' /\ SetupCloses'
    BY <1>11, <2>0, <2>2 DEF Gate, LateIsClosed, SetupCloses, Keeps, TypeOK
  <2>10. QED
    BY <2>1, <2>3, <2>4, <2>5, <2>6, <2>7, <2>8, <2>9
<1>12. ASSUME NEW q \in Request, Validate(q)
      PROVE  AccountsInv'
  <2>0. /\ req' \in [Request -> Progress]
        /\ \A r \in Request \ {q} : req'[r] = req[r]
        /\ req'[q].pc \in {"run", "purge", "done"}
        /\ req'[q].kind = req[q].kind /\ req'[q].name = req[q].name
        /\ req'[q].password = req[q].password /\ req'[q].sid = req[q].sid
        /\ req'[q].pc = "run" => Valid(req[q].sid) /\ req[q].sid # None /\ req'[q].user = session[req[q].sid].user
        /\ req'[q].pc = "purge" => req[q].sid # None
    <3> DEFINE e == [req[q] EXCEPT !.pc = "run", !.user = session[req[q].sid].user]
    <3>1. CASE req' = [req EXCEPT ![q] = e] /\ req[q].sid # None /\ Valid(req[q].sid)
      <4>1. req[q] \in Progress /\ req[q].sid \in Request /\ "run" \in PC
        BY <3>1 DEF TypeOK, Progress, PC
      <4>2. session[req[q].sid].user \in Name \cup {None}
        BY <4>1 DEF TypeOK
      <4>3. e \in Progress
        BY <4>1, <4>2 DEF Progress
      <4>4. QED
        BY <3>1, <4>3, EntryPlain DEF Progress
    <3>2. CASE Goto(q, "purge") /\ req[q].sid # None
      BY <3>2, GotoPlain DEF PC
    <3>3. CASE Goto(q, "done")
      BY <3>3, GotoPlain DEF PC
    <3>4. req' = [req EXCEPT ![q].pc = "run", ![q].user = session[req[q].sid].user] => req' = [req EXCEPT ![q] = e]
      BY DEF Progress
    <3>5. QED
      BY <1>12, <3>1, <3>2, <3>3, <3>4 DEF Validate
  <2>1. TypeOK'
    BY <1>12, <2>0 DEF Validate, TypeOK, tables
  <2>2. Keeps
    BY <1>12, <2>0 DEF Validate, Keeps, Earned, NeedsSetup, Over, tables
  <2>3. IdleIsFresh' /\ NamingTyped'
    BY <1>12, <2>0 DEF Validate, IdleIsFresh, NamingTyped, Naming
  <2>4. GrantIsEarned'
    BY <1>12, <2>0, <2>2 DEF Validate, GrantIsEarned, Keeps
  <2>5. RowIsMade'
    BY <1>12, <2>0, <2>2 DEF Validate, RowIsMade, Keeps, Over, tables
  <2>6. CookieIsEarned'
    BY <1>12, <2>2 DEF Validate, CookieIsEarned, Keeps, Over, TypeOK
  <2>7. CarryingTyped'
    <3>1. UNCHANGED cookies
      BY <1>12 DEF Validate
    <3>2. \A r \in Request \ {q} : req'[r].pc \in Carrying => Carries(r)'
      BY <2>0, <2>2, <3>1, CarriesStays
    <3>3. ASSUME req'[q].pc \in Carrying PROVE Carries(q)'
      <4>1. Carries(q)
        BY <1>12 DEF Validate, CarryingTyped, Carrying
      <4>2. req[q].sid # None /\ req'[q].pc # "done"
        BY <1>12, <2>0, <3>3, <4>1 DEF Validate, Carrying, CookieIsEarned
      <4>3. req[q].sid \in cookies /\ req[q].sid \in Request
        BY <4>1, <4>2 DEF Carries, TypeOK
      <4>4. req'[q].pc = "run" \/ req'[q].pc = "bye" => req'[q].user = req[req[q].sid].name
        BY <1>12, <2>0, <4>1, <4>3 DEF Validate, RowIsMade, Valid
      <4>5. req'[req[q].sid].name = req[req[q].sid].name
        BY <2>2, <4>3 DEF Keeps, CookieIsEarned, Over
      <4>6. QED
        BY <2>0, <3>1, <4>1, <4>3, <4>4, <4>5 DEF Carries
    <3>4. QED
      BY <3>2, <3>3 DEF CarryingTyped
  <2>8. RowIsOver' /\ AuditNamesHolder'
    <3>1. UNCHANGED audit
      BY <1>12 DEF Validate
    <3>2. QED
      BY <2>2, <3>1, RowStays DEF RowIsOver, AuditNamesHolder
  <2>9. LateIsClosed' /\ SetupCloses'
    BY <1>12, <2>0, <2>2
    DEF Validate, LateIsClosed, SetupCloses, Keeps, TypeOK
  <2>10. QED
    BY <2>1, <2>3, <2>4, <2>5, <2>6, <2>7, <2>8, <2>9
<1>13. ASSUME NEW q \in Request, Purge(q)
      PROVE  AccountsInv'
  <2>0. /\ req' \in [Request -> Progress]
        /\ \A r \in Request \ {q} : req'[r] = req[r]
        /\ req'[q].kind = req[q].kind /\ req'[q].name = req[q].name
        /\ req'[q].password = req[q].password /\ req'[q].sid = req[q].sid
        /\ req'[q].user = req[q].user /\ req'[q].pc \in {"done"}
    BY <1>13, GotoPlain DEF Purge, PC
  <2>1. TypeOK'
    BY <1>13, <2>0, TTLAssumption DEF Purge, TypeOK, NoSession, DeleteSession
  <2>2. Keeps
    BY <1>13, <2>0 DEF Purge, Keeps, Earned, NeedsSetup, Over
  <2>3. IdleIsFresh' /\ NamingTyped'
    BY <1>13, <2>0 DEF Purge, IdleIsFresh, NamingTyped, Naming
  <2>4. GrantIsEarned'
    BY <1>13, <2>0 DEF Purge, GrantIsEarned, Earned
  <2>5. RowIsMade'
    <3>1. \A s \in Request : session'[s].user # None => session'[s] = session[s]
      BY <1>13 DEF Purge, DeleteSession, NoSession, TypeOK
    <3>2. QED
      BY <1>13, <2>0, <2>2, <3>1 DEF Purge, RowIsMade, Keeps, Over
  <2>6. CookieIsEarned'
    BY <1>13, <2>2 DEF Purge, CookieIsEarned, Keeps, Over, TypeOK
  <2>7. CarryingTyped'
    <3>1. cookies \subseteq cookies'
      BY <1>13 DEF Purge
    <3>2. req'[q].pc \notin Carrying
      BY <2>0 DEF Carrying
    <3>3. QED
      BY <2>0, <2>2, <3>1, <3>2, CarriesStays DEF CarryingTyped
  <2>8. RowIsOver' /\ AuditNamesHolder'
    <3>1. UNCHANGED audit
      BY <1>13 DEF Purge
    <3>2. QED
      BY <2>2, <3>1, RowStays DEF RowIsOver, AuditNamesHolder
  <2>9. LateIsClosed' /\ SetupCloses'
    BY <1>13, <2>0, <2>2 DEF Purge, LateIsClosed, SetupCloses, Keeps, TypeOK
  <2>10. QED
    BY <2>1, <2>3, <2>4, <2>5, <2>6, <2>7, <2>8, <2>9
<1>14. ASSUME NEW q \in Request, Act(q)
      PROVE  AccountsInv'
  <2>0. /\ req' \in [Request -> Progress]
        /\ \A r \in Request \ {q} : req'[r] = req[r]
        /\ req'[q].kind = req[q].kind /\ req'[q].name = req[q].name
        /\ req'[q].password = req[q].password /\ req'[q].sid = req[q].sid
        /\ req'[q].user = req[q].user /\ req'[q].pc \in {"done"}
    BY <1>14, GotoPlain DEF Act, PC
  <2>1. TypeOK'
    <3>1. req[q].sid \in cookies /\ req[q].user \in Name
      BY <1>14
      DEF Act, CarryingTyped, Carries, Carrying, CookieIsEarned, Earned
    <3>2. QED
      BY <1>14, <2>0, <3>1 DEF Act, TypeOK, AddAudit, tables
  <2>2. Keeps
    BY <1>14, <2>0 DEF Act, Keeps, Earned, NeedsSetup, Over, tables
  <2>3. IdleIsFresh' /\ NamingTyped'
    BY <1>14, <2>0 DEF Act, IdleIsFresh, NamingTyped, Naming
  <2>4. GrantIsEarned'
    BY <1>14, <2>0, <2>2 DEF Act, GrantIsEarned, Keeps
  <2>5. RowIsMade'
    BY <1>14, <2>0, <2>2 DEF Act, RowIsMade, Keeps, Over, tables
  <2>6. CookieIsEarned'
    BY <1>14, <2>2 DEF Act, CookieIsEarned, Keeps, Over, TypeOK
  <2>7. CarryingTyped'
    <3>1. cookies \subseteq cookies'
      BY <1>14 DEF Act
    <3>2. req'[q].pc \notin Carrying
      BY <2>0 DEF Carrying
    <3>3. QED
      BY <2>0, <2>2, <3>1, <3>2, CarriesStays DEF CarryingTyped
  <2>8. RowIsOver' /\ AuditNamesHolder'
    <3>1. \A row \in audit' : row \in audit \/ (row[2] = req[q].user /\ row[3] = req[q].sid)
      BY <1>14, AddAuditPlain DEF Act
    <3>2. PICK t \in cookies : t = req[q].sid /\ t \in Request /\ req[q].user = req[t].name
      BY <1>14 DEF Act, CarryingTyped, Carries, Carrying, TypeOK
    <3>3. req'[t].pc \in Over /\ Earned(t)' /\ req'[t].name = req[q].user
      BY <2>2, <3>2 DEF CookieIsEarned, Keeps, Over
    <3>4. QED
      BY <2>2, <3>1, <3>2, <3>3, RowStays
      DEF RowIsOver, AuditNamesHolder, Earned
  <2>9. LateIsClosed' /\ SetupCloses'
    BY <1>14, <2>0, <2>2 DEF Act, LateIsClosed, SetupCloses, Keeps, TypeOK
  <2>10. QED
    BY <2>1, <2>3, <2>4, <2>5, <2>6, <2>7, <2>8, <2>9
<1>15. ASSUME NEW q \in Request, Logout(q)
      PROVE  AccountsInv'
  <2>0. /\ req' \in [Request -> Progress]
        /\ \A r \in Request \ {q} : req'[r] = req[r]
        /\ req'[q].kind = req[q].kind /\ req'[q].name = req[q].name
        /\ req'[q].password = req[q].password /\ req'[q].sid = req[q].sid
        /\ req'[q].user = req[q].user /\ req'[q].pc \in {"bye"}
    BY <1>15, GotoPlain DEF Logout, PC
  <2>1. TypeOK'
    <3>1. req[q].sid \in cookies
      BY <1>15 DEF Logout, At, CarryingTyped, Carries, Carrying
    <3>2. session' \in [Request -> [user : Name \cup {None}, left : 0..TTL]]
      BY <1>15, TTLAssumption DEF Logout, TypeOK, NoSession, DeleteSession
    <3>3. over' \subseteq Request
      BY <1>15, <3>1 DEF Logout, TypeOK
    <3>4. QED
      BY <1>15, <2>0, <3>2, <3>3 DEF Logout, TypeOK
  <2>2. Keeps
    BY <1>15, <2>0 DEF Logout, Keeps, Earned, NeedsSetup, Over
  <2>3. IdleIsFresh' /\ NamingTyped'
    BY <1>15, <2>0 DEF Logout, IdleIsFresh, NamingTyped, Naming
  <2>4. GrantIsEarned'
    BY <1>15, <2>0 DEF Logout, GrantIsEarned, Earned
  <2>5. RowIsMade'
    <3>1. \A s \in Request : session'[s].user # None => session'[s] = session[s]
      BY <1>15 DEF Logout, DeleteSession, NoSession, TypeOK
    <3>2. QED
      BY <1>15, <2>0, <2>2, <3>1 DEF Logout, RowIsMade, Keeps, Over
  <2>6. CookieIsEarned'
    BY <1>15, <2>2 DEF Logout, CookieIsEarned, Keeps, Over, TypeOK
  <2>7. CarryingTyped'
    <3>1. UNCHANGED cookies
      BY <1>15 DEF Logout
    <3>2. \A r \in Request \ {q} : req'[r].pc \in Carrying => Carries(r)'
      BY <2>0, <2>2, <3>1, CarriesStays
    <3>3. ASSUME req'[q].pc \in Carrying PROVE Carries(q)'
      <4>1. Carries(q)
        BY <1>15 DEF Logout, CarryingTyped, Carrying
      <4>2. req[q].sid # None /\ req'[q].pc # "done"
        BY <1>15, <2>0, <3>3, <4>1, NoneAssumption
        DEF Logout, Carries, CookieIsEarned, TypeOK
      <4>3. req[q].sid \in cookies /\ req[q].sid \in Request
        BY <4>1, <4>2 DEF Carries, TypeOK
      <4>4. req'[q].pc = "run" \/ req'[q].pc = "bye" => req'[q].user = req[req[q].sid].name
        BY <1>15, <2>0, <4>1, <4>3 DEF Logout, Carries, RowIsMade, Valid
      <4>5. req'[req[q].sid].name = req[req[q].sid].name
        BY <2>2, <4>3 DEF Keeps, CookieIsEarned, Over
      <4>6. QED
        BY <2>0, <3>1, <4>1, <4>3, <4>4, <4>5 DEF Carries
    <3>4. QED
      BY <3>2, <3>3 DEF CarryingTyped
  <2>8. RowIsOver' /\ AuditNamesHolder'
    <3>1. UNCHANGED audit
      BY <1>15 DEF Logout
    <3>2. QED
      BY <2>2, <3>1, RowStays DEF RowIsOver, AuditNamesHolder
  <2>9. LateIsClosed' /\ SetupCloses'
    BY <1>15, <2>0, <2>2 DEF Logout, LateIsClosed, SetupCloses, Keeps, TypeOK
  <2>10. QED
    BY <2>1, <2>3, <2>4, <2>5, <2>6, <2>7, <2>8, <2>9
<1>16. ASSUME NEW q \in Request, Bye(q)
      PROVE  AccountsInv'
  <2>0. /\ req' \in [Request -> Progress]
        /\ \A r \in Request \ {q} : req'[r] = req[r]
        /\ req'[q].kind = req[q].kind /\ req'[q].name = req[q].name
        /\ req'[q].password = req[q].password /\ req'[q].sid = req[q].sid
        /\ req'[q].user = req[q].user /\ req'[q].pc \in {"done"}
    BY <1>16, GotoPlain DEF Bye, PC
  <2>1. TypeOK'
    <3>1. req[q].sid \in cookies /\ req[q].user \in Name
      BY <1>16
      DEF Bye, CarryingTyped, Carries, Carrying, CookieIsEarned, Earned
    <3>2. QED
      BY <1>16, <2>0, <3>1 DEF Bye, TypeOK, AddAudit, tables
  <2>2. Keeps
    BY <1>16, <2>0 DEF Bye, Keeps, Earned, NeedsSetup, Over, tables
  <2>3. IdleIsFresh' /\ NamingTyped'
    BY <1>16, <2>0 DEF Bye, IdleIsFresh, NamingTyped, Naming
  <2>4. GrantIsEarned'
    BY <1>16, <2>0, <2>2 DEF Bye, GrantIsEarned, Keeps
  <2>5. RowIsMade'
    BY <1>16, <2>0, <2>2 DEF Bye, RowIsMade, Keeps, Over, tables
  <2>6. CookieIsEarned'
    BY <1>16, <2>2 DEF Bye, CookieIsEarned, Keeps, Over, TypeOK
  <2>7. CarryingTyped'
    <3>1. cookies \subseteq cookies'
      BY <1>16 DEF Bye
    <3>2. req'[q].pc \notin Carrying
      BY <2>0 DEF Carrying
    <3>3. QED
      BY <2>0, <2>2, <3>1, <3>2, CarriesStays DEF CarryingTyped
  <2>8. RowIsOver' /\ AuditNamesHolder'
    <3>1. \A row \in audit' : row \in audit \/ (row[2] = req[q].user /\ row[3] = req[q].sid)
      BY <1>16, AddAuditPlain DEF Bye
    <3>2. PICK t \in cookies : t = req[q].sid /\ t \in Request /\ req[q].user = req[t].name
      BY <1>16 DEF Bye, CarryingTyped, Carries, Carrying, TypeOK
    <3>3. req'[t].pc \in Over /\ Earned(t)' /\ req'[t].name = req[q].user
      BY <2>2, <3>2 DEF CookieIsEarned, Keeps, Over
    <3>4. QED
      BY <2>2, <3>1, <3>2, <3>3, RowStays
      DEF RowIsOver, AuditNamesHolder, Earned
  <2>9. LateIsClosed' /\ SetupCloses'
    BY <1>16, <2>0, <2>2 DEF Bye, LateIsClosed, SetupCloses, Keeps, TypeOK
  <2>10. QED
    BY <2>1, <2>3, <2>4, <2>5, <2>6, <2>7, <2>8, <2>9
<1>17. ASSUME Tick
      PROVE  AccountsInv'
  <2>0. req' = req
    BY <1>17 DEF Tick
  <2>1. TypeOK'
    BY <1>17, TTLAssumption DEF Tick, TypeOK
  <2>2. Keeps
    BY <1>17 DEF Tick, Keeps, Earned, NeedsSetup
  <2>3. IdleIsFresh' /\ NamingTyped'
    BY <1>17 DEF Tick, IdleIsFresh, NamingTyped
  <2>4. GrantIsEarned'
    BY <1>17 DEF Tick, GrantIsEarned, Earned
  <2>5. RowIsMade'
    BY <1>17, <2>2 DEF Tick, RowIsMade, Keeps, Over
  <2>6. CookieIsEarned'
    BY <1>17, <2>2 DEF Tick, CookieIsEarned, Keeps, Over, TypeOK
  <2>7. CarryingTyped'
    BY <1>17, <2>2, CarriesStays DEF Tick, CarryingTyped
  <2>8. RowIsOver' /\ AuditNamesHolder'
    <3>1. UNCHANGED audit
      BY <1>17 DEF Tick
    <3>2. QED
      BY <2>2, <3>1, RowStays DEF RowIsOver, AuditNamesHolder
  <2>9. LateIsClosed' /\ SetupCloses'
    BY <1>17, <2>2 DEF Tick, LateIsClosed, SetupCloses, Keeps
  <2>10. QED
    BY <2>1, <2>3, <2>4, <2>5, <2>6, <2>7, <2>8, <2>9
<1>18. ASSUME Crash
      PROVE  AccountsInv'
  <2>0. /\ req' \in [Request -> Progress]
        /\ \A r \in Request : /\ req'[r].pc = IF req[r].pc \in {"idle", "done"} THEN req[r].pc ELSE "dead"
                              /\ req'[r].kind = req[r].kind /\ req'[r].name = req[r].name
                              /\ req'[r].password = req[r].password /\ req'[r].sid = req[r].sid
    <3>1. \A r \in Request : [req[r] EXCEPT !.pc = "dead"] \in Progress
      BY DEF TypeOK, Progress, PC
    <3>2. QED
      BY <1>18, <3>1 DEF Crash, TypeOK, Progress
  <2>1. TypeOK'
    BY <1>18, <2>0 DEF Crash, TypeOK, tables
  <2>2. Keeps
    BY <1>18 DEF Crash, Keeps, Earned, NeedsSetup, Over, tables
  <2>3. IdleIsFresh' /\ NamingTyped'
    BY <1>18 DEF Crash, IdleIsFresh, NamingTyped, Naming
  <2>4. GrantIsEarned'
    BY <1>18 DEF Crash, GrantIsEarned
  <2>5. RowIsMade'
    BY <1>18, <2>2 DEF Crash, RowIsMade, Keeps, Over, tables
  <2>6. CookieIsEarned'
    BY <1>18, <2>2 DEF Crash, CookieIsEarned, Keeps, Over, TypeOK
  <2>7. CarryingTyped'
    BY <2>0 DEF CarryingTyped, Carrying
  <2>8. RowIsOver' /\ AuditNamesHolder'
    <3>1. UNCHANGED audit
      BY <1>18 DEF Crash
    <3>2. QED
      BY <2>2, <3>1, RowStays DEF RowIsOver, AuditNamesHolder
  <2>9. LateIsClosed' /\ SetupCloses'
    BY <1>18, <2>2 DEF Crash, LateIsClosed, SetupCloses, Keeps, TypeOK
  <2>10. QED
    BY <2>1, <2>3, <2>4, <2>5, <2>6, <2>7, <2>8, <2>9
<1>19. ASSUME UNCHANGED vars
      PROVE  AccountsInv'
  <2>0. req' = req
    BY <1>19 DEF vars
  <2>1. TypeOK'
    BY <1>19 DEF vars, TypeOK, tables
  <2>2. Keeps
    BY <1>19 DEF vars, Keeps, Earned, NeedsSetup, tables
  <2>3. IdleIsFresh' /\ NamingTyped'
    BY <1>19 DEF vars, IdleIsFresh, NamingTyped
  <2>4. GrantIsEarned'
    BY <1>19, <2>2 DEF vars, GrantIsEarned, Keeps
  <2>5. RowIsMade'
    BY <1>19, <2>2 DEF vars, RowIsMade, Keeps, Over, tables
  <2>6. CookieIsEarned'
    BY <1>19, <2>2 DEF vars, CookieIsEarned, Keeps, Over, TypeOK
  <2>7. CarryingTyped'
    BY <1>19, <2>2, CarriesStays DEF vars, CarryingTyped
  <2>8. RowIsOver' /\ AuditNamesHolder'
    <3>1. UNCHANGED audit
      BY <1>19 DEF vars
    <3>2. QED
      BY <2>2, <3>1, RowStays DEF RowIsOver, AuditNamesHolder
  <2>9. LateIsClosed' /\ SetupCloses'
    BY <1>19, <2>2 DEF vars, LateIsClosed, SetupCloses, Keeps
  <2>10. QED
    BY <2>1, <2>3, <2>4, <2>5, <2>6, <2>7, <2>8, <2>9
<1>20. QED
  BY <1>1, <1>2, <1>3, <1>4, <1>5, <1>6, <1>7, <1>8, <1>9, <1>10, <1>11, <1>12,
     <1>13, <1>14, <1>15, <1>16, <1>17, <1>18, <1>19 DEF Next, Handle

LEMMA AccountsInit == Init => AccountsInv
<1> SUFFICES ASSUME Init PROVE AccountsInv
  OBVIOUS
<1>1. TypeOK
  BY TTLAssumption DEF Init, TypeOK, Progress, PC, NoSession
<1>2. /\ \A q \in Request : req[q].pc = "idle" /\ session[q].user = None
      /\ audit = {} /\ late = {} /\ admitted = {} /\ cookies = {}
  BY DEF Init, NoSession
<1>3. QED
  BY <1>1, <1>2
  DEF AccountsInv, IdleIsFresh, NamingTyped, Naming, At, GrantIsEarned,
      RowIsMade, CookieIsEarned, CarryingTyped, Carrying, RowIsOver,
      LateIsClosed, SetupCloses, AuditNamesHolder

(* Accounts and sessions always satisfy the inductive invariant.           *)
THEOREM AccountsCorrect == Spec => []AccountsInv
<1>1. Init => AccountsInv
  BY AccountsInit
<1>2. AccountsInv /\ [Next]_vars => AccountsInv'
  BY AccountsStep
<1>3. QED
  BY <1>1, <1>2, PTL DEF Spec

(* Whoever has a session gave the password of the account it is for.       *)
THEOREM SessionCorrect == Spec => []SessionIsEarned
<1>1. AccountsInv => SessionIsEarned
  BY DEF AccountsInv, RowIsMade, Earned, SessionIsEarned
<1>2. QED
  BY <1>1, AccountsCorrect, PTL

(* Set-up is closed to requests that arrive once an account exists.        *)
THEOREM SetupCorrect == Spec => []SetupCloses
<1>1. AccountsInv => SetupCloses
  BY DEF AccountsInv
<1>2. QED
  BY <1>1, AccountsCorrect, PTL

(* Rows of the audit table name the account of the session they are about. *)
THEOREM AccountsAuditCorrect == Spec => []AuditNamesHolder
<1>1. AccountsInv => AuditNamesHolder
  BY DEF AccountsInv
<1>2. QED
  BY <1>1, AccountsCorrect, PTL

(* The variables keep their types.                                         *)
THEOREM AccountsTyped == Spec => []TypeOK
<1>1. AccountsInv => TypeOK
  BY DEF AccountsInv
<1>2. QED
  BY <1>1, AccountsCorrect, PTL

----------------------------------------------------------------------------
(* Sessions that ended, when the statements of the store succeed. *)

(* A session in the hands of a browser never becomes valid again. *)
LEMMA InvalidStays ==
    ASSUME AccountsInv, [Next]_vars, NEW s \in cookies, ~Valid(s)
    PROVE  s \in cookies' /\ ~Valid(s)'
<1> USE DEF Valid
<1>1. s \in Request /\ session[s] \in [user : Name \cup {None}, left : 0..TTL]
  BY DEF AccountsInv, TypeOK
<1>2. CASE \E q \in Request : Grant(q)
  <2>1. req[s].pc \in Over
    BY DEF AccountsInv, CookieIsEarned
  <2>2. PICK q \in Request : Grant(q)
    BY <1>2
  <2>3. s # q
    BY <2>1, <2>2 DEF Grant, At, Over
  <2>4. session'[s] = session[s] /\ cookies' = cookies
    BY <1>1, <2>2, <2>3 DEF Grant, AccountsInv, TypeOK
  <2>5. QED
    BY <2>4
<1>3. CASE \E q \in Request : Purge(q) \/ Logout(q)
  <2>1. NoSession.user = None
    BY DEF NoSession
  <2>2. PICK q \in Request : Purge(q) \/ Logout(q)
    BY <1>3
  <2>3. session'[s] \in {session[s], NoSession} /\ cookies' = cookies
    BY <1>1, <2>2 DEF Purge, Logout, DeleteSession, AccountsInv, TypeOK
  <2>4. QED
    BY <2>1, <2>3
<1>4. CASE Tick
  <2>1. session'[s].user = session[s].user /\ cookies' = cookies
    BY <1>1, <1>4 DEF Tick
  <2>2. session[s].left = 0 => session'[s].left = 0
    BY <1>1, <1>4 DEF Tick
  <2>3. QED
    BY <1>1, <2>1, <2>2
<1>5. CASE UNCHANGED session /\ cookies \subseteq cookies'
  BY <1>5
<1>6. QED
  BY <1>2, <1>3, <1>4, <1>5
  DEF Next, Handle, vars, tables, Setup, CheckSetup, CreateUser, RecordSetup,
      Login, Lookup, Refuse, Welcome, Present, Gate, Validate, Act, Bye, Crash

(* A request that has begun keeps its kind. *)
LEMMA KindStays ==
    ASSUME TypeOK, [Next]_vars, NEW r \in Request, req[r].pc # "idle"
    PROVE  req'[r].kind = req[r].kind
<1>1. ASSUME NEW n \in Name, NEW p \in Password, NEW q \in Request,
             Setup(q, n, p) \/ Login(q, n, p)
      PROVE  req'[r] = req[r]
  BY <1>1 DEF Setup, Login, At, TypeOK
<1>2. ASSUME NEW q \in Request, NEW k \in {"action", "logout"},
             NEW s \in Request \cup {None}, Present(q, k, s)
      PROVE  req'[r] = req[r]
  BY <1>2 DEF Present, At
<1>3. ASSUME NEW q \in Request, CheckSetup(q)
      PROVE  req'[r].kind = req[r].kind
  BY <1>3, GotoPlain DEF CheckSetup, PC
<1>4. ASSUME NEW q \in Request, CreateUser(q)
      PROVE  req'[r].kind = req[r].kind
  BY <1>4, GotoPlain DEF CreateUser, PC
<1>5. ASSUME NEW q \in Request, RecordSetup(q)
      PROVE  req'[r].kind = req[r].kind
  BY <1>5, GotoPlain DEF RecordSetup, PC
<1>6. ASSUME NEW q \in Request, Lookup(q)
      PROVE  req'[r].kind = req[r].kind
  BY <1>6, GotoPlain DEF Lookup, PC
<1>7. ASSUME NEW q \in Request, Grant(q)
      PROVE  req'[r].kind = req[r].kind
  BY <1>7, GotoPlain DEF Grant, PC
<1>8. ASSUME NEW q \in Request, Refuse(q)
      PROVE  req'[r].kind = req[r].kind
  BY <1>8, GotoPlain DEF Refuse, PC
<1>9. ASSUME NEW q \in Request, Welcome(q)
      PROVE  req'[r].kind = req[r].kind
  BY <1>9, GotoPlain DEF Welcome, PC
<1>10. ASSUME NEW q \in Request, Gate(q)
       PROVE  req'[r].kind = req[r].kind
  BY <1>10, GotoPlain DEF Gate, PC
<1>11. ASSUME NEW q \in Request, Purge(q)
       PROVE  req'[r].kind = req[r].kind
  BY <1>11, GotoPlain DEF Purge, PC
<1>12. ASSUME NEW q \in Request, Act(q)
       PROVE  req'[r].kind = req[r].kind
  BY <1>12, GotoPlain DEF Act, PC
<1>13. ASSUME NEW q \in Request, Logout(q)
       PROVE  req'[r].kind = req[r].kind
  BY <1>13, GotoPlain DEF Logout, PC
<1>14. ASSUME NEW q \in Request, Bye(q)
       PROVE  req'[r].kind = req[r].kind
  BY <1>14, GotoPlain DEF Bye, PC
<1>15. ASSUME NEW q \in Request, Validate(q)
       PROVE  req'[r].kind = req[r].kind
  BY <1>15, GotoPlain DEF Validate, PC, TypeOK, Progress
<1>16. CASE Tick \/ UNCHANGED vars
  BY <1>16 DEF Tick, vars
<1>17. CASE Crash
  BY <1>17 DEF Crash, Progress
<1>18. QED
  BY <1>1, <1>2, <1>3, <1>4, <1>5, <1>6, <1>7, <1>8, <1>9, <1>10, <1>11, <1>12,
     <1>13, <1>14, <1>15, <1>16, <1>17 DEF Next, Handle
(* What brings a request to the gate, past it, and to the end of a logout. *)
LEMMA MoveOf ==
    ASSUME TypeOK, [Next]_vars, NEW r \in Request, req'[r] # req[r],
           req'[r].pc \in {"bye", "gate", "validate"}
    PROVE  \/ Logout(r) /\ req'[r].pc = "bye"
           \/ Gate(r) /\ req'[r].pc = "validate"
           \/ \E k \in {"action", "logout"}, s \in Request \cup {None} :
                  Present(r, k, s) /\ req'[r].pc = "gate"
<1>1. ASSUME NEW n \in Name, NEW p \in Password, NEW q \in Request,
             Setup(q, n, p) \/ Login(q, n, p)
      PROVE  FALSE
  <2> DEFINE c == [req[q] EXCEPT !.pc = "check", !.kind = "setup",
                            !.name = n, !.password = p]
             l == [req[q] EXCEPT !.pc = "lookup", !.kind = "login",
                            !.name = n, !.password = p]
  <2>1. c.pc = "check" /\ l.pc = "lookup"
    <3>1. req[q] \in Progress
      BY DEF TypeOK
    <3>2. "pc" \in DOMAIN req[q]
      BY <3>1 DEF Progress
    <3>3. QED
      BY <3>1, <3>2 DEF Progress
  <2>2. req' = [req EXCEPT ![q] = c] \/ req' = [req EXCEPT ![q] = l]
    BY <1>1 DEF Setup, Login
  <2> HIDE DEF c, l
  <2>3. r # q => req'[r] = req[r]
    BY <2>2 DEF TypeOK
  <2>4. req'[q] \in {c, l}
    BY <2>2 DEF TypeOK
  <2>5. req'[q].pc \in {"check", "lookup"}
    BY <2>1, <2>4
  <2>6. r = q
    BY <2>3
  <2>7. QED
    BY <2>5, <2>6
<1>2. ASSUME NEW q \in Request, NEW k \in {"action", "logout"},
             NEW s \in Request \cup {None}, Present(q, k, s)
      PROVE  q = r /\ req'[r].pc = "gate"
  BY <1>2 DEF Present, Progress
<1>3. ASSUME NEW q \in Request, CheckSetup(q)
      PROVE  FALSE
  BY <1>3, GotoPlain DEF CheckSetup, PC
<1>4. ASSUME NEW q \in Request, CreateUser(q)
      PROVE  FALSE
  BY <1>4, GotoPlain DEF CreateUser, PC
<1>5. ASSUME NEW q \in Request, RecordSetup(q)
      PROVE  FALSE
  BY <1>5, GotoPlain DEF RecordSetup, PC
<1>6. ASSUME NEW q \in Request, Lookup(q)
      PROVE  FALSE
  BY <1>6, GotoPlain DEF Lookup, PC
<1>7. ASSUME NEW q \in Request, Grant(q)
      PROVE  FALSE
  BY <1>7, GotoPlain DEF Grant, PC
<1>8. ASSUME NEW q \in Request, Refuse(q)
      PROVE  FALSE
  BY <1>8, GotoPlain DEF Refuse, PC
<1>9. ASSUME NEW q \in Request, Welcome(q)
      PROVE  FALSE
  BY <1>9, GotoPlain DEF Welcome, PC
<1>10. ASSUME NEW q \in Request, Gate(q)
       PROVE  q = r /\ req'[r].pc = "validate"
  BY <1>10, GotoPlain DEF Gate, PC
<1>11. ASSUME NEW q \in Request, Purge(q)
       PROVE  FALSE
  BY <1>11, GotoPlain DEF Purge, PC
<1>12. ASSUME NEW q \in Request, Act(q)
       PROVE  FALSE
  BY <1>12, GotoPlain DEF Act, PC
<1>13. ASSUME NEW q \in Request, Logout(q)
       PROVE  q = r /\ req'[r].pc = "bye"
  BY <1>13, GotoPlain DEF Logout, PC
<1>14. ASSUME NEW q \in Request, Bye(q)
       PROVE  FALSE
  BY <1>14, GotoPlain DEF Bye, PC
<1>15. ASSUME NEW q \in Request, Validate(q)
       PROVE  FALSE
  BY <1>15, GotoPlain DEF Validate, PC, TypeOK, Progress
<1>16. CASE Tick \/ UNCHANGED vars
  BY <1>16 DEF Tick, vars
<1>17. CASE Crash
  BY <1>17 DEF Crash, Progress
<1>18. QED
    BY <1>1, <1>2, <1>3, <1>4, <1>5, <1>6, <1>7, <1>8, <1>9, <1>10, <1>11,
       <1>12, <1>13, <1>14, <1>15, <1>16, <1>17 DEF Next, Handle
(* The history variables grow one request at a time. *)
LEMMA HistoryGrows ==
    ASSUME TypeOK, [Next]_vars
    PROVE  /\ over' = over \/ \E q \in Request : Logout(q)
           /\ admitted' = admitted \/ \E q \in Request : Validate(q)
           /\ \/ late' = late
              \/ \E q \in Request : At(q, "idle") /\ late' = late \cup {q}
BY DEF Next, Handle, vars, Setup, CheckSetup, CreateUser, RecordSetup, Login,
   Lookup, Grant, Refuse, Welcome, Present, Gate, Validate, Purge, Act, Logout,
   Bye, Tick, Crash

LEMMA EndedStep ==
    ASSUME EndedInv, [Next]_vars
    PROVE  EndedInv'
<1>1. AccountsInv /\ AccountsInv' /\ TypeOK /\ TypeOK'
  BY AccountsStep DEF EndedInv, AccountsInv
<1>2. \A s \in over : s \in cookies' /\ ~Valid(s)'
  BY <1>1, InvalidStays DEF EndedInv, EndedIsInvalid
<1>3. ASSUME NEW q \in Request, Logout(q), over' # over
      PROVE  \A s \in over' : s \in cookies' /\ ~Valid(s)'
  <2>1. over' = over \cup {req[q].sid} /\ cookies' = cookies
        /\ session' = [session EXCEPT ![req[q].sid] = NoSession]
    BY <1>3 DEF Logout, DeleteSession
  <2>2. req[q].sid \in cookies
    BY <1>1, <1>3
    DEF AccountsInv, CarryingTyped, Carrying, Carries, Logout, At
  <2>3. PICK s \in cookies : s = req[q].sid
    BY <2>2
  <2>4. ~Valid(s)'
    BY <1>1, <2>1, <2>3 DEF TypeOK, NoSession, Valid
  <2>5. QED
    BY <1>2, <2>1, <2>3, <2>4
<1>4. \A q \in Request : q \in late' => q \in late \/ req[q].pc = "idle"
  BY <1>1, HistoryGrows DEF At
<1>5. ASSUME NEW q \in late', req'[q].pc \in {"gate", "validate"}
      PROVE  \E s \in cookies : s = req'[q].sid /\ ~Valid(s)
  <2>1. q \in Request
    BY <1>1 DEF TypeOK
  <2>2. CASE req'[q] = req[q]
    <3>1. q \in late
      BY <1>4, <1>5, <2>1, <2>2
    <3>2. QED
      BY <1>5, <2>2, <3>1 DEF EndedInv, LateIsInvalid
  <2>3. CASE Gate(q) /\ req'[q].pc = "validate"
    <3>1. req[q].pc = "gate" /\ late' = late /\ Goto(q, "validate")
      BY <1>1, <2>1, <2>3, GotoPlain DEF Gate, At, PC
    <3>2. req'[q].sid = req[q].sid
      BY <1>1, <2>1, <3>1, GotoPlain DEF PC
    <3>3. QED
      BY <3>1, <3>2 DEF EndedInv, LateIsInvalid
  <2>4. ASSUME NEW k \in {"action", "logout"}, NEW s \in Request \cup {None},
               Present(q, k, s)
        PROVE  \E c \in cookies : c = req'[q].sid /\ ~Valid(c)
    <3>1. req'[q].sid = s /\ q \notin late
      BY <1>1, <2>4 DEF Present, TypeOK, Progress, AccountsInv, IdleIsFresh
    <3>2. s \in cookies \cup {None} /\ (s \in over \/ (s # None /\ ~Valid(s)))
      BY <1>5, <2>4, <3>1 DEF Present
    <3>3. s \in cookies /\ ~Valid(s)
      BY <3>2 DEF EndedInv, EndedIsInvalid
    <3>4. QED
      BY <3>1, <3>3
  <2>5. QED
    BY <1>1, <1>5, <2>1, <2>2, <2>3, <2>4, MoveOf
<1>6. EndedIsInvalid'
  <2>1. \A s \in over' : s \in cookies' /\ ~Valid(s)'
    BY <1>1, <1>2, <1>3, HistoryGrows
  <2>2. QED
    BY <2>1 DEF EndedIsInvalid
<1>7. LateIsInvalid'
  <2>1. ASSUME NEW q \in late', req'[q].pc \in {"gate", "validate"}
        PROVE  req'[q].sid \in cookies' /\ ~Valid(req[q].sid)'
    <3>1. PICK s \in cookies : s = req'[q].sid /\ ~Valid(s)
      BY <1>5, <2>1
    <3>2. s \in cookies' /\ ~Valid(s)'
      BY <1>1, <3>1, InvalidStays
    <3>3. QED
      BY <3>1, <3>2 DEF Valid
  <2>2. QED
    BY <2>1 DEF LateIsInvalid
<1>8. EndedStaysEnded'
  <2>1. ASSUME NEW q \in late, req'[q].kind # "setup"
        PROVE  req[q].kind # "setup"
    <3>1. req[q].pc # "idle" /\ q \in Request
      BY <1>1 DEF AccountsInv, IdleIsFresh, At, TypeOK
    <3>2. QED
      BY <1>1, <2>1, <3>1, KindStays
  <2>2. ASSUME NEW q \in admitted', q \in late', req'[q].kind # "setup"
        PROVE  FALSE
    <3>1. q \in Request
      BY <1>1 DEF TypeOK
    <3>2. CASE q \in late /\ q \in admitted
      BY <2>1, <2>2, <3>2 DEF EndedInv, EndedStaysEnded
    <3>3. CASE q \notin late
      <4>1. req[q].pc = "idle" /\ late' # late
        BY <1>4, <2>2, <3>1, <3>3
      <4>2. q \notin admitted
        BY <1>1, <3>1, <4>1 DEF AccountsInv, IdleIsFresh, At
      <4>3. PICK p \in Request : Validate(p) /\ late' = late
        BY <1>1, <4>2, HistoryGrows DEF Validate
      <4>4. QED
        BY <4>1, <4>3
    <3>4. CASE q \in late /\ q \notin admitted
      <4>1. PICK p \in Request : Validate(p)
        BY <1>1, <3>4, HistoryGrows
      <4>2. p = q /\ req[q].pc = "validate" /\ Valid(req[q].sid)
        BY <3>4, <4>1 DEF Validate, At
      <4>3. QED
        BY <3>4, <4>2 DEF EndedInv, LateIsInvalid
    <3>5. QED
      BY <3>2, <3>3, <3>4
  <2>3. QED
    BY <2>2 DEF EndedStaysEnded
<1>9. QED
  BY <1>1, <1>6, <1>7, <1>8 DEF EndedInv

(* The inductive invariant that also tells of sessions that are over holds *)
(* whatever statements of the store fail.                                  *)
THEOREM EndedHolds == Spec => []EndedInv
<1>1. Init => EndedInv
  <2> SUFFICES ASSUME Init PROVE EndedInv
    OBVIOUS
  <2>1. over = {} /\ late = {} /\ \A q \in Request : req[q].pc = "idle"
    BY DEF Init
  <2>2. QED
    BY <2>1, AccountsInit
    DEF EndedInv, EndedIsInvalid, LateIsInvalid, EndedStaysEnded, At
<1>2. EndedInv /\ [Next]_vars => EndedInv'
  BY EndedStep
<1>3. QED
  BY <1>1, <1>2, PTL DEF Spec

(* requireAuth: no request begun with a session whose row a logout has     *)
(* deleted, or that had expired, is let through to a handler.              *)
THEOREM EndedCorrect == Spec => []EndedStaysEnded
<1>1. EndedInv => EndedStaysEnded
  BY DEF EndedInv
<1>2. QED
  BY <1>1, EndedHolds, PTL
=============================================================================
