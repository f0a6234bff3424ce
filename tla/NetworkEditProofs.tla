------------------------- MODULE NetworkEditProofs -------------------------
(***************************************************************************)
(* Proofs about NetworkEdit for every set of devices, profiles,            *)
(* configurations and requests and every rollback window: what an operator *)
(* is told, the anti-lockout promise and the refinement of                 *)
(* ConfirmOrRevert.                                                        *)
(***************************************************************************)
EXTENDS NetworkEditRefinement, TLAPS

(* NetworkManager's calls keep the types of its state. *)
LEMMA NMCallsTyped ==
    ASSUME NMTypeOK, SnapshotsComplete
    PROVE  /\ \A r \in Request, d \in Device :
                  CheckpointCreate(r, d) => NMTypeOK' /\ SnapshotsComplete'
           /\ \A p \in Profile, c \in Config :
                  SettingsUpdate(p, c) => NMTypeOK' /\ SnapshotsComplete'
           /\ \A p \in Profile, d \in Device :
                  ActivateConnection(p, d) => NMTypeOK' /\ SnapshotsComplete'
           /\ \A r \in Request :
                  CheckpointDestroy(r) => NMTypeOK' /\ SnapshotsComplete'
           /\ \A r \in Request :
                  CheckpointRollback(r) => NMTypeOK' /\ SnapshotsComplete'
           /\ CheckpointTick => NMTypeOK' /\ SnapshotsComplete'
           /\ UNCHANGED nmVars => NMTypeOK' /\ SnapshotsComplete'
<1> USE WindowAssumption, NoneAssumption
    DEF NMTypeOK, SnapshotsComplete, Checkpoint, CheckpointStatus, Setting
<1>1. ASSUME NEW r \in Request, NEW d \in Device, CheckpointCreate(r, d)
      PROVE  NMTypeOK' /\ SnapshotsComplete'
  <2>1. SettingOf(d) \in Setting /\ (active[d] \in Profile => SettingOf(d).saved \in Config)
    BY DEF SettingOf
  <2>2. QED
    BY <1>1, <2>1 DEF CheckpointCreate
<1>2. ASSUME NEW p \in Profile, NEW c \in Config, SettingsUpdate(p, c)
      PROVE  NMTypeOK' /\ SnapshotsComplete'
  BY <1>2 DEF SettingsUpdate
<1>3. ASSUME NEW p \in Profile, NEW d \in Device, ActivateConnection(p, d)
      PROVE  NMTypeOK' /\ SnapshotsComplete'
  BY <1>3 DEF ActivateConnection
<1>4. ASSUME NEW r \in Request, CheckpointDestroy(r)
      PROVE  NMTypeOK' /\ SnapshotsComplete'
  BY <1>4 DEF CheckpointDestroy, NoCheckpoint, NoSetting
<1>5. ASSUME NEW r \in Request, CheckpointRollback(r)
      PROVE  NMTypeOK' /\ SnapshotsComplete'
  <2> DEFINE snap == checkpoint[r]
  <2>1. snap \in Checkpoint /\ NoCheckpoint("rolledback") \in Checkpoint
    BY DEF NoCheckpoint, NoSetting
  <2>2. \A p \in Profile : p = snap.profile => snap.was.saved \in Config
    OBVIOUS
  <2>3. saved' \in [Profile -> Config]
    BY <1>5, <2>2 DEF CheckpointRollback
  <2>4. active' \in [Device -> Profile \cup {None}] /\ applied' \in [Device -> Config \cup {None}]
    BY <1>5, <2>1 DEF CheckpointRollback
  <2>5. checkpoint' \in [Request -> Checkpoint] /\ SnapshotsComplete'
    BY <1>5, <2>1 DEF CheckpointRollback, NoCheckpoint, NoSetting
  <2>6. QED
    BY <2>3, <2>4, <2>5
<1>6. ASSUME CheckpointTick
      PROVE  NMTypeOK' /\ SnapshotsComplete'
  <2>1. UNCHANGED <<saved, active, applied>>
    BY <1>6 DEF CheckpointTick
  <2>2. ASSUME NEW r \in Request
        PROVE  /\ checkpoint'[r] \in Checkpoint
               /\ checkpoint'[r].profile = checkpoint[r].profile
               /\ checkpoint'[r].was = checkpoint[r].was
    BY SMTT(30), <1>6 DEF CheckpointTick, Live
  <2>3. checkpoint' \in [Request -> Checkpoint]
    <3>1. DOMAIN checkpoint' = Request /\ checkpoint' = [r \in Request |-> checkpoint'[r]]
      BY <1>6 DEF CheckpointTick
    <3>2. QED
      BY ONLY <2>2, <3>1
  <2>4. QED
    BY <2>1, <2>2, <2>3
<1>7. ASSUME UNCHANGED nmVars
      PROVE  NMTypeOK' /\ SnapshotsComplete'
  BY <1>7 DEF nmVars
<1>8. QED
  BY <1>1, <1>2, <1>3, <1>4, <1>5, <1>6, <1>7

(* The invariant holds before the first request. *)
LEMMA FateInit == Init => FateInv
<1> SUFFICES ASSUME Init PROVE FateInv
  OBVIOUS
<1> USE WindowAssumption, NoneAssumption DEF Init, NMInit, Blank
<1>1. TypeOK
  <2>1. NMTypeOK
    BY DEF NMTypeOK, Checkpoint, CheckpointStatus, NoCheckpoint, NoSetting, Setting
  <2>2. \A d \in Device : SettingOf(d) \in Setting
    BY <2>1 DEF NMTypeOK, SettingOf, Setting
  <2>3. QED
    BY <2>1, <2>2 DEF TypeOK, RequestPC, AnswerPC
<1>2. /\ HoldingTyped /\ SnapshotsComplete /\ FreshBeforeCreate /\ DestroyedWasShown
      /\ PendingWasApplied /\ DeadlineAfterTimer /\ TakenOnce /\ OpenNotKept
      /\ RecordTellsFate /\ AuditedIsOver /\ AuditTellsFate
  BY DEF HoldingTyped, SnapshotsComplete, FreshBeforeCreate, DestroyedWasShown,
         PendingWasApplied, DeadlineAfterTimer, TakenOnce, OpenNotKept,
         RecordTellsFate, AuditedIsOver, AuditTellsFate, Holding, NoCheckpoint
<1>3. QED
  BY <1>1, <1>2 DEF FateInv

(* What CheckpointDestroy and CheckpointRollback do to the checkpoints. *)
LEMMA EndEffect ==
    ASSUME NMTypeOK, NEW r \in Request
    PROVE  /\ CheckpointDestroy(r) =>
                  /\ Live(r) /\ checkpoint'[r].status = "destroyed"
                  /\ \A q \in Request \ {r} : checkpoint'[q] = checkpoint[q]
           /\ CheckpointRollback(r) =>
                  /\ Live(r) /\ checkpoint'[r].status = "rolledback"
                  /\ \A q \in Request \ {r} : checkpoint'[q] = checkpoint[q]
  BY DEF NMTypeOK, CheckpointDestroy, CheckpointRollback, NoCheckpoint

(* Every step keeps the invariant. *)
LEMMA FateStep == FateInv /\ [Next]_vars => FateInv'
<1> SUFFICES ASSUME FateInv, [Next]_vars PROVE FateInv'
  OBVIOUS
<1> USE DEF FateInv, RequestAt, Goto, AnswerAt, AnswerGoto
<1>1. ASSUME NEW r \in Request, NEW d \in Device, NEW c \in Config, Begin(r, d, c)
      PROVE  FateInv'
  <2>0. active[d] \in Profile
    BY <1>1 DEF Begin, TypeOK, NMTypeOK
  <2>1. TypeOK' /\ HoldingTyped' /\ SnapshotsComplete'
    BY <1>1, <2>0, NMCallsTyped, WindowAssumption DEF Begin, Blank, TypeOK,
       HoldingTyped, Holding, RequestPC, AnswerPC, Kind, AuditRow, TakenOnce,
       nmVars, editVars, SnapshotsComplete
  <2>2. FreshBeforeCreate' /\ DestroyedWasShown'
    BY <1>1, <2>0 DEF Begin, Blank, nmVars, editVars, Live, TypeOK, NMTypeOK,
       FreshBeforeCreate, DestroyedWasShown
  <2>3. PendingWasApplied' /\ DeadlineAfterTimer'
    BY <1>1, <2>0, WindowAssumption DEF Begin, Blank, nmVars, editVars, Live,
       TypeOK, NMTypeOK, Checkpoint, FreshBeforeCreate, PendingWasApplied,
       DeadlineAfterTimer, Answerable
  <2>4. TakenOnce' /\ OpenNotKept' /\ RecordTellsFate'
    BY <1>1, <2>0 DEF Begin, Blank, nmVars, editVars, Live, TypeOK, NMTypeOK,
       FreshBeforeCreate, DestroyedWasShown, TakenOnce, OpenNotKept,
       RecordTellsFate, PendingWasApplied, Answerable, Kind
  <2>5. AuditedIsOver' /\ AuditTellsFate'
    BY <1>1, <2>0 DEF Begin, Blank, nmVars, editVars, Live, TypeOK, NMTypeOK,
       AuditedIsOver, AuditTellsFate, DestroyedWasShown, TakenOnce, RecordTellsFate,
       FreshBeforeCreate, PendingWasApplied, Answerable, Kind
  <2>6. QED
    BY <2>1, <2>2, <2>3, <2>4, <2>5
<1>2. ASSUME NEW r \in Request, Refuse(r)
      PROVE  FateInv'
  <2>1. TypeOK' /\ HoldingTyped' /\ SnapshotsComplete'
    BY <1>2, NMCallsTyped, WindowAssumption DEF Refuse, TypeOK, HoldingTyped,
       Holding, RequestPC, AnswerPC, Kind, AuditRow, TakenOnce, nmVars, editVars,
       SnapshotsComplete
  <2>2. FreshBeforeCreate' /\ DestroyedWasShown'
    BY <1>2 DEF Refuse, nmVars, editVars, Live, TypeOK, NMTypeOK, FreshBeforeCreate,
       DestroyedWasShown
  <2>3. PendingWasApplied' /\ DeadlineAfterTimer'
    BY <1>2, WindowAssumption DEF Refuse, nmVars, editVars, Live, TypeOK, NMTypeOK,
       Checkpoint, FreshBeforeCreate, PendingWasApplied, DeadlineAfterTimer,
       Answerable
  <2>4. TakenOnce' /\ OpenNotKept' /\ RecordTellsFate'
    BY <1>2 DEF Refuse, nmVars, editVars, Live, TypeOK, NMTypeOK, FreshBeforeCreate,
       DestroyedWasShown, TakenOnce, OpenNotKept, RecordTellsFate,
       PendingWasApplied, Answerable, Kind
  <2>5. AuditedIsOver' /\ AuditTellsFate'
    BY <1>2 DEF Refuse, nmVars, editVars, Live, TypeOK, NMTypeOK, AuditedIsOver,
       AuditTellsFate, DestroyedWasShown, TakenOnce, RecordTellsFate,
       FreshBeforeCreate, PendingWasApplied, Answerable, Kind
  <2>6. QED
    BY <2>1, <2>2, <2>3, <2>4, <2>5
<1>3. ASSUME NEW r \in Request, Create(r)
      PROVE  FateInv'
  <2>0. req[r].dev \in Device /\ req[r].pc = "begun" /\ checkpoint[r].status = "none"
    BY <1>3 DEF Create, HoldingTyped, Holding, FreshBeforeCreate
  <2>7. /\ UNCHANGED <<pending, deadline, answer, audit>>
        /\ req'[r].pc \in {"created", "failing"}
        /\ \A q \in Request : q # r => req'[q] = req[q]
        /\ checkpoint'[r].status \in {"none", "live"}
        /\ \A q \in Request : q # r => checkpoint'[q] = checkpoint[q]
    BY <1>3, <2>0 DEF Create, CheckpointCreate, nmVars, TypeOK, NMTypeOK
  <2>1. TypeOK' /\ HoldingTyped' /\ SnapshotsComplete'
    <3>1. NMTypeOK' /\ SnapshotsComplete'
      BY <1>3, <2>0, NMCallsTyped DEF Create, TypeOK
    <3>2. UNCHANGED <<pending, deadline, answer, audit, confirmed>>
      BY <1>3 DEF Create
    <3>3. PICK pc \in {"created", "failing"} : req' = [req EXCEPT ![r].pc = pc]
      BY <1>3 DEF Create
    <3>4. HoldingTyped' /\ req' \in [Request -> [pc : RequestPC, dev : Device \cup {None},
             profile : Profile \cup {None}, cfg : Config \cup {None}]]
      BY <1>3, <3>3 DEF Create, HoldingTyped, Holding, RequestPC, TypeOK
    <3>5. QED
      BY <3>1, <3>2, <3>4 DEF TypeOK
  <2>2. FreshBeforeCreate' /\ DestroyedWasShown'
    BY <2>7, <2>0 DEF Live, TypeOK, NMTypeOK, FreshBeforeCreate, DestroyedWasShown
  <2>3. PendingWasApplied' /\ DeadlineAfterTimer'
    BY <1>3, <2>0, WindowAssumption DEF Create, CheckpointCreate, nmVars, editVars,
       Live, TypeOK, NMTypeOK, Checkpoint, FreshBeforeCreate, PendingWasApplied,
       DeadlineAfterTimer, Answerable
  <2>4. TakenOnce' /\ OpenNotKept' /\ RecordTellsFate'
    <3>1. TakenOnce'
      BY <2>7, <2>0 DEF TakenOnce
    <3>2. OpenNotKept'
      BY <2>7, <2>0 DEF OpenNotKept, TakenOnce, Live, TypeOK
    <3>3. RecordTellsFate'
      BY <2>7, <2>0 DEF RecordTellsFate, OpenNotKept, TakenOnce, Live
    <3>4. QED
      BY <3>1, <3>2, <3>3
  <2>5. AuditedIsOver' /\ AuditTellsFate'
    BY ZenonT(40), <2>7, <2>0 DEF Live, TypeOK, NMTypeOK, AuditedIsOver, AuditTellsFate,
       DestroyedWasShown, TakenOnce, RecordTellsFate, FreshBeforeCreate,
       PendingWasApplied, Answerable, Kind
  <2>6. QED
    BY <2>1, <2>2, <2>3, <2>4, <2>5
<1>4. ASSUME NEW r \in Request, Update(r)
      PROVE  FateInv'
  <2>0. req[r].profile \in Profile /\ req[r].cfg \in Config
    BY <1>4 DEF Update, HoldingTyped, Holding
  <2>1. TypeOK' /\ HoldingTyped' /\ SnapshotsComplete'
    <3>1. NMTypeOK' /\ SnapshotsComplete'
      BY <1>4, <2>0, NMCallsTyped DEF Update, TypeOK
    <3>2. UNCHANGED <<pending, deadline, answer, audit, confirmed>>
      BY <1>4 DEF Update
    <3>3. PICK pc \in {"updated", "undo"} : req' = [req EXCEPT ![r].pc = pc]
      BY <1>4 DEF Update
    <3>4. HoldingTyped' /\ req' \in [Request -> [pc : RequestPC, dev : Device \cup {None},
             profile : Profile \cup {None}, cfg : Config \cup {None}]]
      BY <1>4, <3>3 DEF Update, HoldingTyped, Holding, RequestPC, TypeOK
    <3>5. QED
      BY <3>1, <3>2, <3>4 DEF TypeOK
  <2>2. FreshBeforeCreate' /\ DestroyedWasShown'
    BY <1>4, <2>0 DEF Update, SettingsUpdate, nmVars, editVars, Live, TypeOK,
       NMTypeOK, FreshBeforeCreate, DestroyedWasShown
  <2>3. PendingWasApplied' /\ DeadlineAfterTimer'
    BY <1>4, <2>0, WindowAssumption DEF Update, SettingsUpdate, nmVars, editVars,
       Live, TypeOK, NMTypeOK, Checkpoint, FreshBeforeCreate, PendingWasApplied,
       DeadlineAfterTimer, Answerable
  <2>4. TakenOnce' /\ OpenNotKept' /\ RecordTellsFate'
    BY <1>4, <2>0 DEF Update, SettingsUpdate, nmVars, editVars, Live, TypeOK,
       NMTypeOK, FreshBeforeCreate, DestroyedWasShown, TakenOnce, OpenNotKept,
       RecordTellsFate, PendingWasApplied, Answerable, Kind
  <2>5. AuditedIsOver' /\ AuditTellsFate'
    BY <1>4, <2>0 DEF Update, SettingsUpdate, nmVars, editVars, Live, TypeOK,
       NMTypeOK, AuditedIsOver, AuditTellsFate, DestroyedWasShown, TakenOnce,
       RecordTellsFate, FreshBeforeCreate, PendingWasApplied, Answerable, Kind
  <2>6. QED
    BY <2>1, <2>2, <2>3, <2>4, <2>5
<1>5. ASSUME NEW r \in Request, Activate(r)
      PROVE  FateInv'
  <2>0. req[r].profile \in Profile /\ req[r].dev \in Device /\ checkpoint' = checkpoint
    BY <1>5 DEF Activate, HoldingTyped, Holding, ActivateConnection, nmVars
  <2>7. /\ UNCHANGED <<checkpoint, pending, deadline, answer, audit>>
        /\ req[r].pc = "updated"
        /\ req'[r].pc \in {"applied", "undo"}
        /\ \A q \in Request : q # r => req'[q] = req[q]
    BY <1>5, <2>0 DEF Activate, TypeOK
  <2>1. TypeOK' /\ HoldingTyped' /\ SnapshotsComplete'
    <3>1. NMTypeOK' /\ SnapshotsComplete'
      BY <1>5, <2>0, NMCallsTyped DEF Activate, TypeOK
    <3>2. UNCHANGED <<pending, deadline, answer, audit, confirmed>>
      BY <1>5 DEF Activate
    <3>3. PICK pc \in {"applied", "undo"} : req' = [req EXCEPT ![r].pc = pc]
      BY <1>5 DEF Activate
    <3>4. HoldingTyped' /\ req' \in [Request -> [pc : RequestPC, dev : Device \cup {None},
             profile : Profile \cup {None}, cfg : Config \cup {None}]]
      BY <1>5, <3>3 DEF Activate, HoldingTyped, Holding, RequestPC, TypeOK
    <3>5. QED
      BY <3>1, <3>2, <3>4 DEF TypeOK
  <2>2. FreshBeforeCreate' /\ DestroyedWasShown'
    BY <2>7 DEF Live, TypeOK, NMTypeOK, FreshBeforeCreate, DestroyedWasShown
  <2>3. PendingWasApplied' /\ DeadlineAfterTimer'
    BY <1>5, <2>0, WindowAssumption DEF Activate, ActivateConnection, nmVars,
       editVars, Live, TypeOK, NMTypeOK, Checkpoint, FreshBeforeCreate,
       PendingWasApplied, DeadlineAfterTimer, Answerable
  <2>4. TakenOnce' /\ OpenNotKept' /\ RecordTellsFate'
    <3>1. TakenOnce'
      BY <2>7 DEF TakenOnce
    <3>2. OpenNotKept'
      BY <2>7 DEF OpenNotKept, TakenOnce, Live, TypeOK
    <3>3. RecordTellsFate'
      BY <2>7 DEF RecordTellsFate, OpenNotKept, TakenOnce, Live
    <3>4. QED
      BY <3>1, <3>2, <3>3
  <2>5. AuditedIsOver' /\ AuditTellsFate'
    BY <2>7 DEF Live, TypeOK, NMTypeOK, AuditedIsOver, AuditTellsFate,
       DestroyedWasShown, TakenOnce, RecordTellsFate, FreshBeforeCreate,
       PendingWasApplied, Answerable, Kind
  <2>6. QED
    BY <2>1, <2>2, <2>3, <2>4, <2>5
<1>6. ASSUME NEW r \in Request, Undo(r)
      PROVE  FateInv'
  <2>7. /\ UNCHANGED <<pending, deadline, answer, audit>>
        /\ req[r].pc = "undo"
        /\ req'[r].pc = "failing"
        /\ \A q \in Request : q # r => req'[q] = req[q]
    BY <1>6, EndEffect DEF Undo, nmVars, TypeOK
  <2>8. \A q \in Request : \/ checkpoint'[q] = checkpoint[q]
                           \/ q = r /\ Live(q) /\ checkpoint'[q].status = "rolledback"
    <3>1. CASE CheckpointRollback(r)
      BY <3>1, EndEffect DEF TypeOK
    <3>2. CASE UNCHANGED nmVars
      BY <3>2 DEF nmVars
    <3>3. QED
      BY <1>6, <3>1, <3>2 DEF Undo
  <2>1. TypeOK' /\ HoldingTyped' /\ SnapshotsComplete'
    <3>1. NMTypeOK' /\ SnapshotsComplete'
      BY <1>6, NMCallsTyped DEF Undo, TypeOK
    <3>2. UNCHANGED <<pending, deadline, answer, audit, confirmed>>
      BY <1>6 DEF Undo
    <3>3. PICK pc \in {"failing"} : req' = [req EXCEPT ![r].pc = pc]
      BY <1>6 DEF Undo
    <3>4. HoldingTyped' /\ req' \in [Request -> [pc : RequestPC, dev : Device \cup {None},
             profile : Profile \cup {None}, cfg : Config \cup {None}]]
      BY <1>6, <3>3 DEF Undo, HoldingTyped, Holding, RequestPC, TypeOK
    <3>5. QED
      BY <3>1, <3>2, <3>4 DEF TypeOK
  <2>2. FreshBeforeCreate' /\ DestroyedWasShown'
    BY <2>7, <2>8 DEF Live, TypeOK, NMTypeOK, FreshBeforeCreate, DestroyedWasShown
  <2>3. PendingWasApplied' /\ DeadlineAfterTimer'
    BY <1>6, EndEffect, WindowAssumption DEF Undo, nmVars, editVars, Live, TypeOK,
       NMTypeOK, Checkpoint, FreshBeforeCreate, PendingWasApplied,
       DeadlineAfterTimer, Answerable
  <2>4. TakenOnce' /\ OpenNotKept' /\ RecordTellsFate'
    <3>1. TakenOnce'
      BY <2>7, <2>8 DEF TakenOnce
    <3>2. OpenNotKept'
      BY <2>7, <2>8 DEF OpenNotKept, TakenOnce, Live, TypeOK
    <3>3. RecordTellsFate'
      BY <2>7, <2>8 DEF RecordTellsFate, OpenNotKept, TakenOnce, Live
    <3>4. QED
      BY <3>1, <3>2, <3>3
  <2>5. AuditedIsOver' /\ AuditTellsFate'
    BY SMTT(30), <2>7, <2>8 DEF Live, TypeOK, NMTypeOK, AuditedIsOver, AuditTellsFate,
       DestroyedWasShown, TakenOnce, RecordTellsFate, FreshBeforeCreate,
       PendingWasApplied, Answerable, Kind
  <2>6. QED
    BY <2>1, <2>2, <2>3, <2>4, <2>5
<1>7. ASSUME NEW r \in Request, Register(r)
      PROVE  FateInv'
  <2>1. TypeOK' /\ HoldingTyped' /\ SnapshotsComplete'
    BY <1>7, NMCallsTyped, WindowAssumption DEF Register, TypeOK, HoldingTyped,
       Holding, RequestPC, AnswerPC, Kind, AuditRow, TakenOnce, nmVars, editVars,
       SnapshotsComplete
  <2>2. FreshBeforeCreate' /\ DestroyedWasShown'
    BY <1>7 DEF Register, nmVars, editVars, Live, TypeOK, NMTypeOK,
       FreshBeforeCreate, DestroyedWasShown
  <2>3. PendingWasApplied' /\ DeadlineAfterTimer'
    BY <1>7, WindowAssumption DEF Register, nmVars, editVars, Live, TypeOK,
       NMTypeOK, Checkpoint, FreshBeforeCreate, PendingWasApplied,
       DeadlineAfterTimer, Answerable
  <2>4. TakenOnce' /\ OpenNotKept' /\ RecordTellsFate'
    BY <1>7 DEF Register, nmVars, editVars, Live, TypeOK, NMTypeOK,
       FreshBeforeCreate, DestroyedWasShown, TakenOnce, OpenNotKept,
       RecordTellsFate, PendingWasApplied, Answerable, Kind
  <2>5. AuditedIsOver' /\ AuditTellsFate'
    BY <1>7 DEF Register, nmVars, editVars, Live, TypeOK, NMTypeOK, AuditedIsOver,
       AuditTellsFate, DestroyedWasShown, TakenOnce, RecordTellsFate,
       FreshBeforeCreate, PendingWasApplied, Answerable, Kind
  <2>6. QED
    BY <2>1, <2>2, <2>3, <2>4, <2>5
<1>8. ASSUME NEW r \in Request, Show(r)
      PROVE  FateInv'
  <2>1. TypeOK' /\ HoldingTyped' /\ SnapshotsComplete'
    BY <1>8, NMCallsTyped, WindowAssumption DEF Show, AddAudit, TypeOK, HoldingTyped, Holding,
       RequestPC, AnswerPC, Kind, AuditRow, TakenOnce, nmVars, editVars,
       SnapshotsComplete
  <2>2. FreshBeforeCreate' /\ DestroyedWasShown'
    BY <1>8 DEF Show, nmVars, editVars, Live, TypeOK, NMTypeOK, FreshBeforeCreate,
       DestroyedWasShown
  <2>3. PendingWasApplied' /\ DeadlineAfterTimer'
    BY <1>8, WindowAssumption DEF Show, nmVars, editVars, Live, TypeOK, NMTypeOK,
       Checkpoint, FreshBeforeCreate, PendingWasApplied, DeadlineAfterTimer,
       Answerable
  <2>4. TakenOnce' /\ OpenNotKept' /\ RecordTellsFate'
    BY <1>8 DEF Show, nmVars, editVars, Live, TypeOK, NMTypeOK, FreshBeforeCreate,
       DestroyedWasShown, TakenOnce, OpenNotKept, RecordTellsFate,
       PendingWasApplied, Answerable, Kind
  <2>5. AuditedIsOver' /\ AuditTellsFate'
    BY <1>8 DEF Show, AddAudit, nmVars, editVars, Live, TypeOK, NMTypeOK, AuditedIsOver,
       AuditTellsFate, DestroyedWasShown, TakenOnce, RecordTellsFate,
       FreshBeforeCreate, PendingWasApplied, Answerable, Kind
  <2>6. QED
    BY <2>1, <2>2, <2>3, <2>4, <2>5
<1>9. ASSUME NEW r \in Request, Fail(r)
      PROVE  FateInv'
  <2>1. TypeOK' /\ HoldingTyped' /\ SnapshotsComplete'
    BY <1>9, NMCallsTyped, WindowAssumption DEF Fail, AddAudit, Blank, TypeOK, HoldingTyped,
       Holding, RequestPC, AnswerPC, Kind, AuditRow, TakenOnce, nmVars, editVars,
       SnapshotsComplete
  <2>2. FreshBeforeCreate' /\ DestroyedWasShown'
    BY <1>9 DEF Fail, Blank, nmVars, editVars, Live, TypeOK, NMTypeOK,
       FreshBeforeCreate, DestroyedWasShown
  <2>3. PendingWasApplied' /\ DeadlineAfterTimer'
    BY <1>9, WindowAssumption DEF Fail, Blank, nmVars, editVars, Live, TypeOK,
       NMTypeOK, Checkpoint, FreshBeforeCreate, PendingWasApplied,
       DeadlineAfterTimer, Answerable
  <2>4. TakenOnce' /\ OpenNotKept' /\ RecordTellsFate'
    BY <1>9 DEF Fail, Blank, nmVars, editVars, Live, TypeOK, NMTypeOK,
       FreshBeforeCreate, DestroyedWasShown, TakenOnce, OpenNotKept,
       RecordTellsFate, PendingWasApplied, Answerable, Kind
  <2>5. AuditedIsOver' /\ AuditTellsFate'
    BY <1>9 DEF Fail, AddAudit, Blank, nmVars, editVars, Live, TypeOK, NMTypeOK,
       AuditedIsOver, AuditTellsFate, DestroyedWasShown, TakenOnce, RecordTellsFate,
       FreshBeforeCreate, PendingWasApplied, Answerable, Kind
  <2>6. QED
    BY <2>1, <2>2, <2>3, <2>4, <2>5
<1>10. ASSUME NEW a \in Answer, NEW k \in Kind, NEW t \in Request, TakePending(a, k, t)
      PROVE  FateInv'
  <2>1. TypeOK' /\ HoldingTyped' /\ SnapshotsComplete'
    BY <1>10, NMCallsTyped, WindowAssumption DEF TakePending, TypeOK, HoldingTyped,
       Holding, RequestPC, AnswerPC, Kind, AuditRow, TakenOnce, nmVars, editVars,
       SnapshotsComplete
  <2>2. FreshBeforeCreate' /\ DestroyedWasShown'
    BY <1>10 DEF TakePending, nmVars, editVars, Live, TypeOK, NMTypeOK,
       FreshBeforeCreate, DestroyedWasShown
  <2>3. PendingWasApplied' /\ DeadlineAfterTimer'
    BY <1>10, WindowAssumption DEF TakePending, nmVars, editVars, Live, TypeOK,
       NMTypeOK, Checkpoint, FreshBeforeCreate, PendingWasApplied,
       DeadlineAfterTimer, Answerable
  <2>4. TakenOnce' /\ OpenNotKept' /\ RecordTellsFate'
    BY <1>10 DEF TakePending, nmVars, editVars, Live, TypeOK, NMTypeOK,
       FreshBeforeCreate, DestroyedWasShown, TakenOnce, OpenNotKept,
       RecordTellsFate, PendingWasApplied, Answerable, Kind
  <2>5. AuditedIsOver' /\ AuditTellsFate'
    BY <1>10 DEF TakePending, nmVars, editVars, Live, TypeOK, NMTypeOK,
       AuditedIsOver, AuditTellsFate, DestroyedWasShown, TakenOnce, RecordTellsFate,
       FreshBeforeCreate, PendingWasApplied, Answerable, Kind
  <2>6. QED
    BY <2>1, <2>2, <2>3, <2>4, <2>5
<1>11. ASSUME NEW a \in Answer, Confirm(a)
      PROVE  FateInv'
  <2> DEFINE t == answer[a].token
  <2>0. /\ t \in Request \ pending
        /\ req[t].pc = "shown"
        /\ \A b \in Answer : answer[b].pc = "taken" /\ answer[b].token = t => b = a
    BY <1>11 DEF Confirm, TakenOnce
  <2>7. /\ UNCHANGED <<req, pending, deadline, audit>>
        /\ answer[a].pc = "taken" /\ answer[a].kind = "confirm"
        /\ \/ answer'[a].pc = "record" /\ checkpoint'[t].status = "destroyed"
           \/ answer'[a].pc = "done"
        /\ answer'[a].kind = "confirm" /\ answer'[a].token = t
        /\ \A b \in Answer : b # a => answer'[b] = answer[b]
    BY <1>11, <2>0, EndEffect DEF Confirm, nmVars, TypeOK
  <2>8. \A q \in Request : \/ checkpoint'[q] = checkpoint[q]
                           \/ q = t /\ Live(q) /\ checkpoint'[q].status = "destroyed"
    <3>1. CASE CheckpointDestroy(t)
      BY <3>1, <2>0, EndEffect DEF TypeOK
    <3>2. CASE UNCHANGED nmVars
      BY <3>2 DEF nmVars
    <3>3. QED
      BY <1>11, <3>1, <3>2 DEF Confirm
  <2>1. TypeOK' /\ HoldingTyped' /\ SnapshotsComplete'
    <3>1. NMTypeOK' /\ SnapshotsComplete'
      BY <1>11, <2>0, NMCallsTyped DEF Confirm, TypeOK
    <3>2. UNCHANGED <<req, pending, deadline, audit>> /\ confirmed' \in [Device -> Setting]
      BY <1>11, <2>0 DEF Confirm, TypeOK, HoldingTyped, Holding, Setting
    <3>3. answer' \in [Answer -> [pc : AnswerPC, kind : Kind \cup {None},
                                token : Request \cup {None}]]
      <4>1. PICK pc \in {"record", "done"} : answer' = [answer EXCEPT ![a].pc = pc]
        BY <1>11 DEF Confirm
      <4>2. QED
        BY <4>1 DEF TypeOK, AnswerPC
    <3>4. QED
      BY <3>1, <3>2, <3>3 DEF TypeOK, HoldingTyped
  <2>2. FreshBeforeCreate' /\ DestroyedWasShown'
    <3>1. FreshBeforeCreate'
      BY <2>7, <2>8 DEF Live, FreshBeforeCreate
    <3>2. DestroyedWasShown'
      BY <2>7, <2>8, <2>0 DEF DestroyedWasShown, FreshBeforeCreate
    <3>3. QED
      BY <3>1, <3>2
  <2>3. PendingWasApplied' /\ DeadlineAfterTimer'
    BY <1>11, <2>0, EndEffect, WindowAssumption DEF Confirm, nmVars, editVars, Live,
       TypeOK, NMTypeOK, Checkpoint, FreshBeforeCreate, PendingWasApplied,
       DeadlineAfterTimer, Answerable
  <2>4. TakenOnce' /\ OpenNotKept' /\ RecordTellsFate'
    <3>1. TakenOnce'
      BY <2>7, <2>8, <2>0 DEF TakenOnce
    <3>2. OpenNotKept'
      <4>1. \A q \in pending : checkpoint'[q].status # "destroyed"
        BY <2>7, <2>8, <2>0 DEF OpenNotKept, TypeOK
      <4>2. ASSUME NEW b \in Answer, answer'[b].pc = "taken"
            PROVE  checkpoint'[answer'[b].token].status # "destroyed"
        <5>1. b # a /\ answer'[b] = answer[b]
          BY <2>7, <4>2
        <5>2. answer[b].token \in Request /\ answer[b].token # t
          BY <2>0, <4>2, <5>1 DEF TakenOnce
        <5>3. QED
          BY <2>8, <4>2, <5>1, <5>2 DEF OpenNotKept
      <4>3. QED
        BY <2>7, <4>1, <4>2 DEF OpenNotKept
    <3>3. RecordTellsFate'
      BY <2>7, <2>8, <2>0 DEF RecordTellsFate, OpenNotKept, TakenOnce, Live
    <3>4. QED
      BY <3>1, <3>2, <3>3
  <2>5. AuditedIsOver' /\ AuditTellsFate'
    <3>1. AuditedIsOver'
      BY ZenonT(40), <2>7, <2>8, <2>0 DEF AuditedIsOver, TypeOK
    <3>2. AuditTellsFate'
      BY <2>7, <2>8, <2>0 DEF AuditTellsFate, AuditedIsOver, Live, TypeOK
    <3>3. QED
      BY <3>1, <3>2
  <2>6. QED
    BY <2>1, <2>2, <2>3, <2>4, <2>5
<1>12. ASSUME NEW a \in Answer, Cancel(a)
      PROVE  FateInv'
  <2> DEFINE t == answer[a].token
  <2>0. /\ t \in Request \ pending
        /\ req[t].pc = "shown"
        /\ \A b \in Answer : answer[b].pc = "taken" /\ answer[b].token = t => b = a
    BY <1>12 DEF Cancel, TakenOnce
  <2>7. /\ UNCHANGED <<req, pending, deadline, audit>>
        /\ answer[a].pc = "taken" /\ answer[a].kind = "cancel"
        /\ answer'[a].pc = "record" /\ answer'[a].kind = "cancel" /\ answer'[a].token = t
        /\ \A b \in Answer : b # a => answer'[b] = answer[b]
    BY <1>12, <2>0, EndEffect DEF Cancel, nmVars, TypeOK
  <2>8. \A q \in Request : \/ checkpoint'[q] = checkpoint[q]
                           \/ q = t /\ Live(q) /\ checkpoint'[q].status = "rolledback"
    <3>1. CASE CheckpointRollback(t)
      BY <3>1, <2>0, EndEffect DEF TypeOK
    <3>2. CASE UNCHANGED nmVars
      BY <3>2 DEF nmVars
    <3>3. QED
      BY <1>12, <3>1, <3>2 DEF Cancel
  <2>1. TypeOK' /\ HoldingTyped' /\ SnapshotsComplete'
    <3>1. NMTypeOK' /\ SnapshotsComplete'
      BY <1>12, <2>0, NMCallsTyped DEF Cancel, TypeOK
    <3>2. UNCHANGED <<req, pending, deadline, audit>> /\ confirmed' \in [Device -> Setting]
      BY <1>12, <2>0 DEF Cancel, TypeOK, HoldingTyped, Holding, Setting
    <3>3. answer' \in [Answer -> [pc : AnswerPC, kind : Kind \cup {None},
                                token : Request \cup {None}]]
      <4>1. PICK pc \in {"record", "done"} : answer' = [answer EXCEPT ![a].pc = pc]
        BY <1>12 DEF Cancel
      <4>2. QED
        BY <4>1 DEF TypeOK, AnswerPC
    <3>4. QED
      BY <3>1, <3>2, <3>3 DEF TypeOK, HoldingTyped
  <2>2. FreshBeforeCreate' /\ DestroyedWasShown'
    BY <2>7, <2>8, <2>0 DEF Live, TypeOK, NMTypeOK, FreshBeforeCreate,
       DestroyedWasShown
  <2>3. PendingWasApplied' /\ DeadlineAfterTimer'
    BY <1>12, <2>0, EndEffect, WindowAssumption DEF Cancel, nmVars, editVars, Live,
       TypeOK, NMTypeOK, Checkpoint, FreshBeforeCreate, PendingWasApplied,
       DeadlineAfterTimer, Answerable
  <2>4. TakenOnce' /\ OpenNotKept' /\ RecordTellsFate'
    <3>1. TakenOnce'
      BY <2>7, <2>8, <2>0 DEF TakenOnce
    <3>2. OpenNotKept'
      <4>1. \A q \in pending : checkpoint'[q].status # "destroyed"
        BY <2>7, <2>8, <2>0 DEF OpenNotKept, TypeOK
      <4>2. ASSUME NEW b \in Answer, answer'[b].pc = "taken"
            PROVE  checkpoint'[answer'[b].token].status # "destroyed"
        <5>1. b # a /\ answer'[b] = answer[b]
          BY <2>7, <4>2
        <5>2. answer[b].token \in Request /\ answer[b].token # t
          BY <2>0, <4>2, <5>1 DEF TakenOnce
        <5>3. QED
          BY <2>8, <4>2, <5>1, <5>2 DEF OpenNotKept
      <4>3. QED
        BY <2>7, <4>1, <4>2 DEF OpenNotKept
    <3>3. RecordTellsFate'
      BY <2>7, <2>8, <2>0 DEF RecordTellsFate, OpenNotKept, TakenOnce, Live
    <3>4. QED
      BY <3>1, <3>2, <3>3
  <2>5. AuditedIsOver' /\ AuditTellsFate'
    <3>1. AuditedIsOver'
      BY ZenonT(40), <2>7, <2>8, <2>0 DEF AuditedIsOver, TypeOK
    <3>2. AuditTellsFate'
      BY <2>7, <2>8, <2>0 DEF AuditTellsFate, AuditedIsOver, Live, TypeOK
    <3>3. QED
      BY <3>1, <3>2
  <2>6. QED
    BY <2>1, <2>2, <2>3, <2>4, <2>5
<1>13. ASSUME NEW a \in Answer, Record(a)
      PROVE  FateInv'
  <2>1. TypeOK' /\ HoldingTyped' /\ SnapshotsComplete'
    BY <1>13, NMCallsTyped, WindowAssumption DEF Record, AddAudit, TypeOK, HoldingTyped,
       Holding, RequestPC, AnswerPC, Kind, AuditRow, TakenOnce, nmVars, editVars,
       SnapshotsComplete
  <2>2. FreshBeforeCreate' /\ DestroyedWasShown'
    BY <1>13 DEF Record, nmVars, editVars, Live, TypeOK, NMTypeOK,
       FreshBeforeCreate, DestroyedWasShown
  <2>3. PendingWasApplied' /\ DeadlineAfterTimer'
    BY <1>13, WindowAssumption DEF Record, nmVars, editVars, Live, TypeOK, NMTypeOK,
       Checkpoint, FreshBeforeCreate, PendingWasApplied, DeadlineAfterTimer,
       Answerable
  <2>4. TakenOnce' /\ OpenNotKept' /\ RecordTellsFate'
    BY <1>13 DEF Record, nmVars, editVars, Live, TypeOK, NMTypeOK,
       FreshBeforeCreate, DestroyedWasShown, TakenOnce, OpenNotKept,
       RecordTellsFate, PendingWasApplied, Answerable, Kind
  <2>5. AuditedIsOver' /\ AuditTellsFate'
    BY <1>13 DEF Record, AddAudit, nmVars, editVars, Live, TypeOK, NMTypeOK, AuditedIsOver,
       AuditTellsFate, DestroyedWasShown, TakenOnce, RecordTellsFate,
       FreshBeforeCreate, PendingWasApplied, Answerable, Kind
  <2>6. QED
    BY <2>1, <2>2, <2>3, <2>4, <2>5
<1>14. ASSUME NEW r \in Request, Timeout(r)
      PROVE  FateInv'
  <2>8. \A q \in Request : \/ checkpoint'[q] = checkpoint[q]
                           \/ q = r /\ Live(q) /\ checkpoint'[q].status = "rolledback"
    BY <1>14, EndEffect DEF Timeout, CheckpointTimeout, TypeOK
  <2>7. UNCHANGED editVars
    BY <1>14 DEF Timeout
  <2>1. TypeOK' /\ HoldingTyped' /\ SnapshotsComplete'
    <3>1. NMTypeOK' /\ SnapshotsComplete'
      BY <1>14, NMCallsTyped DEF Timeout, CheckpointTimeout, TypeOK
    <3>2. UNCHANGED editVars
      BY <1>14 DEF Timeout
    <3>3. QED
      BY <3>1, <3>2 DEF editVars, TypeOK, HoldingTyped
  <2>2. FreshBeforeCreate' /\ DestroyedWasShown'
    BY <2>7, <2>8 DEF Live, editVars, TypeOK, NMTypeOK, FreshBeforeCreate,
       DestroyedWasShown
  <2>3. PendingWasApplied' /\ DeadlineAfterTimer'
    BY <1>14, EndEffect, WindowAssumption DEF Timeout, CheckpointTimeout, nmVars,
       editVars, Live, TypeOK, NMTypeOK, Checkpoint, FreshBeforeCreate,
       PendingWasApplied, DeadlineAfterTimer, Answerable
  <2>4. TakenOnce' /\ OpenNotKept' /\ RecordTellsFate'
    <3>1. TakenOnce'
      BY <2>7, <2>8 DEF TakenOnce, editVars
    <3>2. OpenNotKept'
      BY <2>7, <2>8 DEF OpenNotKept, TakenOnce, Live, TypeOK, editVars
    <3>3. RecordTellsFate'
      BY <2>7, <2>8 DEF RecordTellsFate, OpenNotKept, TakenOnce, Live, editVars
    <3>4. QED
      BY <3>1, <3>2, <3>3
  <2>5. AuditedIsOver' /\ AuditTellsFate'
    BY <2>7, <2>8 DEF Live, editVars, TypeOK, NMTypeOK, AuditedIsOver,
       AuditTellsFate, DestroyedWasShown, TakenOnce, RecordTellsFate,
       FreshBeforeCreate, PendingWasApplied, Answerable, Kind
  <2>6. QED
    BY <2>1, <2>2, <2>3, <2>4, <2>5
<1>15. ASSUME Tick
      PROVE  FateInv'
  <2>1. TypeOK' /\ HoldingTyped' /\ SnapshotsComplete'
    BY <1>15, NMCallsTyped, WindowAssumption DEF Tick, TypeOK, HoldingTyped,
       Holding, RequestPC, AnswerPC, Kind, AuditRow, TakenOnce, nmVars, editVars,
       SnapshotsComplete
  <2>2. FreshBeforeCreate' /\ DestroyedWasShown'
    BY <1>15 DEF Tick, CheckpointTick, nmVars, editVars, Live, TypeOK, NMTypeOK,
       FreshBeforeCreate, DestroyedWasShown
  <2>3. PendingWasApplied' /\ DeadlineAfterTimer'
    BY <1>15, WindowAssumption DEF Tick, CheckpointTick, nmVars, editVars, Live,
       TypeOK, NMTypeOK, Checkpoint, FreshBeforeCreate, PendingWasApplied,
       DeadlineAfterTimer, Answerable
  <2>4. TakenOnce' /\ OpenNotKept' /\ RecordTellsFate'
    BY <1>15 DEF Tick, CheckpointTick, nmVars, editVars, Live, TypeOK, NMTypeOK,
       FreshBeforeCreate, DestroyedWasShown, TakenOnce, OpenNotKept,
       RecordTellsFate, PendingWasApplied, Answerable, Kind
  <2>5. AuditedIsOver' /\ AuditTellsFate'
    BY <1>15 DEF Tick, CheckpointTick, nmVars, editVars, Live, TypeOK, NMTypeOK,
       AuditedIsOver, AuditTellsFate, DestroyedWasShown, TakenOnce, RecordTellsFate,
       FreshBeforeCreate, PendingWasApplied, Answerable, Kind
  <2>6. QED
    BY <2>1, <2>2, <2>3, <2>4, <2>5
<1>16. ASSUME Crash
      PROVE  FateInv'
  <2>1. TypeOK' /\ HoldingTyped' /\ SnapshotsComplete'
    BY <1>16, NMCallsTyped, WindowAssumption DEF Crash, Blank, TypeOK, HoldingTyped,
       Holding, RequestPC, AnswerPC, Kind, AuditRow, TakenOnce, nmVars, editVars,
       SnapshotsComplete
  <2>2. FreshBeforeCreate' /\ DestroyedWasShown'
    BY <1>16 DEF Crash, Blank, nmVars, editVars, Live, TypeOK, NMTypeOK,
       FreshBeforeCreate, DestroyedWasShown
  <2>3. PendingWasApplied' /\ DeadlineAfterTimer'
    BY <1>16, WindowAssumption DEF Crash, Blank, nmVars, editVars, Live, TypeOK,
       NMTypeOK, Checkpoint, FreshBeforeCreate, PendingWasApplied,
       DeadlineAfterTimer, Answerable
  <2>4. TakenOnce' /\ OpenNotKept' /\ RecordTellsFate'
    BY <1>16 DEF Crash, Blank, nmVars, editVars, Live, TypeOK, NMTypeOK,
       FreshBeforeCreate, DestroyedWasShown, TakenOnce, OpenNotKept,
       RecordTellsFate, PendingWasApplied, Answerable, Kind
  <2>5. AuditedIsOver' /\ AuditTellsFate'
    BY <1>16 DEF Crash, Blank, nmVars, editVars, Live, TypeOK, NMTypeOK,
       AuditedIsOver, AuditTellsFate, DestroyedWasShown, TakenOnce, RecordTellsFate,
       FreshBeforeCreate, PendingWasApplied, Answerable, Kind
  <2>6. QED
    BY <2>1, <2>2, <2>3, <2>4, <2>5
<1>17. ASSUME UNCHANGED vars
      PROVE  FateInv'
  <2>1. TypeOK' /\ HoldingTyped' /\ SnapshotsComplete'
    BY <1>17, NMCallsTyped, WindowAssumption DEF vars, TypeOK, HoldingTyped,
       Holding, RequestPC, AnswerPC, Kind, AuditRow, TakenOnce, nmVars, editVars,
       SnapshotsComplete
  <2>2. FreshBeforeCreate' /\ DestroyedWasShown'
    BY <1>17 DEF vars, nmVars, editVars, Live, TypeOK, NMTypeOK, FreshBeforeCreate,
       DestroyedWasShown
  <2>3. PendingWasApplied' /\ DeadlineAfterTimer'
    BY <1>17, WindowAssumption DEF vars, nmVars, editVars, Live, TypeOK, NMTypeOK,
       Checkpoint, FreshBeforeCreate, PendingWasApplied, DeadlineAfterTimer,
       Answerable
  <2>4. TakenOnce' /\ OpenNotKept' /\ RecordTellsFate'
    BY <1>17 DEF vars, nmVars, editVars, Live, TypeOK, NMTypeOK, FreshBeforeCreate,
       DestroyedWasShown, TakenOnce, OpenNotKept, RecordTellsFate,
       PendingWasApplied, Answerable, Kind
  <2>5. AuditedIsOver' /\ AuditTellsFate'
    BY <1>17 DEF vars, nmVars, editVars, Live, TypeOK, NMTypeOK, AuditedIsOver,
       AuditTellsFate, DestroyedWasShown, TakenOnce, RecordTellsFate,
       FreshBeforeCreate, PendingWasApplied, Answerable, Kind
  <2>6. QED
    BY <2>1, <2>2, <2>3, <2>4, <2>5
<1>18. QED
  BY <1>1, <1>2, <1>3, <1>4, <1>5, <1>6, <1>7, <1>8, <1>9, <1>10, <1>11, <1>12,
     <1>13, <1>14, <1>15, <1>16, <1>17 DEF Next, Apply, Reply

(* What the audit table and the server's deadline say about a change is    *)
(* true, for any number of requests, however slow the bus.                 *)
THEOREM FateCorrect == Spec => []FateInv
<1>1. Init => FateInv
  BY FateInit
<1>2. FateInv /\ [Next]_vars => FateInv'
  BY FateStep
<1>3. QED
  BY <1>1, <1>2, PTL DEF Spec

(* Every variable keeps its type. *)
THEOREM TypeCorrect == Spec => []TypeOK
<1>1. FateInv => TypeOK
  BY DEF FateInv
<1>2. QED
  BY <1>1, FateCorrect, PTL

(* The audit table never reports a fate the change did not have. *)
THEOREM AuditCorrect == Spec => []AuditTellsFate
<1>1. FateInv => AuditTellsFate
  BY DEF FateInv
<1>2. QED
  BY <1>1, FateCorrect, PTL

(* A token refused as expired belongs to a change NetworkManager has       *)
(* already rolled back.                                                    *)
THEOREM ExpiryCorrect == Spec => []ExpiredMeansReverted
<1>1. FateInv => ExpiredMeansReverted
  <2> SUFFICES ASSUME FateInv, NEW r \in pending, deadline[r] < 0, Live(r)
               PROVE  FALSE
    BY DEF ExpiredMeansReverted
  <2>1. r \in Request /\ deadline[r] \in Int
    BY WindowAssumption DEF FateInv, TypeOK
  <2>2. checkpoint[r].left \in 0..Window
    BY <2>1 DEF FateInv, TypeOK, NMTypeOK, Checkpoint
  <2>3. checkpoint[r].left <= deadline[r]
    BY DEF FateInv, DeadlineAfterTimer
  <2>4. QED
    BY <2>1, <2>2, <2>3, WindowAssumption
<1>2. QED
  BY <1>1, FateCorrect, PTL

----------------------------------------------------------------------------
(***************************************************************************)
(* The anti-lockout promise of ApplyIPv4 for every set of devices and      *)
(* requests: whatever fails, is lost, times out or crashes, a device with  *)
(* no live checkpoint has exactly what an operator last confirmed.  The    *)
(* one hypothesis is ~SlowBus: the two D-Bus calls after CheckpointCreate  *)
(* return before its timer is due.  With the same invariant, that the      *)
(* handlers implement ConfirmOrRevert, step by step.                       *)
(***************************************************************************)

(* The part of the invariant that does not mention the requests. *)
DevicesGuarded ==
    Exclusive(active) /\ LiveGuards /\ OnlyConfirmedSurvives

(* Only the device of the checkpoint is touched by a rollback, and it gets *)
(* back what was confirmed on it.                                          *)
LEMMA RollbackGuards ==
    ASSUME TypeOK, DevicesGuarded, NEW r \in Request, CheckpointRollback(r),
           UNCHANGED confirmed
    PROVE  /\ DevicesGuarded'
           /\ active' = active
           /\ Live(r)
           /\ \A q \in Request \ {r} : checkpoint'[q] = checkpoint[q]
           /\ ~Live(r)'
           /\ \A p \in Profile : p # checkpoint[r].profile => saved'[p] = saved[p]
           /\ \A d \in Device : d # checkpoint[r].dev =>
                  active[d] # checkpoint[r].profile /\ SettingOf(d)' = SettingOf(d)
<1> DEFINE cp == checkpoint[r]
<1>1. /\ Live(r) /\ cp.dev \in Device /\ cp.profile \in Profile
      /\ cp.profile = active[cp.dev] /\ cp.was = confirmed[cp.dev]
  BY DEF CheckpointRollback, DevicesGuarded, LiveGuards
<1>2. ~Live(r)' /\ \A q \in Request \ {r} : checkpoint'[q] = checkpoint[q]
  BY EndEffect DEF TypeOK, Live
<1>3. active' = active
  BY <1>1 DEF CheckpointRollback, TypeOK, NMTypeOK
<1>4. \A p \in Profile : saved'[p] = IF p = cp.profile THEN cp.was.saved ELSE saved[p]
  BY DEF CheckpointRollback
<1>5. \A d \in Device : applied'[d] = IF d = cp.dev THEN cp.was.applied ELSE applied[d]
  BY DEF CheckpointRollback, TypeOK, NMTypeOK
<1>6. ASSUME NEW d \in Device, d # cp.dev
      PROVE  active[d] # cp.profile /\ SettingOf(d)' = SettingOf(d)
  <2>1. active[d] # cp.profile
    BY <1>1, <1>6, NoneAssumption DEF DevicesGuarded, Exclusive
  <2>2. active[d] = None \/ active[d] \in Profile
    BY DEF TypeOK, NMTypeOK
  <2>3. QED
    BY <1>3, <1>4, <1>5, <1>6, <2>1, <2>2 DEF SettingOf
<1>7. ASSUME NEW d \in Device, d = cp.dev
      PROVE  SettingOf(d)' = confirmed[d]
  <2>1. confirmed[d] = [saved |-> cp.was.saved, applied |-> cp.was.applied]
    BY <1>1, <1>7 DEF TypeOK, Setting
  <2>2. SettingOf(d)' = [saved |-> cp.was.saved, applied |-> cp.was.applied]
    BY <1>1, <1>3, <1>4, <1>5, <1>7, NoneAssumption DEF SettingOf
  <2>3. QED
    BY <2>1, <2>2
<1>8. \A d \in Device : LiveOn(d)' = LiveOn(d) \ {r}
  BY <1>2 DEF LiveOn, Live
<1>9. LiveGuards'
  <2>1. ASSUME NEW q \in Request, Live(q)'
        PROVE  q # r /\ Live(q) /\ checkpoint'[q] = checkpoint[q]
    BY <1>2, <2>1 DEF Live
  <2>2. \A d \in Device : LiveOn(d)' \subseteq LiveOn(d)
    BY <1>8
  <2>3. QED
    BY <1>3, <2>1, <2>2 DEF DevicesGuarded, LiveGuards
<1>10. OnlyConfirmedSurvives'
  <2>1. SUFFICES ASSUME NEW d \in Device, LiveOn(d)' = {}
                 PROVE  SettingOf(d)' = confirmed[d]
    BY DEF OnlyConfirmedSurvives
  <2>2. CASE d = cp.dev
    BY <1>7, <2>2
  <2>3. CASE d # cp.dev
    <3>1. r \notin LiveOn(d)
      BY <2>3 DEF LiveOn
    <3>2. QED
      BY <1>6, <1>8, <2>1, <2>3, <3>1 DEF DevicesGuarded, OnlyConfirmedSurvives
  <2>4. QED
    BY <2>2, <2>3
<1>11. QED
  BY <1>1, <1>2, <1>3, <1>4, <1>6, <1>9, <1>10 DEF DevicesGuarded, Exclusive

(* The part of the invariant about the requests. *)
RequestsGuarded ==
    HoldingIsActive /\ OwnDevice /\ ChangingIsGuarded /\ AppliedIsSet

(* A rollback leaves alone every request but the checkpoint's own. *)
LEMMA RollbackRequests ==
    ASSUME GuardInv, NEW r \in Request, CheckpointRollback(r), UNCHANGED confirmed,
           ~Changing(r)',
           req'[r] = req[r] \/ req'[r].pc \notin Holding,
           \A q \in Request \ {r} : req'[q] = req[q]
    PROVE  DevicesGuarded' /\ RequestsGuarded'
<1> DEFINE cp == checkpoint[r]
<1>1. TypeOK /\ DevicesGuarded /\ HoldingTyped
  BY DEF GuardInv, FateInv, DevicesGuarded
<1>2. /\ DevicesGuarded'
      /\ active' = active
      /\ Live(r)
      /\ \A q \in Request \ {r} : checkpoint'[q] = checkpoint[q]
      /\ ~Live(r)'
      /\ \A p \in Profile : p # cp.profile => saved'[p] = saved[p]
      /\ \A d \in Device : d # cp.dev =>
             active[d] # cp.profile /\ SettingOf(d)' = SettingOf(d)
  BY <1>1, RollbackGuards
<1>3. HoldingIsActive'
  BY <1>2 DEF GuardInv, HoldingIsActive
<1>4. ASSUME NEW q \in Request, Live(q)'
      PROVE  q # r /\ Live(q) /\ req'[q] = req[q] /\ checkpoint'[q] = checkpoint[q]
  BY <1>2, <1>4 DEF Live
<1>5. OwnDevice'
  BY <1>4 DEF GuardInv, OwnDevice
<1>6. ChangingIsGuarded'
  BY <1>2 DEF GuardInv, ChangingIsGuarded, Changing, Live
<1>7. ASSUME NEW q \in Request, Live(q)', req[q].pc \in Holding
      PROVE  /\ saved'[req[q].profile] = saved[req[q].profile]
             /\ \A d \in Device : d = req[q].dev => SettingOf(d)' = SettingOf(d)
  <2>1. /\ req[q].dev \in Device /\ req[q].profile \in Profile
        /\ req[q].profile = active[req[q].dev]
    BY <1>1, <1>7 DEF HoldingTyped, GuardInv, HoldingIsActive
  <2>2. req[q].dev # cp.dev
    <3>1. checkpoint[q].dev = req[q].dev
      BY <1>4, <1>7 DEF GuardInv, OwnDevice
    <3>2. q \in LiveOn(req[q].dev) /\ q # r
      BY <1>4, <1>7, <3>1 DEF LiveOn
    <3>3. QED
      BY <1>2, <3>2 DEF GuardInv, LiveGuards, LiveOn
  <2>3. QED
    BY <1>2, <2>1, <2>2
<1>8. AppliedIsSet'
  <2>1. ASSUME NEW q \in Request, Live(q)', req'[q].pc = "updated"
        PROVE  saved'[req'[q].profile] = req'[q].cfg
    BY <1>4, <1>7, <2>1 DEF GuardInv, AppliedIsSet, Holding
  <2>2. ASSUME NEW q \in Request, Live(q)', req'[q].pc \in {"applied", "registered", "shown"}
        PROVE  SettingOf(req[q].dev)' = [saved |-> req'[q].cfg, applied |-> req'[q].cfg]
    <3>1. req[q].pc \in Holding /\ req'[q] = req[q]
      BY <1>4, <2>2 DEF Holding
    <3>2. PICK d \in Device : d = req[q].dev
      BY <1>1, <3>1 DEF HoldingTyped
    <3>3. SettingOf(d)' = [saved |-> req[q].cfg, applied |-> req[q].cfg]
      BY <1>4, <1>7, <2>2, <3>1, <3>2 DEF GuardInv, AppliedIsSet
    <3>4. QED
      BY <3>1, <3>2, <3>3
  <2>3. QED
    BY <2>1, <2>2 DEF AppliedIsSet
<1>9. QED
  BY <1>2, <1>3, <1>5, <1>6, <1>8 DEF RequestsGuarded

(* A step that leaves a request its device, profile and configuration. *)
SameGoal(q) ==
    /\ req'[q].dev = req[q].dev
    /\ req'[q].profile = req[q].profile
    /\ req'[q].cfg = req[q].cfg

(* A step that leaves NetworkManager alone keeps the invariant when every  *)
(* request it moves stays within what its checkpoint allows.               *)
LEMMA QuietStep ==
    ASSUME GuardInv, UNCHANGED nmVars, UNCHANGED confirmed,
           \A q \in Request :
               \/ req'[q] = req[q]
               \/ req'[q].pc \notin Holding
               \/ /\ req[q].pc = "idle" /\ checkpoint[q].status = "none"
                  /\ req'[q].pc = "begun" /\ req'[q].profile = active[req'[q].dev]
               \/ /\ req[q].pc \in Holding /\ req'[q].pc = "undo" /\ SameGoal(q)
               \/ /\ req[q].pc \in {"applied", "registered"}
                  /\ req'[q].pc \in {"registered", "shown"}
                  /\ SameGoal(q)
    PROVE  DevicesGuarded' /\ RequestsGuarded'
<1>1. /\ \A d \in Device : SettingOf(d)' = SettingOf(d) /\ LiveOn(d)' = LiveOn(d)
      /\ UNCHANGED <<saved, active, applied, checkpoint>>
  BY DEF nmVars, SettingOf, LiveOn, Live
<1>2. DevicesGuarded'
  BY <1>1 DEF GuardInv, DevicesGuarded, Exclusive, LiveGuards, OnlyConfirmedSurvives, Live
<1>3. \A q \in Request : req'[q].pc \in Holding =>
          \/ req'[q] = req[q]
          \/ /\ checkpoint[q].status = "none"
             /\ req'[q].pc = "begun" /\ req'[q].profile = active[req'[q].dev]
          \/ /\ req[q].pc \in Holding /\ SameGoal(q)
             /\ \/ req'[q].pc = "undo"
                \/ /\ req[q].pc \in {"applied", "registered"}
                   /\ req'[q].pc \in {"registered", "shown"}
  BY DEF Holding
<1>4. HoldingIsActive'
  BY <1>1, <1>3 DEF GuardInv, HoldingIsActive, SameGoal
<1>5. OwnDevice'
  BY <1>1, <1>3 DEF GuardInv, OwnDevice, Live, SameGoal
<1>6. ChangingIsGuarded'
  BY <1>1, <1>3 DEF GuardInv, ChangingIsGuarded, Changing, Live, Holding
<1>7. AppliedIsSet'
  <2>1. ASSUME NEW q \in Request, Live(q)', req'[q].pc = "updated"
        PROVE  saved'[req'[q].profile] = req'[q].cfg
    BY <1>1, <1>3, <2>1 DEF GuardInv, AppliedIsSet, Holding, Live
  <2>2. ASSUME NEW q \in Request, Live(q)', req'[q].pc \in {"applied", "registered", "shown"}
        PROVE  SettingOf(req[q].dev)' = [saved |-> req'[q].cfg, applied |-> req'[q].cfg]
    <3>1. /\ req[q].pc \in {"applied", "registered", "shown"}
          /\ req'[q].dev = req[q].dev /\ req'[q].cfg = req[q].cfg /\ Live(q)
      BY <1>1, <1>3, <2>2 DEF Holding, Live, SameGoal
    <3>2. PICK d \in Device : d = req[q].dev
      BY <3>1 DEF GuardInv, FateInv, HoldingTyped, Holding
    <3>3. SettingOf(d)' = [saved |-> req[q].cfg, applied |-> req[q].cfg]
      BY <1>1, <3>1, <3>2 DEF GuardInv, AppliedIsSet
    <3>4. QED
      BY <3>1, <3>2, <3>3
  <2>3. QED
    BY <2>1, <2>2 DEF AppliedIsSet
<1>8. QED
  BY <1>2, <1>4, <1>5, <1>6, <1>7 DEF RequestsGuarded

(* The device a request changes is its own: no other live checkpoint or   *)
(* request holds that device or its profile.                               *)
LEMMA ChangingIsAlone ==
    ASSUME GuardInv, NEW r \in Request, Changing(r)
    PROVE  /\ Live(r) /\ checkpoint[r].dev = req[r].dev
           /\ req[r].dev \in Device /\ req[r].profile \in Profile
           /\ req[r].cfg \in Config /\ req[r].profile = active[req[r].dev]
           /\ \A q \in Request \ {r} : Live(q) =>
                  /\ checkpoint[q].dev \in Device \ {req[r].dev}
                  /\ active[checkpoint[q].dev] # req[r].profile
           /\ \A q \in Request \ {r} : Live(q) /\ req[q].pc \in Holding =>
                  /\ req[q].dev = checkpoint[q].dev
                  /\ req[q].profile # req[r].profile
           /\ \A d \in Device \ {req[r].dev} : active[d] # req[r].profile
<1>1. /\ Live(r) /\ checkpoint[r].dev = req[r].dev
      /\ req[r].dev \in Device /\ req[r].profile \in Profile
      /\ req[r].cfg \in Config /\ req[r].profile = active[req[r].dev]
  BY DEF GuardInv, FateInv, ChangingIsGuarded, OwnDevice, HoldingTyped, HoldingIsActive,
         Changing, Holding
<1>2. \A d \in Device \ {req[r].dev} : active[d] # req[r].profile
  BY <1>1, NoneAssumption DEF GuardInv, Exclusive
<1>3. ASSUME NEW q \in Request \ {r}, Live(q)
      PROVE  checkpoint[q].dev \in Device \ {req[r].dev}
  <2>1. checkpoint[q].dev \in Device
    BY <1>3 DEF GuardInv, LiveGuards
  <2>2. r \in LiveOn(req[r].dev) /\ (checkpoint[q].dev = req[r].dev => q \in LiveOn(req[r].dev))
    BY <1>1, <1>3 DEF LiveOn
  <2>3. QED
    BY <1>1, <1>3, <2>1, <2>2 DEF GuardInv, LiveGuards
<1>4. QED
  BY <1>1, <1>2, <1>3 DEF GuardInv, OwnDevice, HoldingIsActive

(* The steps that change a device keep the rest of the invariant.          *)
LEMMA GuardCreate ==
    ASSUME GuardInv, NEW r \in Request, RequestAt(r, "begun"),
           CheckpointCreate(r, req[r].dev), Goto(r, {"created", "failing"}),
           UNCHANGED confirmed
    PROVE  DevicesGuarded' /\ RequestsGuarded'
<1> DEFINE dv == req[r].dev
<1>1. /\ dv \in Device /\ req[r].profile \in Profile
      /\ req[r].profile = active[dv] /\ checkpoint[r].status = "none"
  BY DEF RequestAt, GuardInv, FateInv, HoldingTyped, HoldingIsActive, Holding, FreshBeforeCreate
<1>2. /\ UNCHANGED <<saved, active, applied>>
      /\ LiveOn(dv) = {}
      /\ \A q \in Request \ {r} : checkpoint'[q] = checkpoint[q]
      /\ checkpoint'[r] = [status |-> "live", dev |-> dv, profile |-> active[dv],
                           was |-> SettingOf(dv), left |-> Window]
  BY DEF CheckpointCreate, GuardInv, FateInv, TypeOK, NMTypeOK
<1>3. /\ \A q \in Request \ {r} : req'[q] = req[q]
      /\ SameGoal(r) /\ req'[r].pc \in {"created", "failing"}
  <2>1. PICK pc \in {"created", "failing"} : req' = [req EXCEPT ![r].pc = pc]
    BY DEF Goto
  <2>2. QED
    BY <2>1 DEF GuardInv, FateInv, TypeOK, SameGoal
<1>4. \A d \in Device : SettingOf(d)' = SettingOf(d)
  BY <1>2 DEF SettingOf
<1>5. ASSUME NEW q \in Request, Live(q)'
      PROVE  q = r \/ (Live(q) /\ checkpoint'[q] = checkpoint[q])
  BY <1>2, <1>5 DEF Live
<1>6. ASSUME NEW q \in Request, q # r, Live(q)
      PROVE  checkpoint[q].dev # dv
  BY <1>2, <1>6 DEF LiveOn
<1>7. LiveGuards'
  <2>1. SettingOf(dv) = confirmed[dv]
    BY <1>1, <1>2 DEF GuardInv, OnlyConfirmedSurvives
  <2>2. ASSUME NEW q \in Request, Live(q)', NEW p \in Request, Live(p)',
               checkpoint'[p].dev = checkpoint'[q].dev
        PROVE  p = q
    <3>1. CASE p # r /\ q # r
      BY <1>5, <2>2, <3>1 DEF GuardInv, LiveGuards, LiveOn
    <3>2. CASE p = r \/ q = r
      BY <1>2, <1>5, <1>6, <2>2, <3>2
    <3>3. QED
      BY <3>1, <3>2
  <2>3. \A q \in Request : Live(q)' => \A p \in LiveOn(checkpoint[q].dev)' : p = q
    BY <2>2 DEF LiveOn
  <2>4. QED
    BY <1>1, <1>2, <1>5, <2>1, <2>3 DEF GuardInv, LiveGuards
<1>8. OnlyConfirmedSurvives'
  <2>1. SUFFICES ASSUME NEW d \in Device, LiveOn(d)' = {}
                 PROVE  SettingOf(d)' = confirmed'[d]
    BY DEF OnlyConfirmedSurvives
  <2>2. LiveOn(d) = {}
    <3>1. ASSUME NEW q \in LiveOn(d)
          PROVE  q \in LiveOn(d)'
      BY <1>1, <1>2, <3>1 DEF LiveOn, Live
    <3>2. QED
      BY <2>1, <3>1
  <2>3. QED
    BY <1>4, <2>2 DEF GuardInv, OnlyConfirmedSurvives
<1>9. HoldingIsActive' /\ OwnDevice'
  <2>1. HoldingIsActive'
    BY <1>1, <1>2, <1>3 DEF GuardInv, HoldingIsActive, SameGoal
  <2>2. ASSUME NEW q \in Request, Live(q)', req'[q].pc \in Holding
        PROVE  checkpoint'[q].dev = req'[q].dev
    <3>1. CASE q = r
      BY <1>2, <1>3, <3>1 DEF SameGoal
    <3>2. CASE q # r
      BY <1>3, <1>5, <2>2, <3>2 DEF GuardInv, OwnDevice
    <3>3. QED
      BY <3>1, <3>2
  <2>3. QED
    BY <2>1, <2>2 DEF OwnDevice
<1>10. ChangingIsGuarded'
  BY <1>2, <1>3, WindowAssumption DEF GuardInv, ChangingIsGuarded, Changing, Live
<1>11. AppliedIsSet'
  <2>1. ASSUME NEW q \in Request, Live(q)', req'[q].pc = "updated"
        PROVE  saved'[req'[q].profile] = req'[q].cfg
    BY <1>2, <1>3, <1>5, <2>1 DEF GuardInv, AppliedIsSet
  <2>2. ASSUME NEW q \in Request, Live(q)', req'[q].pc \in {"applied", "registered", "shown"}
        PROVE  SettingOf(req[q].dev)' = [saved |-> req'[q].cfg, applied |-> req'[q].cfg]
    <3>1. q # r /\ Live(q) /\ req'[q] = req[q]
      BY <1>3, <1>5, <2>2
    <3>2. PICK d \in Device : d = req[q].dev
      BY <2>2, <3>1 DEF GuardInv, FateInv, HoldingTyped, Holding
    <3>3. SettingOf(d)' = [saved |-> req[q].cfg, applied |-> req[q].cfg]
      BY <1>4, <2>2, <3>1, <3>2 DEF GuardInv, AppliedIsSet
    <3>4. QED
      BY <3>1, <3>2, <3>3
  <2>3. QED
    BY <2>1, <2>2 DEF AppliedIsSet
<1>12. QED
  BY <1>2, <1>7, <1>8, <1>9, <1>10, <1>11 DEF DevicesGuarded, RequestsGuarded, GuardInv, Exclusive

(* Update and ActivateConnection touch the request's own device and        *)
(* profile, which its live checkpoint holds.                               *)
LEMMA GuardChange ==
    ASSUME GuardInv, NEW r \in Request, Changing(r),
           UNCHANGED <<active, checkpoint, confirmed>>,
           \A p \in Profile \ {req[r].profile} : saved'[p] = saved[p],
           \A d \in Device \ {req[r].dev} : applied'[d] = applied[d],
           \A q \in Request \ {r} : req'[q] = req[q],
           SameGoal(r),
           \/ req'[r].pc = "undo"
           \/ req'[r].pc = "updated" /\ saved'[req[r].profile] = req[r].cfg
           \/ /\ req'[r].pc = "applied"
              /\ saved'[req[r].profile] = req[r].cfg
              /\ applied'[req[r].dev] = req[r].cfg
    PROVE  DevicesGuarded' /\ RequestsGuarded'
<1> DEFINE dv == req[r].dev
<1> DEFINE pf == req[r].profile
<1>1. /\ Live(r) /\ checkpoint[r].dev = dv
      /\ dv \in Device /\ pf \in Profile /\ req[r].cfg \in Config /\ pf = active[dv]
      /\ \A q \in Request \ {r} : Live(q) /\ req[q].pc \in Holding =>
             /\ req[q].dev = checkpoint[q].dev
             /\ req[q].profile # pf
      /\ \A q \in Request \ {r} : Live(q) => checkpoint[q].dev \in Device \ {dv}
      /\ \A d \in Device \ {dv} : active[d] # pf
  BY ChangingIsAlone
<1>2. ASSUME NEW d \in Device \ {dv}
      PROVE  SettingOf(d)' = SettingOf(d)
  <2>1. active[d] = None \/ active[d] \in Profile \ {pf}
    BY <1>1 DEF GuardInv, FateInv, TypeOK, NMTypeOK
  <2>2. QED
    BY <2>1 DEF SettingOf
<1>3. \A q \in Request : Live(q)' = Live(q)
  BY DEF Live
<1>4. \A d \in Device : LiveOn(d)' = LiveOn(d)
  BY DEF LiveOn, Live
<1>5. LiveGuards'
  BY <1>3, <1>4 DEF GuardInv, LiveGuards
<1>6. r \in LiveOn(dv)
  BY <1>1 DEF LiveOn
<1>7. OnlyConfirmedSurvives'
  <2>1. SUFFICES ASSUME NEW d \in Device, LiveOn(d)' = {}
                 PROVE  SettingOf(d)' = confirmed'[d]
    BY DEF OnlyConfirmedSurvives
  <2>2. d # dv
    BY <1>4, <1>6, <2>1
  <2>3. QED
    BY <1>2, <1>4, <2>1, <2>2 DEF GuardInv, OnlyConfirmedSurvives
<1>8. HoldingIsActive'
  <2>1. ASSUME NEW q \in Request, req'[q].pc \in Holding
        PROVE  req'[q].profile = active[req'[q].dev]
    <3>1. CASE q = r
      BY <1>1, <3>1 DEF SameGoal
    <3>2. CASE q # r
      BY <2>1, <3>2 DEF GuardInv, HoldingIsActive
    <3>3. QED
      BY <3>1, <3>2
  <2>2. QED
    BY <2>1 DEF HoldingIsActive
<1>9. OwnDevice'
  <2>1. ASSUME NEW q \in Request, Live(q), req'[q].pc \in Holding
        PROVE  checkpoint[q].dev = req'[q].dev
    <3>1. CASE q = r
      BY <1>1, <3>1 DEF SameGoal
    <3>2. CASE q # r
      BY <2>1, <3>2 DEF GuardInv, OwnDevice
    <3>3. QED
      BY <3>1, <3>2
  <2>2. QED
    BY <1>3, <2>1 DEF OwnDevice
<1>10. ChangingIsGuarded'
  <2>1. ASSUME NEW q \in Request, req'[q].pc \in {"created", "updated"}
        PROVE  Live(q) /\ checkpoint[q].left > 0
    <3>1. CASE q = r
      BY <3>1 DEF GuardInv, ChangingIsGuarded
    <3>2. CASE q # r
      BY <2>1, <3>2 DEF GuardInv, ChangingIsGuarded, Changing
    <3>3. QED
      BY <3>1, <3>2
  <2>2. QED
    BY <1>3, <2>1 DEF ChangingIsGuarded, Changing
<1>11. AppliedIsSet'
  <2>1. ASSUME NEW q \in Request, Live(q), req'[q].pc = "updated"
        PROVE  saved'[req'[q].profile] = req'[q].cfg
    <3>1. CASE q = r
      BY <1>1, <2>1, <3>1 DEF SameGoal
    <3>2. CASE q # r
      <4>1. req'[q] = req[q] /\ req[q].pc \in Holding
        BY <2>1, <3>2 DEF Holding
      <4>2. req[q].profile \in Profile \ {pf}
        BY <1>1, <2>1, <3>2, <4>1 DEF GuardInv, FateInv, HoldingTyped
      <4>3. QED
        BY ZenonT(40), <2>1, <4>1, <4>2 DEF GuardInv, AppliedIsSet
    <3>3. QED
      BY <3>1, <3>2
  <2>2. ASSUME NEW q \in Request, Live(q), req'[q].pc \in {"applied", "registered", "shown"}
        PROVE  SettingOf(req[q].dev)' = [saved |-> req'[q].cfg, applied |-> req'[q].cfg]
    <3>1. CASE q = r
      <4>1. /\ req'[r].pc = "applied" /\ req'[r].cfg = req[r].cfg /\ req'[r].dev = dv
            /\ saved'[pf] = req[r].cfg /\ applied'[dv] = req[r].cfg
        BY <2>2, <3>1 DEF SameGoal
      <4>2. PICK d \in Device : d = dv
        BY <1>1
      <4>3. active'[d] = pf /\ pf # None
        BY <1>1, <4>2, NoneAssumption
      <4>4. SettingOf(d)' = [saved |-> req[r].cfg, applied |-> req[r].cfg]
        BY <4>1, <4>2, <4>3 DEF SettingOf
      <4>5. req'[q].dev = d /\ req[q].dev = d /\ req'[q].cfg = req[r].cfg
        BY <3>1, <4>1, <4>2
      <4>6. QED
        BY <4>4, <4>5
    <3>2. CASE q # r
      <4>1. req'[q] = req[q] /\ req[q].pc \in Holding
        BY <2>2, <3>2 DEF Holding
      <4>2. req[q].dev \in Device \ {dv}
        BY <1>1, <2>2, <3>2, <4>1
      <4>3. PICK d \in Device \ {dv} : d = req[q].dev
        BY <4>2
      <4>4. SettingOf(d) = [saved |-> req[q].cfg, applied |-> req[q].cfg]
        BY <2>2, <4>1, <4>3 DEF GuardInv, AppliedIsSet
      <4>5. QED
        BY <1>2, <4>1, <4>3, <4>4
    <3>3. QED
      BY <3>1, <3>2
  <2>3. QED
    BY <1>3, <2>1, <2>2 DEF AppliedIsSet
<1>12. QED
  BY <1>5, <1>7, <1>8, <1>9, <1>10, <1>11 DEF DevicesGuarded, RequestsGuarded, GuardInv, Exclusive

(* Destroying the checkpoint of a shown change makes what the device has   *)
(* what its operator confirmed.                                            *)
LEMMA GuardConfirm ==
    ASSUME GuardInv, NEW t \in Request, req[t].pc = "shown", CheckpointDestroy(t),
           confirmed' = [confirmed EXCEPT ![req[t].dev] =
                             [saved |-> req[t].cfg, applied |-> req[t].cfg]],
           UNCHANGED req
    PROVE  DevicesGuarded' /\ RequestsGuarded'
<1> DEFINE dv == req[t].dev
<1>1. /\ UNCHANGED <<saved, active, applied>>
      /\ Live(t) /\ ~Live(t)'
      /\ \A q \in Request \ {t} : checkpoint'[q] = checkpoint[q]
  BY EndEffect DEF CheckpointDestroy, GuardInv, FateInv, TypeOK, Live
<1>2. dv \in Device /\ checkpoint[t].dev = dv
  BY <1>1 DEF GuardInv, FateInv, HoldingTyped, OwnDevice, Holding
<1>3. /\ \A d \in Device \ {dv} : confirmed'[d] = confirmed[d]
      /\ confirmed'[dv] = [saved |-> req[t].cfg, applied |-> req[t].cfg]
  BY <1>2 DEF GuardInv, FateInv, TypeOK
<1>4. \A d \in Device : SettingOf(d)' = SettingOf(d)
  BY <1>1 DEF SettingOf
<1>5. ASSUME NEW q \in Request, Live(q)'
      PROVE  /\ q # t /\ Live(q) /\ checkpoint'[q] = checkpoint[q]
             /\ checkpoint[q].dev \in Device \ {dv}
  <2>1. q # t /\ Live(q) /\ checkpoint'[q] = checkpoint[q]
    BY <1>1, <1>5 DEF Live
  <2>2. t \in LiveOn(dv) /\ (checkpoint[q].dev = dv => q \in LiveOn(dv))
    BY <1>1, <1>2, <2>1 DEF LiveOn
  <2>3. QED
    BY <1>2, <2>1, <2>2 DEF GuardInv, LiveGuards
<1>6. LiveGuards'
  <2>1. \A d \in Device : LiveOn(d)' \subseteq LiveOn(d)
    BY <1>5 DEF LiveOn
  <2>2. QED
    BY <1>1, <1>3, <1>5, <2>1 DEF GuardInv, LiveGuards
<1>7. OnlyConfirmedSurvives'
  <2>1. SUFFICES ASSUME NEW d \in Device, LiveOn(d)' = {}
                 PROVE  SettingOf(d)' = confirmed'[d]
    BY DEF OnlyConfirmedSurvives
  <2>2. CASE d = dv
    BY <1>1, <1>3, <1>4, <2>2 DEF GuardInv, AppliedIsSet
  <2>3. CASE d # dv
    <3>1. ASSUME NEW q \in LiveOn(d)
          PROVE  q \in LiveOn(d)'
      BY <1>1, <1>2, <2>3, <3>1 DEF LiveOn, Live
    <3>2. QED
      BY <1>3, <1>4, <2>1, <2>3, <3>1 DEF GuardInv, OnlyConfirmedSurvives
  <2>4. QED
    BY <2>2, <2>3
<1>8. HoldingIsActive' /\ OwnDevice'
  BY <1>1, <1>5 DEF GuardInv, HoldingIsActive, OwnDevice
<1>9. ChangingIsGuarded'
  BY <1>1 DEF GuardInv, ChangingIsGuarded, Changing, Live
<1>10. AppliedIsSet'
  <2>1. ASSUME NEW q \in Request, Live(q)', req[q].pc = "updated"
        PROVE  saved'[req[q].profile] = req[q].cfg
    BY <1>1, <1>5, <2>1 DEF GuardInv, AppliedIsSet
  <2>2. ASSUME NEW q \in Request, Live(q)', req[q].pc \in {"applied", "registered", "shown"}
        PROVE  SettingOf(req[q].dev)' = [saved |-> req[q].cfg, applied |-> req[q].cfg]
    <3>1. PICK d \in Device : d = req[q].dev
      BY <2>2 DEF GuardInv, FateInv, HoldingTyped, Holding
    <3>2. SettingOf(d)' = [saved |-> req[q].cfg, applied |-> req[q].cfg]
      BY <1>4, <1>5, <2>2, <3>1 DEF GuardInv, AppliedIsSet
    <3>3. QED
      BY <3>1, <3>2
  <2>3. QED
    BY <2>1, <2>2 DEF AppliedIsSet
<1>11. QED
  BY <1>1, <1>6, <1>7, <1>8, <1>9, <1>10 DEF DevicesGuarded, RequestsGuarded, GuardInv, Exclusive

(* The clock moves the timers only, and never makes the timer of a running *)
(* change due.                                                             *)
LEMMA GuardTick ==
    ASSUME GuardInv, Tick, ~SlowBus
    PROVE  DevicesGuarded' /\ RequestsGuarded'
<1>1. /\ UNCHANGED <<saved, active, applied, req, confirmed>>
      /\ \A q \in Request :
             checkpoint'[q] = IF Live(q) THEN [checkpoint[q] EXCEPT !.left = @ - 1]
                              ELSE checkpoint[q]
      /\ \A q \in Request : Changing(q) => checkpoint[q].left > 1
  BY DEF Tick, CheckpointTick
<1>2. \A q \in Request :
          /\ checkpoint'[q].status = checkpoint[q].status
          /\ checkpoint'[q].dev = checkpoint[q].dev
          /\ checkpoint'[q].profile = checkpoint[q].profile
          /\ checkpoint'[q].was = checkpoint[q].was
          /\ Live(q) => checkpoint'[q].left = checkpoint[q].left - 1
  BY <1>1 DEF GuardInv, FateInv, TypeOK, NMTypeOK, Checkpoint
<1>3. \A q \in Request : Live(q)' = Live(q)
  BY <1>2 DEF Live
<1>4. \A d \in Device : SettingOf(d)' = SettingOf(d) /\ LiveOn(d)' = LiveOn(d)
  BY <1>1, <1>2, <1>3 DEF SettingOf, LiveOn
<1>5. DevicesGuarded'
  <2>1. LiveGuards'
    BY <1>1, <1>2, <1>3, <1>4 DEF GuardInv, LiveGuards
  <2>2. OnlyConfirmedSurvives'
    BY <1>1, <1>4 DEF GuardInv, OnlyConfirmedSurvives
  <2>3. QED
    BY <1>1, <2>1, <2>2 DEF DevicesGuarded, GuardInv, Exclusive
<1>6. HoldingIsActive' /\ OwnDevice'
  BY <1>1, <1>2, <1>3 DEF GuardInv, HoldingIsActive, OwnDevice
<1>7. ChangingIsGuarded'
  <2>1. ASSUME NEW q \in Request, Changing(q)
        PROVE  Live(q) /\ checkpoint'[q].left > 0
    <3>1. checkpoint[q].left \in 0..Window /\ checkpoint[q].left > 1 /\ Live(q)
      BY <1>1, <2>1 DEF GuardInv, FateInv, TypeOK, NMTypeOK, Checkpoint, ChangingIsGuarded
    <3>2. QED
      BY <1>2, <3>1, WindowAssumption
  <2>2. QED
    BY <1>1, <1>3, <2>1 DEF ChangingIsGuarded, Changing
<1>8. AppliedIsSet'
  <2>1. ASSUME NEW q \in Request, Live(q)', req[q].pc = "updated"
        PROVE  saved'[req[q].profile] = req[q].cfg
    BY <1>1, <1>3, <2>1 DEF GuardInv, AppliedIsSet
  <2>2. ASSUME NEW q \in Request, Live(q)', req[q].pc \in {"applied", "registered", "shown"}
        PROVE  SettingOf(req[q].dev)' = [saved |-> req[q].cfg, applied |-> req[q].cfg]
    <3>1. PICK d \in Device : d = req[q].dev
      BY <2>2 DEF GuardInv, FateInv, HoldingTyped, Holding
    <3>2. SettingOf(d)' = [saved |-> req[q].cfg, applied |-> req[q].cfg]
      BY <1>3, <1>4, <2>2, <3>1 DEF GuardInv, AppliedIsSet
    <3>3. QED
      BY <1>1, <3>1, <3>2
  <2>3. QED
    BY <1>1, <2>1, <2>2 DEF AppliedIsSet
<1>9. QED
  BY <1>5, <1>6, <1>7, <1>8 DEF RequestsGuarded

LEMMA GuardInit == Init => GuardInv
<1> SUFFICES ASSUME Init PROVE GuardInv
  OBVIOUS
<1>1. FateInv
  BY FateInit
<1>2. /\ \A r \in Request : req[r].pc = "idle" /\ ~Live(r)
      /\ \A d \in Device : confirmed[d] = SettingOf(d)
  BY DEF Init, NMInit, Blank, NoCheckpoint, Live
<1>3. Exclusive(active)
  BY DEF Init, NMInit
<1>4. HoldingIsActive /\ LiveGuards /\ OwnDevice
  BY <1>2 DEF HoldingIsActive, LiveGuards, OwnDevice, Holding
<1>5. ChangingIsGuarded /\ AppliedIsSet /\ OnlyConfirmedSurvives
  BY <1>2 DEF ChangingIsGuarded, Changing, AppliedIsSet, OnlyConfirmedSurvives
<1>6. QED
  BY <1>1, <1>3, <1>4, <1>5 DEF GuardInv

LEMMA GuardStep == ~SlowBus /\ GuardInv /\ [Next]_vars => GuardInv'
<1> SUFFICES ASSUME ~SlowBus, GuardInv, [Next]_vars
             PROVE  DevicesGuarded' /\ RequestsGuarded'
  BY FateStep DEF GuardInv, DevicesGuarded, RequestsGuarded
<1>1. TypeOK
  BY DEF GuardInv, FateInv
<1>2. ASSUME NEW r \in Request, NEW pcs, Goto(r, pcs)
      PROVE  /\ \A q \in Request \ {r} : req'[q] = req[q]
             /\ req'[r].pc \in pcs /\ SameGoal(r)
  <2>1. PICK pc \in pcs : req' = [req EXCEPT ![r].pc = pc]
    BY <1>2 DEF Goto
  <2>2. QED
    BY <1>1, <2>1 DEF TypeOK, SameGoal
<1>3. ASSUME NEW r \in Request, NEW d \in Device, NEW c \in Config, Begin(r, d, c)
      PROVE  DevicesGuarded' /\ RequestsGuarded'
  <2>1. /\ req[r].pc = "idle" /\ checkpoint[r].status = "none"
        /\ req'[r].pc = "begun" /\ req'[r].profile = active[req'[r].dev]
        /\ \A q \in Request \ {r} : req'[q] = req[q]
    BY <1>1, <1>3 DEF Begin, RequestAt, TypeOK, GuardInv, FateInv, FreshBeforeCreate
  <2>2. UNCHANGED nmVars /\ UNCHANGED confirmed
    BY <1>3 DEF Begin
  <2>3. QED
    BY <2>1, <2>2, QuietStep
<1>4. ASSUME NEW r \in Request, NEW pcs, Goto(r, pcs), UNCHANGED nmVars, UNCHANGED confirmed,
             \/ pcs \cap Holding = {}
             \/ req[r].pc \in Holding /\ pcs = {"undo"}
             \/ req[r].pc \in {"applied", "registered"} /\ pcs \subseteq {"registered", "shown"}
      PROVE  DevicesGuarded' /\ RequestsGuarded'
  <2>1. \A q \in Request \ {r} : req'[q] = req[q]
    BY <1>2, <1>4
  <2>2. req'[r].pc \in pcs /\ SameGoal(r)
    BY <1>2, <1>4
  <2>3. \/ req'[r].pc \notin Holding
        \/ req[r].pc \in Holding /\ req'[r].pc = "undo" /\ SameGoal(r)
        \/ /\ req[r].pc \in {"applied", "registered"}
           /\ req'[r].pc \in {"registered", "shown"}
           /\ SameGoal(r)
    BY <1>4, <2>2
  <2>4. QED
    BY <1>4, <2>1, <2>3, QuietStep
<1>5. ASSUME NEW r \in Request, Refuse(r)
      PROVE  DevicesGuarded' /\ RequestsGuarded'
  BY <1>4, <1>5 DEF Refuse, Holding
<1>6. ASSUME NEW r \in Request, Create(r)
      PROVE  DevicesGuarded' /\ RequestsGuarded'
  <2>1. CASE CheckpointCreate(r, req[r].dev) /\ Goto(r, {"created", "failing"})
    BY <1>6, <2>1, GuardCreate DEF Create
  <2>2. CASE UNCHANGED nmVars /\ Goto(r, {"failing"})
    BY <1>4, <1>6, <2>2 DEF Create, Holding
  <2>3. QED
    BY <1>6, <2>1, <2>2 DEF Create
<1>7. ASSUME NEW r \in Request, Update(r)
      PROVE  DevicesGuarded' /\ RequestsGuarded'
  <2>1. CASE SettingsUpdate(req[r].profile, req[r].cfg) /\ Goto(r, {"updated", "undo"})
    <3>1. Changing(r) /\ req[r].profile \in Profile /\ UNCHANGED confirmed
      BY <1>7 DEF Update, RequestAt, Changing, GuardInv, FateInv, HoldingTyped, Holding
    <3>2. /\ UNCHANGED <<active, applied, checkpoint>>
          /\ saved'[req[r].profile] = req[r].cfg
          /\ \A p \in Profile \ {req[r].profile} : saved'[p] = saved[p]
      BY <1>1, <2>1, <3>1 DEF SettingsUpdate, TypeOK, NMTypeOK
    <3>3. /\ \A q \in Request \ {r} : req'[q] = req[q]
          /\ req'[r].pc \in {"updated", "undo"} /\ SameGoal(r)
      BY <1>2, <2>1
    <3>4. QED
      BY <3>1, <3>2, <3>3, GuardChange
  <2>2. CASE UNCHANGED nmVars /\ Goto(r, {"undo"})
    BY <1>4, <1>7, <2>2 DEF Update, RequestAt, Holding
  <2>3. QED
    BY <1>7, <2>1, <2>2 DEF Update
<1>8. ASSUME NEW r \in Request, Activate(r)
      PROVE  DevicesGuarded' /\ RequestsGuarded'
  <2>1. CASE ActivateConnection(req[r].profile, req[r].dev) /\ Goto(r, {"applied", "undo"})
    <3>1. /\ Changing(r) /\ req[r].dev \in Device /\ req[r].profile = active[req[r].dev]
          /\ UNCHANGED confirmed /\ saved[req[r].profile] = req[r].cfg
      BY <1>8 DEF Activate, RequestAt, Changing, GuardInv, FateInv, HoldingTyped, Holding,
                  HoldingIsActive, ChangingIsGuarded, AppliedIsSet
    <3>2. /\ UNCHANGED <<saved, active, checkpoint>>
          /\ applied'[req[r].dev] = req[r].cfg
          /\ \A d \in Device \ {req[r].dev} : applied'[d] = applied[d]
      BY <1>1, <2>1, <3>1 DEF ActivateConnection, TypeOK, NMTypeOK
    <3>3. /\ \A q \in Request \ {r} : req'[q] = req[q]
          /\ req'[r].pc \in {"applied", "undo"} /\ SameGoal(r)
      BY <1>2, <2>1
    <3>4. QED
      BY <3>1, <3>2, <3>3, GuardChange
  <2>2. CASE UNCHANGED nmVars /\ Goto(r, {"undo"})
    BY <1>4, <1>8, <2>2 DEF Activate, RequestAt, Holding
  <2>3. QED
    BY <1>8, <2>1, <2>2 DEF Activate
<1>9. ASSUME NEW r \in Request, Undo(r)
      PROVE  DevicesGuarded' /\ RequestsGuarded'
  <2>1. CASE CheckpointRollback(r)
    <3>1. /\ \A q \in Request \ {r} : req'[q] = req[q]
          /\ req'[r].pc \notin Holding /\ ~Changing(r)' /\ UNCHANGED confirmed
      BY <1>2, <1>9 DEF Undo, Holding, Changing
    <3>2. QED
      BY <2>1, <3>1, RollbackRequests
  <2>2. CASE UNCHANGED nmVars
    BY <1>4, <1>9, <2>2 DEF Undo, Holding
  <2>3. QED
    BY <1>9, <2>1, <2>2 DEF Undo
<1>10. ASSUME NEW r \in Request, Register(r) \/ Show(r)
       PROVE  DevicesGuarded' /\ RequestsGuarded'
  BY <1>4, <1>10 DEF Register, Show, RequestAt
<1>11. ASSUME NEW r \in Request, Fail(r)
       PROVE  DevicesGuarded' /\ RequestsGuarded'
  <2>1. req'[r].pc \notin Holding /\ \A q \in Request \ {r} : req'[q] = req[q]
    BY <1>1, <1>11 DEF Fail, Blank, TypeOK, Holding
  <2>2. QED
    BY <1>11, <2>1, QuietStep DEF Fail
<1>12. ASSUME UNCHANGED <<nmVars, req, confirmed>>
       PROVE  DevicesGuarded' /\ RequestsGuarded'
  BY <1>12, QuietStep
<1>13. ASSUME NEW a \in Answer, NEW k \in Kind, NEW t \in Request, TakePending(a, k, t)
       PROVE  DevicesGuarded' /\ RequestsGuarded'
  BY <1>12, <1>13 DEF TakePending
<1>14. ASSUME NEW a \in Answer, AnswerAt(a, "taken")
       PROVE  answer[a].token \in Request /\ req[answer[a].token].pc = "shown"
  BY <1>14 DEF AnswerAt, GuardInv, FateInv, TakenOnce
<1>15. ASSUME NEW a \in Answer, Confirm(a)
       PROVE  DevicesGuarded' /\ RequestsGuarded'
  <2>1. CASE UNCHANGED <<nmVars, confirmed>>
    BY <1>12, <1>15, <2>1 DEF Confirm
  <2>2. CASE ~UNCHANGED <<nmVars, confirmed>>
    BY <1>14, <1>15, <2>2, GuardConfirm DEF Confirm
  <2>3. QED
    BY <2>1, <2>2
<1>16. ASSUME NEW a \in Answer, Cancel(a)
       PROVE  DevicesGuarded' /\ RequestsGuarded'
  <2>1. CASE UNCHANGED nmVars
    BY <1>12, <1>16, <2>1 DEF Cancel
  <2>2. CASE CheckpointRollback(answer[a].token)
    <3>1. /\ answer[a].token \in Request /\ req[answer[a].token].pc = "shown"
          /\ UNCHANGED req /\ UNCHANGED confirmed
      BY <1>14, <1>16 DEF Cancel
    <3>2. ~Changing(answer[a].token)
      BY <3>1 DEF Changing
    <3>3. PICK t \in Request : t = answer[a].token
      BY <3>1
    <3>4. ~Changing(t)' /\ CheckpointRollback(t)
      BY <2>2, <3>1, <3>3 DEF Changing
    <3>5. QED
      BY <3>1, <3>4, RollbackRequests
  <2>3. QED
    BY <1>16, <2>1, <2>2 DEF Cancel
<1>17. ASSUME NEW a \in Answer, Record(a)
       PROVE  DevicesGuarded' /\ RequestsGuarded'
  BY <1>12, <1>17 DEF Record
<1>18. ASSUME NEW r \in Request, Timeout(r)
       PROVE  DevicesGuarded' /\ RequestsGuarded'
  <2>1. CheckpointRollback(r) /\ UNCHANGED req /\ UNCHANGED confirmed /\ checkpoint[r].left = 0
    BY <1>18 DEF Timeout, CheckpointTimeout, editVars
  <2>2. ~Changing(r)'
    BY <2>1 DEF GuardInv, ChangingIsGuarded, Changing
  <2>3. QED
    BY <2>1, <2>2, RollbackRequests
<1>19. ASSUME Crash
       PROVE  DevicesGuarded' /\ RequestsGuarded'
  <2>1. \A q \in Request : req'[q] = req[q] \/ req'[q].pc \notin Holding
    BY <1>19 DEF Crash, Blank, Holding
  <2>2. QED
    BY <1>19, <2>1, QuietStep DEF Crash
<1>20. ASSUME UNCHANGED vars
       PROVE  DevicesGuarded' /\ RequestsGuarded'
  BY <1>12, <1>20 DEF vars, editVars
<1>21. QED
  BY <1>3, <1>5, <1>6, <1>7, <1>8, <1>9, <1>10, <1>11, <1>13, <1>15, <1>16, <1>17,
     <1>18, <1>19, <1>20, GuardTick DEF Next, Apply, Reply

(* The invariant of the anti-lockout argument. *)
THEOREM GuardCorrect == ~SlowBus => (Spec => []GuardInv)
<1> SUFFICES ASSUME ~SlowBus PROVE Spec => []GuardInv
  OBVIOUS
<1>1. Init => GuardInv
  BY GuardInit
<1>2. GuardInv /\ [Next]_vars => GuardInv'
  BY GuardStep
<1>3. QED
  BY <1>1, <1>2, PTL DEF Spec

(* Anti-lockout: a device without a live checkpoint has exactly the        *)
(* setting an operator last confirmed, in its profile and on the wire.     *)
THEOREM AntiLockout == ~SlowBus => (Spec => []OnlyConfirmedSurvives)
<1> SUFFICES ASSUME ~SlowBus PROVE Spec => []OnlyConfirmedSurvives
  OBVIOUS
<1>1. GuardInv => OnlyConfirmedSurvives
  BY DEF GuardInv
<1>2. Spec => []GuardInv
  BY GuardCorrect
<1>3. QED
  BY <1>1, <1>2, PTL

----------------------------------------------------------------------------
(* An answer that has not come has no kind: a consent is never taken back. *)
IdleIsBlank == \A a \in Answer : answer[a].pc = "idle" => answer[a].kind = None

(* What the mapping says of a device: no trial and its good state is what  *)
(* it runs, or a trial by its one live checkpoint, whose snapshot is good. *)
OnTrial(d, r) ==
    /\ LiveOn(d) = {r} /\ trialBar[d] = r
    /\ goodBar[d] = [setting |-> checkpoint[r].was, profile |-> checkpoint[r].profile]
AtRest(d) == LiveOn(d) = {} /\ trialBar[d] = None /\ goodBar[d] = runningBar[d]
Mapped == \A d \in Device : AtRest(d) \/ \E r \in Request : OnTrial(d, r)

LEMMA MappedHolds == GuardInv => Mapped
<1> SUFFICES ASSUME GuardInv, NEW d \in Device PROVE AtRest(d) \/ \E r \in Request : OnTrial(d, r)
  BY DEF Mapped
<1>1. CASE LiveOn(d) = {}
  BY <1>1 DEF AtRest, trialBar, goodBar
<1>2. CASE LiveOn(d) # {}
  <2>1. PICK r \in Request : r \in LiveOn(d) /\ Live(r) /\ checkpoint[r].dev = d
    BY <1>2 DEF LiveOn
  <2>2. LiveOn(d) = {r}
    BY <2>1 DEF GuardInv, LiveGuards
  <2>3. trialBar[d] = r
    BY <2>2 DEF trialBar
  <2>4. trialBar[d] # None
    BY <2>3, NoneAssumption
  <2>5. QED
    BY <2>2, <2>3, <2>4 DEF OnTrial, goodBar
<1>3. QED
  BY <1>1, <1>2

LEMMA MappedNext == GuardInv' => Mapped'
  BY MappedHolds, PTL

LEMMA IdleStep == GuardInv /\ IdleIsBlank /\ [Next]_vars => IdleIsBlank'
<1> SUFFICES ASSUME GuardInv, IdleIsBlank, [Next]_vars PROVE IdleIsBlank'
  OBVIOUS
<1>1. answer \in [Answer -> [pc : AnswerPC, kind : Kind \cup {None}, token : Request \cup {None}]]
  BY DEF GuardInv, FateInv, TypeOK
<1>2. ASSUME NEW b \in Answer, answer'[b].pc = "idle"
      PROVE  answer'[b] = answer[b]
  <2>1. ASSUME NEW a \in Answer, NEW k \in Kind, NEW t \in Request, TakePending(a, k, t)
        PROVE  answer'[b] = answer[b]
    BY <1>1, <1>2, <2>1 DEF TakePending
  <2>2. ASSUME NEW a \in Answer, NEW pcs, AnswerGoto(a, pcs), "idle" \notin pcs
        PROVE  answer'[b] = answer[b]
    BY <1>1, <1>2, <2>2 DEF AnswerGoto
  <2>3. ASSUME NEW a \in Answer, Reply(a)
        PROVE  answer'[b] = answer[b]
    BY <2>2, <2>3 DEF Reply, Confirm, Cancel, Record
  <2>4. CASE Crash
    BY <1>1, <1>2, <2>4 DEF Crash
  <2>5. CASE UNCHANGED answer
    BY <2>5
  <2>6. ASSUME NEW r \in Request, Apply(r)
        PROVE  UNCHANGED answer
    BY <2>6 DEF Apply, Create, Update, Activate, Undo, Register, Show, Fail
  <2>7. QED
    BY <2>1, <2>3, <2>4, <2>5, <2>6 DEF Next, Begin, Refuse, Timeout, Tick, vars, editVars
<1>3. QED
  BY <1>2 DEF IdleIsBlank

(* The checkpoints hold the devices they held, with the same snapshots.    *)
SameTrials ==
    \A r \in Request :
        /\ Live(r)' = Live(r)
        /\ Live(r) => /\ checkpoint'[r].dev = checkpoint[r].dev
                      /\ checkpoint'[r].profile = checkpoint[r].profile
                      /\ checkpoint'[r].was = checkpoint[r].was

(* The mapping gives functions on the devices. *)
LEMMA BarsAreFunctions ==
    /\ trialBar = [d \in Device |-> trialBar[d]] /\ trialBar' = [d \in Device |-> trialBar'[d]]
    /\ goodBar = [d \in Device |-> goodBar[d]] /\ goodBar' = [d \in Device |-> goodBar'[d]]
    /\ runningBar = [d \in Device |-> runningBar[d]]
    /\ runningBar' = [d \in Device |-> runningBar'[d]]
<1>1. trialBar = [d \in Device |-> trialBar[d]] /\ trialBar' = [d \in Device |-> trialBar'[d]]
  BY DEF trialBar
<1>2. goodBar = [d \in Device |-> goodBar[d]] /\ goodBar' = [d \in Device |-> goodBar'[d]]
  BY DEF goodBar
<1>3. /\ runningBar = [d \in Device |-> runningBar[d]]
      /\ runningBar' = [d \in Device |-> runningBar'[d]]
  BY DEF runningBar
<1>4. QED
  BY <1>1, <1>2, <1>3

(* Devices that keep their checkpoint, or none, keep their trial.          *)
LEMMA TrialKept ==
    ASSUME Mapped, Mapped', NEW d \in Device, LiveOn(d)' = LiveOn(d),
           \A r \in LiveOn(d) : /\ checkpoint'[r].was = checkpoint[r].was
                                /\ checkpoint'[r].profile = checkpoint[r].profile
    PROVE  /\ trialBar'[d] = trialBar[d]
           /\ goodBar'[d] = IF LiveOn(d) = {} THEN runningBar'[d] ELSE goodBar[d]
<1>1. CASE LiveOn(d) = {}
  BY <1>1 DEF Mapped, AtRest, OnTrial
<1>2. CASE LiveOn(d) # {}
  <2>1. PICK r \in Request : OnTrial(d, r)
    BY <1>2 DEF Mapped, AtRest
  <2>2. PICK q \in Request : OnTrial(d, q)'
    BY <1>2 DEF Mapped, AtRest
  <2>3. q = r /\ r \in LiveOn(d)
    BY <2>1, <2>2 DEF OnTrial
  <2>4. QED
    BY <1>2, <2>1, <2>2, <2>3 DEF OnTrial
<1>3. QED
  BY <1>1, <1>2

LEMMA QuietMaps ==
    ASSUME Mapped, Mapped', UNCHANGED <<saved, active, applied>>, SameTrials
    PROVE  UNCHANGED <<goodBar, runningBar, trialBar>>
<1>1. runningBar' = runningBar
  BY DEF runningBar, SettingOf
<1>2. ASSUME NEW d \in Device
      PROVE  trialBar'[d] = trialBar[d] /\ goodBar'[d] = goodBar[d]
  <2>1. /\ LiveOn(d)' = LiveOn(d)
        /\ \A r \in LiveOn(d) : /\ checkpoint'[r].was = checkpoint[r].was
                                /\ checkpoint'[r].profile = checkpoint[r].profile
    BY DEF SameTrials, LiveOn
  <2>2. LiveOn(d) = {} => goodBar[d] = runningBar[d]
    BY DEF Mapped, AtRest, OnTrial
  <2>3. QED
    BY <1>1, <2>1, <2>2, TrialKept
<1>3. trialBar' = trialBar
  BY <1>2, BarsAreFunctions
<1>4. goodBar' = goodBar
  BY <1>2, BarsAreFunctions
<1>5. QED
  BY <1>1, <1>3, <1>4

StatesTyped == \A d \in Device : runningBar[d] \in DeviceState

(* What a device has is a state of the abstract protocol. *)
LEMMA StateTyped == TypeOK => StatesTyped
<1> SUFFICES ASSUME TypeOK PROVE StatesTyped
  OBVIOUS
<1>1. \A d \in Device : active[d] \in Profile \cup {None} /\ applied[d] \in Config \cup {None}
  BY DEF TypeOK, NMTypeOK
<1>2. \A d \in Device : SettingOf(d) \in Setting
  BY <1>1 DEF SettingOf, Setting, TypeOK, NMTypeOK
<1>3. QED
  BY <1>1, <1>2 DEF StatesTyped, runningBar, DeviceState

(* Nothing withdraws a consent that was given. *)
LEMMA ConsentKept ==
    ASSUME \A a \in Answer : answer'[a].kind = answer[a].kind /\ answer'[a].token = answer[a].token
    PROVE  consentBar' = consentBar
<1>1. \A a \in Answer : answer'[a].kind = "confirm" <=> answer[a].kind = "confirm"
  OBVIOUS
<1>2. {b \in Answer : answer'[b].kind = "confirm"} = {b \in Answer : answer[b].kind = "confirm"}
  BY <1>1
<1>3. QED
  BY <1>2 DEF consentBar

(* A rollback is the abstract revert. *)
LEMMA RollbackReverts ==
    ASSUME GuardInv, GuardInv', NEW r \in Request, CheckpointRollback(r),
           UNCHANGED confirmed, UNCHANGED consentBar
    PROVE  \E d \in Device : Abstract!Revert(d)
<1>1. Mapped /\ Mapped'
  BY MappedHolds, MappedNext
<1>0. PICK dv \in Device : dv = checkpoint[r].dev
  BY DEF CheckpointRollback, GuardInv, LiveGuards
<1>2. /\ r \in LiveOn(dv)
      /\ checkpoint[r].was = confirmed[dv] /\ checkpoint[r].profile = active[dv]
  BY <1>0 DEF CheckpointRollback, GuardInv, LiveGuards, LiveOn
<1>3. /\ active' = active /\ ~Live(r)'
      /\ \A q \in Request \ {r} : checkpoint'[q] = checkpoint[q]
      /\ \A d \in Device : d # dv => SettingOf(d)' = SettingOf(d)
  BY <1>0, RollbackGuards DEF GuardInv, FateInv, DevicesGuarded
<1>4. OnTrial(dv, r)
  <2>1. PICK q \in Request : OnTrial(dv, q)
    BY <1>1, <1>2 DEF Mapped, AtRest
  <2>2. q = r
    BY <1>2, <2>1 DEF OnTrial
  <2>3. QED
    BY <2>1, <2>2
<1>5. LiveOn(dv)' = {}
  BY <1>3, <1>4 DEF OnTrial, LiveOn, Live
<1>6. SettingOf(dv)' = checkpoint[r].was
  BY <1>2, <1>5 DEF GuardInv, OnlyConfirmedSurvives
<1>7. runningBar'[dv] = goodBar[dv] /\ trialBar'[dv] = None /\ goodBar'[dv] = goodBar[dv]
  BY <1>1, <1>2, <1>3, <1>4, <1>5, <1>6 DEF runningBar, OnTrial, Mapped, AtRest
<1>8. ASSUME NEW d \in Device, d # dv
      PROVE  /\ runningBar'[d] = runningBar[d] /\ trialBar'[d] = trialBar[d]
             /\ goodBar'[d] = goodBar[d]
  <2>1. runningBar'[d] = runningBar[d]
    BY <1>3, <1>8 DEF runningBar
  <2>2. /\ LiveOn(d)' = LiveOn(d)
        /\ \A q \in LiveOn(d) : checkpoint'[q] = checkpoint[q]
    BY <1>2, <1>3, <1>8 DEF LiveOn, Live
  <2>3. LiveOn(d) = {} => goodBar[d] = runningBar[d]
    BY <1>1 DEF Mapped, AtRest, OnTrial
  <2>4. QED
    BY <1>1, <2>1, <2>2, <2>3, TrialKept
<1>9. trialBar[dv] # None
  BY <1>4, NoneAssumption DEF OnTrial
<1>10. Abstract!Revert(dv)
  <2>1. runningBar' = [runningBar EXCEPT ![dv] = goodBar[dv]]
    BY <1>2, <1>7, <1>8, BarsAreFunctions
  <2>2. trialBar' = [trialBar EXCEPT ![dv] = None]
    BY <1>2, <1>7, <1>8, BarsAreFunctions
  <2>3. goodBar' = goodBar
    BY <1>2, <1>7, <1>8, BarsAreFunctions
  <2>4. QED
    BY <1>9, <2>1, <2>2, <2>3 DEF Abstract!Revert
<1>11. QED
  BY <1>2, <1>10

(* A confirm that destroys a checkpoint is the abstract keep. *)
LEMMA ConfirmKeeps ==
    ASSUME GuardInv, GuardInv', NEW t \in Request, CheckpointDestroy(t),
           t \in consentBar, UNCHANGED consentBar
    PROVE  \E d \in Device : Abstract!Keep(d)
<1>1. Mapped /\ Mapped'
  BY MappedHolds, MappedNext
<1>0. PICK dv \in Device : dv = checkpoint[t].dev
  BY DEF CheckpointDestroy, GuardInv, LiveGuards
<1>2. t \in LiveOn(dv)
  BY <1>0 DEF CheckpointDestroy, LiveOn
<1>3. /\ UNCHANGED <<saved, active, applied>> /\ ~Live(t)'
      /\ \A q \in Request \ {t} : checkpoint'[q] = checkpoint[q]
  BY EndEffect DEF CheckpointDestroy, GuardInv, FateInv, TypeOK, Live
<1>4. OnTrial(dv, t)
  BY ZenonT(40), <1>1, <1>2 DEF Mapped, AtRest, OnTrial
<1>5. LiveOn(dv)' = {}
  BY <1>3, <1>4 DEF OnTrial, LiveOn, Live
<1>6. runningBar' = runningBar
  BY <1>3 DEF runningBar, SettingOf
<1>7. trialBar'[dv] = None /\ goodBar'[dv] = runningBar[dv]
  BY <1>1, <1>2, <1>5, <1>6 DEF OnTrial, Mapped, AtRest
<1>8. ASSUME NEW d \in Device, d # dv
      PROVE  trialBar'[d] = trialBar[d] /\ goodBar'[d] = goodBar[d]
  <2>1. /\ LiveOn(d)' = LiveOn(d)
        /\ \A q \in LiveOn(d) : checkpoint'[q] = checkpoint[q]
    BY <1>2, <1>3, <1>8 DEF LiveOn, Live
  <2>2. LiveOn(d) = {} => goodBar[d] = runningBar[d]
    BY <1>1 DEF Mapped, AtRest, OnTrial
  <2>3. QED
    BY <1>1, <1>6, <2>1, <2>2, TrialKept
<1>9. Abstract!Keep(dv)
  <2>1. trialBar' = [trialBar EXCEPT ![dv] = None]
    BY <1>2, <1>7, <1>8, BarsAreFunctions
  <2>2. goodBar' = [goodBar EXCEPT ![dv] = runningBar[dv]]
    BY <1>2, <1>7, <1>8, BarsAreFunctions
  <2>3. trialBar[dv] \in consentBar
    BY <1>4 DEF OnTrial
  <2>4. QED
    BY <1>6, <2>1, <2>2, <2>3 DEF Abstract!Keep
<1>10. QED
  BY <1>2, <1>9

(* A checkpoint that is created opens a trial; what the device has then is *)
(* what it falls back to.                                                  *)
LEMMA CreateOpens ==
    ASSUME GuardInv, GuardInv', NEW r \in Request, NEW dv \in Device,
           CheckpointCreate(r, dv), ~Live(r), UNCHANGED consentBar
    PROVE  Abstract!Open(dv, r)
<1>1. Mapped /\ Mapped'
  BY MappedHolds, MappedNext
<1>2. /\ UNCHANGED <<saved, active, applied>>
      /\ LiveOn(dv) = {}
      /\ \A q \in Request \ {r} : checkpoint'[q] = checkpoint[q]
      /\ checkpoint'[r] = [status |-> "live", dev |-> dv, profile |-> active[dv],
                           was |-> SettingOf(dv), left |-> Window]
  BY DEF CheckpointCreate, GuardInv, FateInv, TypeOK, NMTypeOK
<1>3. r \in LiveOn(dv)'
  BY <1>2 DEF LiveOn, Live
<1>4. OnTrial(dv, r)'
  BY <1>1, <1>3 DEF Mapped, AtRest, OnTrial
<1>5. AtRest(dv)
  BY <1>1, <1>2 DEF Mapped, OnTrial
<1>6. runningBar' = runningBar
  BY <1>2 DEF runningBar, SettingOf
<1>7. trialBar'[dv] = r /\ goodBar'[dv] = goodBar[dv]
  BY <1>2, <1>4, <1>5 DEF OnTrial, AtRest, runningBar
<1>8. ASSUME NEW d \in Device, d # dv
      PROVE  trialBar'[d] = trialBar[d] /\ goodBar'[d] = goodBar[d]
  <2>1. /\ LiveOn(d)' = LiveOn(d)
        /\ \A q \in LiveOn(d) : checkpoint'[q] = checkpoint[q]
    BY <1>2, <1>8 DEF LiveOn, Live
  <2>2. LiveOn(d) = {} => goodBar[d] = runningBar[d]
    BY <1>1 DEF Mapped, AtRest, OnTrial
  <2>3. QED
    BY <1>1, <1>6, <2>1, <2>2, TrialKept
<1>9. trialBar' = [trialBar EXCEPT ![dv] = r]
  BY <1>7, <1>8, BarsAreFunctions
<1>10. goodBar' = goodBar
  BY <1>7, <1>8, BarsAreFunctions
<1>11. QED
  BY <1>5, <1>6, <1>9, <1>10 DEF Abstract!Open, AtRest

(* What an apply does to its device it does inside its trial. *)
LEMMA ChangeAlters ==
    ASSUME GuardInv, GuardInv', NEW r \in Request, Changing(r), UNCHANGED checkpoint,
           \A d \in Device : d # req[r].dev => runningBar'[d] = runningBar[d],
           UNCHANGED consentBar
    PROVE  \E d \in Device, s \in DeviceState : Abstract!Alter(d, s)
<1>1. Mapped /\ Mapped'
  BY MappedHolds, MappedNext
<1>0. PICK dv \in Device : dv = req[r].dev
  BY ChangingIsAlone
<1>2. r \in LiveOn(dv)
  BY <1>0, ChangingIsAlone DEF LiveOn
<1>3. \A d \in Device : LiveOn(d)' = LiveOn(d)
  BY DEF LiveOn, Live
<1>4. trialBar' = trialBar
  BY <1>1, <1>3, TrialKept, BarsAreFunctions
<1>5. ASSUME NEW d \in Device
      PROVE  goodBar'[d] = goodBar[d]
  <2>1. goodBar'[d] = IF LiveOn(d) = {} THEN runningBar'[d] ELSE goodBar[d]
    BY <1>1, <1>3, TrialKept
  <2>2. LiveOn(d) = {} => d # dv /\ goodBar[d] = runningBar[d] /\ runningBar'[d] = runningBar[d]
    BY <1>0, <1>1, <1>2 DEF Mapped, AtRest, OnTrial
  <2>3. QED
    BY <2>1, <2>2
<1>6. goodBar' = goodBar
  BY <1>5, BarsAreFunctions
<1>7. runningBar' = [runningBar EXCEPT ![dv] = runningBar'[dv]]
  BY <1>0, BarsAreFunctions
<1>8. trialBar[dv] # None
  <2>1. PICK q \in Request : OnTrial(dv, q)
    BY <1>1, <1>2 DEF Mapped, AtRest
  <2>2. QED
    BY <2>1, NoneAssumption DEF OnTrial
<1>9. runningBar'[dv] \in DeviceState
  <2>1. TypeOK'
    BY DEF GuardInv, FateInv
  <2>2. TypeOK' => StatesTyped'
    BY StateTyped, PTL
  <2>3. QED
    BY <2>1, <2>2 DEF StatesTyped
<1>10. QED
  BY <1>4, <1>6, <1>7, <1>8, <1>9 DEF Abstract!Alter

LEMMA RefineInit == Init => Abstract!Init
<1> SUFFICES ASSUME Init PROVE Abstract!Init
  OBVIOUS
<1>1. \A d \in Device : LiveOn(d) = {}
  BY DEF Init, NMInit, NoCheckpoint, LiveOn, Live
<1>2. trialBar = [d \in Device |-> None]
  BY <1>1 DEF trialBar
<1>3. goodBar = runningBar
  BY <1>1, <1>2, BarsAreFunctions DEF goodBar
<1>4. runningBar \in [Device -> DeviceState]
  BY FateInit, StateTyped, BarsAreFunctions DEF FateInv, StatesTyped
<1>5. consentBar = {}
  <2>1. \A a \in Answer : answer[a].kind = None /\ answer[a].pc = "idle"
    BY DEF Init
  <2>2. \A a \in Answer : answer[a].kind # "confirm"
    BY <2>1, KindAssumption DEF Kind
  <2>3. QED
    BY <2>2 DEF consentBar
<1>6. QED
  BY <1>2, <1>3, <1>4, <1>5 DEF Abstract!Init

(* A step that leaves the trials alone is a stutter, or a consent. *)
LEMMA QuietRefines ==
    ASSUME GuardInv, GuardInv', UNCHANGED <<saved, active, applied>>, SameTrials,
           UNCHANGED consentBar \/ \E t \in Request : consentBar' = consentBar \cup {t}
    PROVE  [Abstract!Next]_(Abstract!vars)
<1>1. UNCHANGED <<goodBar, runningBar, trialBar>>
  BY MappedHolds, MappedNext, QuietMaps
<1>2. CASE UNCHANGED consentBar
  BY <1>1, <1>2 DEF Abstract!vars
<1>3. ASSUME NEW t \in Request, consentBar' = consentBar \cup {t}
      PROVE  [Abstract!Next]_(Abstract!vars)
  BY <1>1, <1>3 DEF Abstract!Next, Abstract!Consent
<1>4. QED
  BY <1>2, <1>3

(* Every step is a step of the abstract protocol, or leaves it alone. *)
LEMMA RefineStep ==
    ASSUME GuardInv, GuardInv', IdleIsBlank, [Next]_vars
    PROVE  [Abstract!Next]_(Abstract!vars)
<1>1. TypeOK
  BY DEF GuardInv, FateInv
<1>2. UNCHANGED checkpoint => SameTrials
  BY DEF SameTrials, Live
<1>3. UNCHANGED answer => UNCHANGED consentBar
  BY DEF consentBar
<1>4. ASSUME UNCHANGED nmVars, UNCHANGED answer
      PROVE  [Abstract!Next]_(Abstract!vars)
  BY <1>2, <1>3, <1>4, QuietRefines DEF nmVars
<1>5. ASSUME NEW a \in Answer, NEW pcs, AnswerGoto(a, pcs)
      PROVE  UNCHANGED consentBar
  BY <1>1, <1>5, ConsentKept DEF AnswerGoto, TypeOK
<1>6. ASSUME NEW r \in Request, CheckpointRollback(r), UNCHANGED confirmed, UNCHANGED consentBar
      PROVE  [Abstract!Next]_(Abstract!vars)
  BY <1>6, RollbackReverts DEF Abstract!Next
<1>7. ASSUME NEW r \in Request, Changing(r), UNCHANGED checkpoint, UNCHANGED consentBar,
             \A d \in Device : d # req[r].dev => runningBar'[d] = runningBar[d]
      PROVE  [Abstract!Next]_(Abstract!vars)
  BY <1>7, ChangeAlters DEF Abstract!Next
<1>8. ASSUME NEW r \in Request, NEW d \in Device, NEW c \in Config, Begin(r, d, c)
      PROVE  [Abstract!Next]_(Abstract!vars)
  BY <1>4, <1>8 DEF Begin
<1>9. ASSUME NEW r \in Request, Refuse(r) \/ Register(r) \/ Show(r) \/ Fail(r)
      PROVE  [Abstract!Next]_(Abstract!vars)
  BY <1>4, <1>9 DEF Refuse, Register, Show, Fail
<1>10. ASSUME NEW r \in Request, Create(r)
       PROVE  [Abstract!Next]_(Abstract!vars)
  <2>1. CASE UNCHANGED nmVars
    BY <1>4, <1>10, <2>1 DEF Create
  <2>2. CASE CheckpointCreate(r, req[r].dev)
    <3>1. req[r].dev \in Device /\ ~Live(r)
      BY <1>10 DEF Create, RequestAt, GuardInv, FateInv, HoldingTyped, Holding,
                   FreshBeforeCreate, Live
    <3>2. PICK d \in Device : d = req[r].dev
      BY <3>1
    <3>3. Abstract!Open(d, r)
      BY <1>3, <1>10, <2>2, <3>1, <3>2, CreateOpens DEF Create
    <3>4. QED
      BY <3>3 DEF Abstract!Next
  <2>3. QED
    BY <1>10, <2>1, <2>2 DEF Create
<1>11. ASSUME NEW r \in Request, Update(r)
       PROVE  [Abstract!Next]_(Abstract!vars)
  <2>1. CASE UNCHANGED nmVars
    BY <1>4, <1>11, <2>1 DEF Update
  <2>2. CASE SettingsUpdate(req[r].profile, req[r].cfg)
    <3>1. Changing(r) /\ UNCHANGED answer
      BY <1>11 DEF Update, RequestAt, Changing
    <3>2. \A d \in Device : d # req[r].dev => active[d] # req[r].profile
      BY <3>1, ChangingIsAlone
    <3>3. \A p \in Profile : p # req[r].profile => saved'[p] = saved[p]
      BY <1>1, <2>2 DEF SettingsUpdate, TypeOK, NMTypeOK
    <3>4. UNCHANGED <<active, applied, checkpoint>>
      BY <2>2 DEF SettingsUpdate
    <3>5. ASSUME NEW d \in Device, d # req[r].dev
          PROVE  runningBar'[d] = runningBar[d]
      <4>1. active[d] \in Profile \cup {None}
        BY <1>1 DEF TypeOK, NMTypeOK
      <4>2. SettingOf(d)' = SettingOf(d)
        BY <3>2, <3>3, <3>4, <3>5, <4>1 DEF SettingOf
      <4>3. QED
        BY <3>4, <4>2 DEF runningBar
    <3>6. QED
      BY <1>3, <1>7, <3>1, <3>4, <3>5
  <2>3. QED
    BY <1>11, <2>1, <2>2 DEF Update
<1>12. ASSUME NEW r \in Request, Activate(r)
       PROVE  [Abstract!Next]_(Abstract!vars)
  <2>1. CASE UNCHANGED nmVars
    BY <1>4, <1>12, <2>1 DEF Activate
  <2>2. CASE ActivateConnection(req[r].profile, req[r].dev)
    <3>1. Changing(r) /\ UNCHANGED answer
      BY <1>12 DEF Activate, RequestAt, Changing
    <3>2. UNCHANGED <<saved, checkpoint>>
      BY <2>2 DEF ActivateConnection
    <3>3. ASSUME NEW d \in Device, d # req[r].dev
          PROVE  runningBar'[d] = runningBar[d]
      <4>1. active'[d] = active[d] /\ applied'[d] = applied[d]
        BY <1>1, <2>2, <3>3 DEF ActivateConnection, TypeOK, NMTypeOK
      <4>2. SettingOf(d)' = SettingOf(d)
        BY <3>2, <4>1 DEF SettingOf
      <4>3. QED
        BY <4>1, <4>2 DEF runningBar
    <3>4. QED
      BY <1>3, <1>7, <3>1, <3>2, <3>3
  <2>3. QED
    BY <1>12, <2>1, <2>2 DEF Activate
<1>13. ASSUME NEW r \in Request, Undo(r)
       PROVE  [Abstract!Next]_(Abstract!vars)
  BY <1>3, <1>4, <1>6, <1>13 DEF Undo
<1>14. ASSUME NEW a \in Answer, NEW k \in Kind, NEW t \in Request, TakePending(a, k, t)
       PROVE  [Abstract!Next]_(Abstract!vars)
  <2>1. /\ answer[a].pc = "idle"
        /\ answer'[a].kind = k /\ answer'[a].token = t
        /\ \A b \in Answer : b # a => answer'[b] = answer[b]
    BY <1>1, <1>14 DEF TakePending, AnswerAt, TypeOK
  <2>2. answer[a].kind # "confirm"
    BY <2>1, KindAssumption DEF IdleIsBlank, Kind
  <2>3. CASE k = "confirm"
    <3>1. consentBar' = consentBar \cup {t}
      BY <2>1, <2>2, <2>3 DEF consentBar
    <3>2. QED
      BY <1>2, <1>14, <3>1, QuietRefines DEF TakePending, nmVars
  <2>4. CASE k # "confirm"
    <3>1. consentBar' = consentBar
      BY <2>1, <2>2, <2>4 DEF consentBar
    <3>2. QED
      BY <1>2, <1>14, <3>1, QuietRefines DEF TakePending, nmVars
  <2>5. QED
    BY <2>3, <2>4
<1>15. ASSUME NEW a \in Answer, AnswerAt(a, "taken")
       PROVE  \E t \in Request : t = answer[a].token
  BY <1>15 DEF AnswerAt, GuardInv, FateInv, TakenOnce
<1>16. ASSUME NEW a \in Answer, Confirm(a)
       PROVE  [Abstract!Next]_(Abstract!vars)
  <2>1. UNCHANGED consentBar
    BY <1>5, <1>16 DEF Confirm
  <2>2. CASE UNCHANGED nmVars
    BY <1>2, <2>1, <2>2, QuietRefines DEF nmVars
  <2>3. CASE CheckpointDestroy(answer[a].token)
    <3>1. PICK t \in Request : t = answer[a].token
      BY <1>15, <1>16 DEF Confirm
    <3>2. t \in consentBar
      BY <1>16, <3>1 DEF Confirm, consentBar
    <3>3. \E d \in Device : Abstract!Keep(d)
      BY <2>1, <2>3, <3>1, <3>2, ConfirmKeeps
    <3>4. QED
      BY <3>3 DEF Abstract!Next
  <2>4. QED
    BY <1>16, <2>2, <2>3 DEF Confirm
<1>17. ASSUME NEW a \in Answer, Cancel(a)
       PROVE  [Abstract!Next]_(Abstract!vars)
  <2>1. UNCHANGED consentBar /\ UNCHANGED confirmed
    BY <1>5, <1>17 DEF Cancel
  <2>2. CASE UNCHANGED nmVars
    BY <1>2, <2>1, <2>2, QuietRefines DEF nmVars
  <2>3. CASE CheckpointRollback(answer[a].token)
    <3>1. PICK t \in Request : t = answer[a].token
      BY <1>15, <1>17 DEF Cancel
    <3>2. QED
      BY <1>6, <2>1, <2>3, <3>1
  <2>4. QED
    BY <1>17, <2>2, <2>3 DEF Cancel
<1>18. ASSUME NEW a \in Answer, Record(a)
       PROVE  [Abstract!Next]_(Abstract!vars)
  <2>1. UNCHANGED consentBar
    BY <1>5, <1>18 DEF Record
  <2>2. QED
    BY <1>2, <1>18, <2>1, QuietRefines DEF Record, nmVars
<1>19. ASSUME NEW r \in Request, Timeout(r)
       PROVE  [Abstract!Next]_(Abstract!vars)
  BY <1>3, <1>6, <1>19 DEF Timeout, CheckpointTimeout, editVars
<1>20. ASSUME Tick
       PROVE  [Abstract!Next]_(Abstract!vars)
  <2>1. SameTrials
    BY <1>1, <1>20 DEF Tick, CheckpointTick, SameTrials, Live, TypeOK, NMTypeOK, Checkpoint
  <2>2. QED
    BY <1>3, <1>20, <2>1, QuietRefines DEF Tick, CheckpointTick
<1>21. ASSUME Crash
       PROVE  [Abstract!Next]_(Abstract!vars)
  <2>1. UNCHANGED consentBar
    BY <1>1, <1>21, ConsentKept DEF Crash, TypeOK
  <2>2. QED
    BY <1>2, <1>21, <2>1, QuietRefines DEF Crash, nmVars
<1>22. ASSUME UNCHANGED vars
       PROVE  [Abstract!Next]_(Abstract!vars)
  BY <1>4, <1>22 DEF vars, editVars
<1>23. QED
  BY <1>8, <1>9, <1>10, <1>11, <1>12, <1>13, <1>14, <1>16, <1>17, <1>18, <1>19, <1>20,
     <1>21, <1>22 DEF Next, Apply, Reply

(* NetworkEdit implements ConfirmOrRevert: nothing changes on a device     *)
(* outside a trial, and a trial only ends by a consented keep or a revert. *)
THEOREM RefinementCorrect == ~SlowBus => (Spec => ImplementsConfirmOrRevert)
<1> SUFFICES ASSUME ~SlowBus PROVE Spec => ImplementsConfirmOrRevert
  OBVIOUS
<1>1. Spec => []GuardInv
  BY GuardCorrect
<1>2. Init => IdleIsBlank
  BY DEF Init, IdleIsBlank
<1>3. GuardInv /\ IdleIsBlank /\ [Next]_vars => IdleIsBlank'
  BY IdleStep
<1>4. GuardInv /\ GuardInv' /\ IdleIsBlank /\ [Next]_vars => [Abstract!Next]_(Abstract!vars)
  BY RefineStep
<1>5. Init => Abstract!Init
  BY RefineInit
<1>6. QED
  BY <1>1, <1>2, <1>3, <1>4, <1>5, PTL DEF Spec, ImplementsConfirmOrRevert, Abstract!Spec
=============================================================================
