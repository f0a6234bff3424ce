---------------------------- MODULE NetworkEdit ----------------------------
(***************************************************************************)
(* Editing an interface behind a NetworkManager checkpoint: ApplyIPv4,     *)
(* Confirm and Rollback of internal/network/edit.go, run by the handlers   *)
(* of internal/httpserver/network_edit.go.  Every handler runs on its own  *)
(* goroutine, so requests interleave between any two D-Bus calls; a call   *)
(* may fail, or take effect and lose its reply; the gateway may be killed  *)
(* and restarted at any step, and forgets its pending map.                 *)
(***************************************************************************)
EXTENDS NetworkManager

CONSTANTS
    Answer,     \* confirm and cancel requests (POST /network/confirm, /cancel)
    SlowBus     \* TRUE: an apply may still be running when its timer is due

ASSUME SlowBusAssumption == SlowBus \in BOOLEAN

VARIABLES
    req,        \* req[r]: progress of apply request r
    pending,    \* tokens in the server's pending map; r's token is r
    deadline,   \* deadline[r]: ticks to pendingChange.Deadline, -1 once past
    answer,     \* answer[a]: progress of confirm or cancel request a
    audit,      \* rows of the audit table
    confirmed   \* confirmed[d]: history, the last setting an operator kept

editVars == <<req, pending, deadline, answer, audit, confirmed>>
vars == <<nmVars, editVars>>

RequestPC ==
    {"idle", "begun", "created", "updated", "undo", "applied", "registered",
     "shown", "failing", "failed", "dead"}
AnswerPC == {"idle", "taken", "record", "done", "dead"}
Kind == {"confirm", "cancel"}
ASSUME KindAssumption == None \notin Kind
AuditRow == {"network_apply", "network_apply_failed", "network_confirm",
             "network_cancel"} \X Request

TypeOK ==
    /\ NMTypeOK
    /\ req \in [Request -> [pc : RequestPC, dev : Device \cup {None},
                            profile : Profile \cup {None}, cfg : Config \cup {None}]]
    /\ pending \subseteq Request
    /\ deadline \in [Request -> -1..Window]
    /\ answer \in [Answer -> [pc : AnswerPC, kind : Kind \cup {None},
                              token : Request \cup {None}]]
    /\ audit \subseteq AuditRow
    /\ confirmed \in [Device -> Setting]

(* A request that holds nothing: not begun, or over without a token. *)
Blank(pc) == [pc |-> pc, dev |-> None, profile |-> None, cfg |-> None]

Init ==
    /\ NMInit
    /\ req = [r \in Request |-> Blank("idle")]
    /\ pending = {}
    /\ deadline = [r \in Request |-> -1]
    /\ answer = [a \in Answer |-> [pc |-> "idle", kind |-> None, token |-> None]]
    /\ audit = {}
    /\ confirmed = [d \in Device |-> SettingOf(d)]

RequestAt(r, pc) == req[r].pc = pc
Goto(r, pcs) == \E pc \in pcs : req' = [req EXCEPT ![r].pc = pc]
AnswerAt(a, pc) == answer[a].pc = pc
AnswerGoto(a, pcs) == \E pc \in pcs : answer' = [answer EXCEPT ![a].pc = pc]

(* store.AddAudit: every handler ignores its error. *)
AddAudit(row) == audit' = audit \cup {row} \/ UNCHANGED audit

----------------------------------------------------------------------------
(* Wrong variants of actions below: each is a bug a property must catch.   *)

(* An apply that goes on although CheckpointCreate failed. *)
CreateUnchecked(r) ==
    /\ RequestAt(r, "begun")
    /\ CheckpointCreate(r, req[r].dev) \/ UNCHANGED nmVars
    /\ Goto(r, {"created"})
    /\ UNCHANGED <<pending, deadline, answer, audit, confirmed>>

(* A failed step that cleans up by destroying the checkpoint. *)
UndoByDestroy(r) ==
    /\ RequestAt(r, "undo")
    /\ CheckpointDestroy(r) \/ UNCHANGED nmVars
    /\ Goto(r, {"failing"})
    /\ UNCHANGED <<pending, deadline, answer, audit, confirmed>>

(* A deadline one tick shorter than the timer NetworkManager was given. *)
RegisterShort(r) ==
    /\ RequestAt(r, "applied")
    /\ pending' = pending \cup {r}
    /\ deadline' = [deadline EXCEPT ![r] = Window - 1]
    /\ Goto(r, {"registered"})
    /\ UNCHANGED <<nmVars, answer, audit, confirmed>>

(* A lookup that leaves the token in the map. *)
PeekPending(a, k, t) ==
    /\ AnswerAt(a, "idle")
    /\ RequestAt(t, "shown")
    /\ answer' = [answer EXCEPT ![a] =
           [pc |-> IF t \in pending /\ deadline[t] >= 0 THEN "taken" ELSE "done",
            kind |-> k, token |-> t]]
    /\ UNCHANGED <<nmVars, req, pending, deadline, audit, confirmed>>

(* A confirm that reports success without looking at Destroy's result. *)
ConfirmUnchecked(a) ==
    LET t == answer[a].token IN
    /\ AnswerAt(a, "taken") /\ answer[a].kind = "confirm"
    /\ CheckpointDestroy(t) \/ UNCHANGED nmVars
    /\ AnswerGoto(a, {"record"})
    /\ UNCHANGED <<req, pending, deadline, audit, confirmed>>

(* A cancel that destroys the checkpoint instead of rolling back. *)
CancelByDestroy(a) ==
    /\ AnswerAt(a, "taken") /\ answer[a].kind = "cancel"
    /\ CheckpointDestroy(answer[a].token) \/ UNCHANGED nmVars
    /\ AnswerGoto(a, {"record"})
    /\ UNCHANGED <<req, pending, deadline, audit, confirmed>>

(* A rollback timer that lives in the gateway and dies with it. *)
TimeoutInGateway(r) ==
    req[r].pc # "dead" /\ CheckpointTimeout(r) /\ UNCHANGED editVars

----------------------------------------------------------------------------
(* handleNetworkApply and ApplyIPv4, one action per D-Bus call. *)

(* Validation passes and the device's active profile is looked up. *)
Begin(r, d, c) ==
    /\ RequestAt(r, "idle")
    /\ active[d] # None
    /\ req' = [req EXCEPT ![r] = [pc |-> "begun", dev |-> d,
                                  profile |-> active[d], cfg |-> c]]
    /\ UNCHANGED <<nmVars, pending, deadline, answer, audit, confirmed>>

(* Invalid configuration, no bus, unknown device or no active connection. *)
Refuse(r) ==
    /\ RequestAt(r, "idle")
    /\ Goto(r, {"failing"})
    /\ UNCHANGED <<nmVars, pending, deadline, answer, audit, confirmed>>

(* CheckpointCreate; an error, or a lost reply, ends the request. *)
Create(r) ==
    /\ RequestAt(r, "begun")
    /\ \/ CheckpointCreate(r, req[r].dev) /\ Goto(r, {"created", "failing"})
       \/ UNCHANGED nmVars /\ Goto(r, {"failing"})
    /\ UNCHANGED <<pending, deadline, answer, audit, confirmed>>

(* updateIPv4; an error or a lost reply leads to the rollback. *)
Update(r) ==
    /\ RequestAt(r, "created")
    /\ \/ SettingsUpdate(req[r].profile, req[r].cfg) /\ Goto(r, {"updated", "undo"})
       \/ UNCHANGED nmVars /\ Goto(r, {"undo"})
    /\ UNCHANGED <<pending, deadline, answer, audit, confirmed>>

(* ActivateConnection; an error or a lost reply leads to the rollback. *)
Activate(r) ==
    /\ RequestAt(r, "updated")
    /\ \/ ActivateConnection(req[r].profile, req[r].dev) /\ Goto(r, {"applied", "undo"})
       \/ UNCHANGED nmVars /\ Goto(r, {"undo"})
    /\ UNCHANGED <<pending, deadline, answer, audit, confirmed>>

(* The rollback after a failed step; its own error is ignored. *)
Undo(r) ==
    /\ RequestAt(r, "undo")
    /\ CheckpointRollback(r) \/ UNCHANGED nmVars
    /\ Goto(r, {"failing"})
    /\ UNCHANGED <<pending, deadline, answer, audit, confirmed>>

(* The token goes into the pending map; its deadline starts now, later     *)
(* than the timer of the checkpoint.                                       *)
Register(r) ==
    /\ RequestAt(r, "applied")
    /\ pending' = pending \cup {r}
    /\ deadline' = [deadline EXCEPT ![r] = Window]
    /\ Goto(r, {"registered"})
    /\ UNCHANGED <<nmVars, answer, audit, confirmed>>

(* An audit row, then the page with the token reaches the operator. *)
Show(r) ==
    /\ RequestAt(r, "registered")
    /\ AddAudit(<<"network_apply", r>>)
    /\ Goto(r, {"shown"})
    /\ UNCHANGED <<nmVars, pending, deadline, answer, confirmed>>

Fail(r) ==
    /\ RequestAt(r, "failing")
    /\ AddAudit(<<"network_apply_failed", r>>)
    /\ req' = [req EXCEPT ![r] = Blank("failed")]
    /\ UNCHANGED <<nmVars, pending, deadline, answer, confirmed>>

----------------------------------------------------------------------------
(* handleNetworkConfirm and handleNetworkCancel. *)

(* takePending, under pendMu: the entry is removed even when it is expired. *)
TakePending(a, k, t) ==
    /\ AnswerAt(a, "idle")
    /\ RequestAt(t, "shown")
    /\ pending' = pending \ {t}
    /\ answer' = [answer EXCEPT ![a] =
           [pc |-> IF t \in pending /\ deadline[t] >= 0 THEN "taken" ELSE "done",
            kind |-> k, token |-> t]]
    /\ deadline' = [deadline EXCEPT ![t] = -1]
    /\ UNCHANGED <<nmVars, req, audit, confirmed>>

(* Confirm destroys the checkpoint; any error is answered with a 500. *)
Confirm(a) ==
    LET t == answer[a].token IN
    /\ AnswerAt(a, "taken") /\ answer[a].kind = "confirm"
    /\ \/ /\ CheckpointDestroy(t)
          /\ confirmed' = [confirmed EXCEPT ![req[t].dev] =
                               [saved |-> req[t].cfg, applied |-> req[t].cfg]]
          /\ AnswerGoto(a, {"record", "done"})
       \/ UNCHANGED <<nmVars, confirmed>> /\ AnswerGoto(a, {"done"})
    /\ UNCHANGED <<req, pending, deadline, audit>>

(* Cancel rolls back and does not look at the result. *)
Cancel(a) ==
    /\ AnswerAt(a, "taken") /\ answer[a].kind = "cancel"
    /\ CheckpointRollback(answer[a].token) \/ UNCHANGED nmVars
    /\ AnswerGoto(a, {"record"})
    /\ UNCHANGED <<req, pending, deadline, audit, confirmed>>

(* The audit row of a confirm or a cancel. *)
Record(a) ==
    /\ AnswerAt(a, "record")
    /\ AddAudit(<<IF answer[a].kind = "confirm" THEN "network_confirm"
                  ELSE "network_cancel", answer[a].token>>)
    /\ AnswerGoto(a, {"done"})
    /\ UNCHANGED <<nmVars, req, pending, deadline, confirmed>>

----------------------------------------------------------------------------
(* NetworkManager's timer rolls an unconfirmed change back. *)
Timeout(r) == CheckpointTimeout(r) /\ UNCHANGED editVars

(* An apply that has created its checkpoint and is still changing things. *)
Changing(r) == req[r].pc \in {"created", "updated"}

(* Time passes.  Unless SlowBus, the two calls after CheckpointCreate      *)
(* return before its timer is due.                                         *)
Tick ==
    /\ CheckpointTick
    /\ SlowBus \/ \A r \in Request : Changing(r) => checkpoint[r].left > 1
    /\ deadline' = [r \in Request |->
           IF r \in pending /\ deadline[r] >= 0 THEN deadline[r] - 1 ELSE deadline[r]]
    /\ UNCHANGED <<req, pending, answer, audit, confirmed>>

(* The gateway dies and is restarted: handlers and the pending map are     *)
(* lost, NetworkManager and the audit table are not.                       *)
Crash ==
    /\ req' = [r \in Request |->
           IF req[r].pc \in {"idle", "shown", "failed"} THEN req[r]
           ELSE Blank("dead")]
    /\ answer' = [a \in Answer |->
           IF answer[a].pc \in {"idle", "done"} THEN answer[a]
           ELSE [answer[a] EXCEPT !.pc = "dead"]]
    /\ pending' = {}
    /\ deadline' = [r \in Request |-> -1]
    /\ UNCHANGED <<nmVars, audit, confirmed>>

Apply(r) ==
    \/ Create(r) \/ Update(r) \/ Activate(r) \/ Undo(r)
    \/ Register(r) \/ Show(r) \/ Fail(r)
Reply(a) == Confirm(a) \/ Cancel(a) \/ Record(a)

Next ==
    \/ \E r \in Request, d \in Device, c \in Config : Begin(r, d, c)
    \/ \E r \in Request : Refuse(r) \/ Apply(r) \/ Timeout(r)
    \/ \E a \in Answer, k \in Kind, t \in Request : TakePending(a, k, t)
    \/ \E a \in Answer : Reply(a)
    \/ Tick
    \/ Crash

Spec == Init /\ [][Next]_vars

(* Handlers that run are scheduled, the clock advances and due timers      *)
(* fire.  Nothing obliges an operator to answer, or the gateway to crash.  *)
Fairness ==
    /\ \A r \in Request : WF_vars(Apply(r)) /\ WF_vars(Timeout(r))
    /\ \A a \in Answer : WF_vars(Reply(a))
    /\ WF_vars(Tick)

FairSpec == Spec /\ Fairness

----------------------------------------------------------------------------
(* Whatever fails, is lost or crashes, a device without a live checkpoint  *)
(* has exactly the setting an operator last confirmed, in its profile and  *)
(* on the wire: the anti-lockout primitive of ApplyIPv4.                   *)
OnlyConfirmedSurvives ==
    \A d \in Device : LiveOn(d) = {} => SettingOf(d) = confirmed[d]

(* takePending's "NM already rolled back": when the server refuses a token *)
(* because its deadline passed, the change really is gone.                 *)
ExpiredMeansReverted ==
    \A r \in pending : deadline[r] < 0 => ~Live(r)

(* What the audit table says happened to a change did happen: a confirmed  *)
(* change was kept and a cancelled one was not, whichever handlers raced.  *)
AuditTellsFate ==
    \A r \in Request :
        /\ <<"network_confirm", r>> \in audit => checkpoint[r].status = "destroyed"
        /\ <<"network_cancel", r>> \in audit => checkpoint[r].status # "destroyed"
        /\ <<"network_apply_failed", r>> \in audit => checkpoint[r].status # "destroyed"

(* Every change ends: confirmed, cancelled or rolled back by the timer,    *)
(* even when the operator is locked out or the gateway has died.           *)
TrialEnds == \A r \in Request : Live(r) ~> ~Live(r)
=============================================================================
