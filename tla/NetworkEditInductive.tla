------------------------ MODULE NetworkEditInductive ------------------------
(***************************************************************************)
(* The inductive invariants behind the theorems of NetworkEditProofs.  TLC *)
(* checks them on the instances of MCNetworkEdit.                          *)
(***************************************************************************)
EXTENDS NetworkEdit

(* Requests that hold a device: they have read which profile it runs. *)
Holding == {"begun", "created", "updated", "undo", "applied", "registered", "shown"}
(* Requests that may have a token in the pending map, or had one. *)
Answerable == {"registered", "shown"}

(* What a request has read is set while it works with it. *)
HoldingTyped ==
    \A r \in Request : req[r].pc \in Holding =>
        req[r].dev \in Device /\ req[r].profile \in Profile /\ req[r].cfg \in Config

(* The snapshot of a profile has that profile's settings. *)
SnapshotsComplete ==
    \A r \in Request : checkpoint[r].profile \in Profile => checkpoint[r].was.saved \in Config

(* A request creates its checkpoint once, when it leaves "begun". *)
FreshBeforeCreate ==
    \A r \in Request : req[r].pc \in {"idle", "begun"} => checkpoint[r].status = "none"

(* A change that was kept had been shown to the operator. *)
DestroyedWasShown ==
    \A r \in Request : checkpoint[r].status = "destroyed" => req[r].pc = "shown"

PendingWasApplied == \A r \in pending : req[r].pc \in Answerable

(* The server's deadline never runs ahead of NetworkManager's timer. *)
DeadlineAfterTimer ==
    \A r \in pending : Live(r) => checkpoint[r].left <= deadline[r]

(* One handler holds a taken token, and it is not in the map any more. *)
TakenOnce ==
    \A a \in Answer : answer[a].pc \in {"taken", "record"} =>
        LET t == answer[a].token IN
        /\ answer[a].kind \in Kind
        /\ t \in Request \ pending
        /\ req[t].pc = "shown"
        /\ \A b \in Answer : answer[b].pc \in {"taken", "record"} /\ answer[b].token = t
                             => b = a

(* A change that can still be answered has not been kept. *)
OpenNotKept ==
    /\ \A r \in pending : checkpoint[r].status # "destroyed"
    /\ \A a \in Answer :
           answer[a].pc = "taken" => checkpoint[answer[a].token].status # "destroyed"

(* A handler about to write its audit row knows the change's fate. *)
RecordTellsFate ==
    \A a \in Answer : answer[a].pc = "record" =>
        IF answer[a].kind = "confirm"
        THEN checkpoint[answer[a].token].status = "destroyed"
        ELSE checkpoint[answer[a].token].status # "destroyed"

(* A change whose fate is in the audit table is in no handler's hands. *)
AuditedIsOver ==
    \A r \in Request :
        /\ <<"network_apply_failed", r>> \in audit => req[r].pc = "failed"
        /\ <<"network_cancel", r>> \in audit =>
               /\ req[r].pc = "shown"
               /\ r \notin pending
               /\ \A a \in Answer : answer[a].pc = "taken" => answer[a].token # r

(* The inductive invariant for the fate of a change. *)
FateInv ==
    /\ TypeOK
    /\ HoldingTyped
    /\ SnapshotsComplete
    /\ FreshBeforeCreate
    /\ DestroyedWasShown
    /\ PendingWasApplied
    /\ DeadlineAfterTimer
    /\ TakenOnce
    /\ OpenNotKept
    /\ RecordTellsFate
    /\ AuditedIsOver
    /\ AuditTellsFate

(* A request works on the profile its device runs. *)
HoldingIsActive ==
    \A r \in Request : req[r].pc \in Holding => req[r].profile = active[req[r].dev]

(* A live checkpoint guards one device, with what was last confirmed. *)
LiveGuards ==
    \A r \in Request : Live(r) =>
        LET c == checkpoint[r] IN
        /\ c.dev \in Device
        /\ c.profile \in Profile
        /\ c.profile = active[c.dev]
        /\ c.was = confirmed[c.dev]
        /\ \A q \in LiveOn(c.dev) : q = r

(* A request's own checkpoint is on its own device. *)
OwnDevice ==
    \A r \in Request : Live(r) /\ req[r].pc \in Holding => checkpoint[r].dev = req[r].dev

(* While the two calls after CheckpointCreate run, its timer is not due. *)
ChangingIsGuarded ==
    \A r \in Request : Changing(r) => Live(r) /\ checkpoint[r].left > 0

(* What an operator is asked to confirm is what the device has. *)
AppliedIsSet ==
    \A r \in Request : Live(r) =>
        /\ req[r].pc = "updated" => saved[req[r].profile] = req[r].cfg
        /\ req[r].pc \in {"applied", "registered", "shown"} =>
               SettingOf(req[r].dev) = [saved |-> req[r].cfg, applied |-> req[r].cfg]

(* The inductive invariant for the anti-lockout promise. *)
GuardInv ==
    /\ FateInv
    /\ Exclusive(active)
    /\ HoldingIsActive
    /\ LiveGuards
    /\ OwnDevice
    /\ ChangingIsGuarded
    /\ AppliedIsSet
    /\ OnlyConfirmedSurvives
=============================================================================
