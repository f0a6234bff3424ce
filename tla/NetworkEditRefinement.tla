----------------------- MODULE NetworkEditRefinement -----------------------
(***************************************************************************)
(* NetworkEdit implements ConfirmOrRevert: a device is on trial while a    *)
(* live checkpoint holds it, and its good state is the snapshot.           *)
(***************************************************************************)
EXTENDS NetworkEditInductive

(* A device's state: its setting, and which profile it runs. *)
DeviceState == [setting : Setting, profile : Profile \cup {None}]

trialBar == [d \in Device |->
    IF LiveOn(d) = {} THEN None ELSE CHOOSE r \in LiveOn(d) : TRUE]

runningBar == [d \in Device |-> [setting |-> SettingOf(d), profile |-> active[d]]]

goodBar == [d \in Device |->
    IF trialBar[d] = None THEN runningBar[d]
    ELSE LET c == checkpoint[trialBar[d]]
         IN  [setting |-> c.was, profile |-> c.profile]]

(* A confirm request that took a token stands for the operator's consent. *)
consentBar == {answer[a].token : a \in {b \in Answer : answer[b].kind = "confirm"}}

Abstract == INSTANCE ConfirmOrRevert WITH
    Change <- Request, State <- DeviceState, NoChange <- None,
    good <- goodBar, running <- runningBar, trial <- trialBar, consent <- consentBar

(* Every step of the handlers, of NetworkManager's timer and of a crash is *)
(* a step of the abstract protocol, or leaves its state alone: nothing     *)
(* changes outside a trial, and nothing is kept without consent to it.     *)
ImplementsConfirmOrRevert == Abstract!Spec
=============================================================================
