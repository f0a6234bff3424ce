-------------------------- MODULE ConfirmOrRevert --------------------------
(***************************************************************************)
(* What editing an interface promises (docs/ARCHITECTURE.md 8.2, the       *)
(* comment of ApplyIPv4): a device only leaves its good state inside a     *)
(* trial, and a trial ends by keeping the change, which takes an operator  *)
(* who consented to this very change, or by reverting to the good state.   *)
(***************************************************************************)
CONSTANTS Device, Change, State, NoChange

VARIABLES
    good,       \* good[d]: the state d falls back to
    running,    \* running[d]: the state of d now
    trial,      \* trial[d]: the change on trial on d, or NoChange
    consent     \* the changes an operator asked to keep

vars == <<good, running, trial, consent>>

Init ==
    /\ running \in [Device -> State]
    /\ good = running
    /\ trial = [d \in Device |-> NoChange]
    /\ consent = {}

(* A change opens a trial on a device that has none. *)
Open(d, ch) ==
    /\ trial[d] = NoChange
    /\ trial' = [trial EXCEPT ![d] = ch]
    /\ UNCHANGED <<good, running, consent>>

(* The device's state changes, inside its trial. *)
Alter(d, s) ==
    /\ trial[d] # NoChange
    /\ running' = [running EXCEPT ![d] = s]
    /\ UNCHANGED <<good, trial, consent>>

(* An operator asks to keep a change; asking for one that is over is idle. *)
Consent(ch) ==
    /\ consent' = consent \cup {ch}
    /\ UNCHANGED <<good, running, trial>>

Keep(d) ==
    /\ trial[d] \in consent
    /\ good' = [good EXCEPT ![d] = running[d]]
    /\ trial' = [trial EXCEPT ![d] = NoChange]
    /\ UNCHANGED <<running, consent>>

Revert(d) ==
    /\ trial[d] # NoChange
    /\ running' = [running EXCEPT ![d] = good[d]]
    /\ trial' = [trial EXCEPT ![d] = NoChange]
    /\ UNCHANGED <<good, consent>>

Next ==
    \/ \E d \in Device :
          \/ \E ch \in Change : Open(d, ch)
          \/ \E s \in State : Alter(d, s)
          \/ Keep(d) \/ Revert(d)
    \/ \E ch \in Change : Consent(ch)

Spec == Init /\ [][Next]_vars
=============================================================================
