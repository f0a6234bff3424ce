--------------------------- MODULE NetworkManager ---------------------------
(***************************************************************************)
(* The part of NetworkManager that internal/network/edit.go drives over    *)
(* D-Bus: connection profiles, the profile each device runs, and           *)
(* checkpoints.  NetworkManager is not in the repository; it is modelled   *)
(* from the calls the gateway makes and the results it relies on.          *)
(*                                                                         *)
(* A checkpoint is named by the apply request that creates it: the gateway *)
(* creates at most one per request and NetworkManager never reuses an      *)
(* object path.  Timers count down in ticks of one common clock.           *)
(***************************************************************************)
EXTENDS Integers

CONSTANTS
    Device,     \* network interfaces
    Profile,    \* saved connection profiles
    Config,     \* IPv4 configurations
    Request,    \* apply requests (POST /network/{iface}/apply)
    Window,     \* rollbackWindow in ticks
    None        \* no device, no profile or no configuration

ASSUME WindowAssumption == Window \in Nat \ {0}
ASSUME NoneAssumption == None \notin Device \cup Profile \cup Config \cup Request

VARIABLES
    saved,      \* saved[p]: the IPv4 section stored in profile p
    active,     \* active[d]: the profile device d runs, or None
    applied,    \* applied[d]: the IPv4 configuration device d runs
    checkpoint  \* checkpoint[r]: the checkpoint request r created

nmVars == <<saved, active, applied, checkpoint>>

(* What one device has: what its profile says and what it runs. *)
Setting == [saved : Config \cup {None}, applied : Config \cup {None}]
NoSetting == [saved |-> None, applied |-> None]

SettingOf(d) ==
    [saved |-> IF active[d] = None THEN None ELSE saved[active[d]],
     applied |-> applied[d]]

CheckpointStatus == {"none", "live", "destroyed", "rolledback"}

(* `was' is the snapshot a rollback restores; `left' the time to the       *)
(* automatic rollback.                                                     *)
Checkpoint ==
    [status : CheckpointStatus, dev : Device \cup {None},
     profile : Profile \cup {None}, was : Setting, left : 0..Window]

NoCheckpoint(s) ==
    [status |-> s, dev |-> None, profile |-> None, was |-> NoSetting, left |-> 0]

Live(r) == checkpoint[r].status = "live"
LiveOn(d) == {r \in Request : Live(r) /\ checkpoint[r].dev = d}

(* A profile is active on one device at most. *)
Exclusive(f) == \A d, e \in Device : f[d] = f[e] /\ f[d] # None => d = e

NMTypeOK ==
    /\ saved \in [Profile -> Config]
    /\ active \in [Device -> Profile \cup {None}]
    /\ applied \in [Device -> Config \cup {None}]
    /\ checkpoint \in [Request -> Checkpoint]

NMInit ==
    /\ saved \in [Profile -> Config]
    /\ active \in {f \in [Device -> Profile \cup {None}] : Exclusive(f)}
    /\ applied \in {f \in [Device -> Config \cup {None}] :
                        \A d \in Device : f[d] = None <=> active[d] = None}
    /\ checkpoint = [r \in Request |-> NoCheckpoint("none")]

(* CheckpointCreate([d], Window, 0): refused while a checkpoint holds d,   *)
(* because flags 0 does not allow overlapping ones.                        *)
CheckpointCreate(r, d) ==
    /\ LiveOn(d) = {}
    /\ checkpoint' = [checkpoint EXCEPT ![r] =
           [status |-> "live", dev |-> d, profile |-> active[d],
            was |-> SettingOf(d), left |-> Window]]
    /\ UNCHANGED <<saved, active, applied>>

(* Settings.Connection.Update: rewrites the profile, not the device. *)
SettingsUpdate(p, c) ==
    /\ saved' = [saved EXCEPT ![p] = c]
    /\ UNCHANGED <<active, applied, checkpoint>>

(* ActivateConnection: the device runs what the profile says now. *)
ActivateConnection(p, d) ==
    /\ active' = [active EXCEPT ![d] = p]
    /\ applied' = [applied EXCEPT ![d] = saved[p]]
    /\ UNCHANGED <<saved, checkpoint>>

(* CheckpointDestroy: the changes stay; an error when it is gone. *)
CheckpointDestroy(r) ==
    /\ Live(r)
    /\ checkpoint' = [checkpoint EXCEPT ![r] = NoCheckpoint("destroyed")]
    /\ UNCHANGED <<saved, active, applied>>

(* CheckpointRollback, asked for or by the timer: the device gets back the *)
(* profile it ran, that profile its settings, the device its addresses.    *)
CheckpointRollback(r) ==
    LET c == checkpoint[r] IN
    /\ Live(r)
    /\ checkpoint' = [checkpoint EXCEPT ![r] = NoCheckpoint("rolledback")]
    /\ saved' = [p \in Profile |-> IF p = c.profile THEN c.was.saved ELSE saved[p]]
    /\ active' = [active EXCEPT ![c.dev] = c.profile]
    /\ applied' = [applied EXCEPT ![c.dev] = c.was.applied]

(* The timer of a checkpoint runs out and NetworkManager rolls it back. *)
CheckpointTimeout(r) ==
    /\ checkpoint[r].left = 0
    /\ CheckpointRollback(r)

(* One tick for the timers; a timer that is due fires before time goes on. *)
CheckpointTick ==
    /\ \A r \in Request : Live(r) => checkpoint[r].left > 0
    /\ checkpoint' = [r \in Request |->
           IF Live(r) THEN [checkpoint[r] EXCEPT !.left = @ - 1] ELSE checkpoint[r]]
    /\ UNCHANGED <<saved, active, applied>>
=============================================================================
