----------------------------- MODULE WiFiInductive -----------------------------
(***************************************************************************)
(* The inductive invariants behind the theorems of WiFiProofs.  WiFiInv is *)
(* for a gateway with at most one Wi-Fi station: with two, a profile can   *)
(* move from one to the other while a checkpoint of the first still guards *)
(* it.  JoinInv is for any number of them.                                 *)
(***************************************************************************)
EXTENDS WiFi, NetworkEditInductive

OneStation == \A d, e \in Station : d = e

(* Interfaces that joining and leaving networks does not concern. *)
Wired == Device \ Station

(* The profile a click deletes is one for a network. *)
DeletesNetwork ==
    \A q \in Click : ClickAt(q, "delete", "forget") => ssidOf[click[q].profile] # None

(* A profile for a network has been stored; so has one a device runs. *)
ActiveKnown == \A d \in Device : active[d] # None => active[d] \in known

(* What a wired device runs is no network's and no other device's, and who *)
(* works on the device, or guards it, has that profile in mind.            *)
WiredTied ==
    \A d \in Wired : active[d] # None =>
        /\ ssidOf[active[d]] = None
        /\ \A e \in Device : active[e] = active[d] => e = d
        /\ \A r \in Request : req[r].pc \in Holding =>
               (req[r].dev = d <=> req[r].profile = active[d])
        /\ \A r \in Request : Live(r) =>
               (checkpoint[r].dev = d <=> checkpoint[r].profile = active[d])

(* A wired device without a connection is not edited. *)
IdleWired ==
    \A d \in Wired : active[d] = None =>
        /\ \A r \in Request : req[r].pc \in Holding => req[r].dev # d
        /\ LiveOn(d) = {}

(* A live checkpoint is the only one of its device. *)
LiveAlone ==
    \A r \in Request : Live(r) =>
        checkpoint[r].dev \in Device /\ \A q \in LiveOn(checkpoint[r].dev) : q = r

(* A request's checkpoint guards the profile the request works on, unless  *)
(* the device changed its profile in between.                              *)
GuardsOrLoose ==
    \A r \in Request : Live(r) /\ req[r].pc \in Holding =>
        checkpoint[r].profile = req[r].profile \/ req[r].profile \in loose

(* A rollback restores what the profile should have at rest. *)
SnapshotKept ==
    \A r \in Request : Live(r) /\ checkpoint[r].profile # None =>
        \/ checkpoint[r].was.saved = kept[checkpoint[r].profile]
        \/ checkpoint[r].profile \in loose

(* A profile that was edited is guarded, and only its own confirm keeps it. *)
EditedIsGuarded ==
    \A p \in Profile : saved[p] # kept[p] =>
        \/ p \in loose
        \/ \E r \in Request : /\ Live(r) /\ checkpoint[r].profile = p
                              /\ req[r].pc \in Holding => req[r].profile = p

WiFiInv ==
    /\ FateInv
    /\ WiFiTypeOK
    /\ DeletesNetwork
    /\ ActiveKnown
    /\ WiredTied
    /\ IdleWired
    /\ LiveAlone
    /\ OwnDevice
    /\ ChangingIsGuarded
    /\ GuardsOrLoose
    /\ SnapshotKept
    /\ EditedIsGuarded

(* A click that has not begun has joined nothing, and one for a network    *)
(* the list calls unsupported never comes to the point of joining it.      *)
RefusedInTime ==
    \A q \in Click :
        /\ click[q].pc = "idle" => click[q].profile = None /\ <<"wifi_connect", q>> \notin rows
        /\ ClickAt(q, "add", "connect") /\ click[q].exact =>
               click[q].seen \notin AP!Unsupported

JoinInv == FateInv /\ WiFiTypeOK /\ RefusedInTime /\ JoinAsListed

(* The list and the connect make the same of a scan, for a name without    *)
(* blanks at its ends: what the list calls WEP or 802.1X is what a connect *)
(* refuses, and what it gives a key to is what a connect asks a key for.   *)
ScansAgree ==
    \A s \in Ssid : Trim[s] = s => \A v \in Views[s] :
        /\ v.seen \in AP!Unsupported => v.best.secured /\ v.best.keymgmt = ""
        /\ v.seen \in {"WPA", "WPA2", "WPA3"} =>
               v.best.secured /\ v.best.keymgmt \in {"sae", "wpa-psk"}
        /\ v.seen \in {"Open", "OWE", ""} => ~v.best.secured
=============================================================================
