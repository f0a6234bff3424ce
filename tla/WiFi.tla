-------------------------------- MODULE WiFi --------------------------------
(***************************************************************************)
(* The Wi-Fi page (internal/network/wifi.go and the handlers of            *)
(* internal/httpserver/handlers_wifi.go) and the write probe               *)
(* (internal/network/write.go), composed with the editing of an interface: *)
(* joining, leaving and forgetting a network changes the profiles and the  *)
(* active connection an edit has looked up, and nothing locks one against  *)
(* the other.  One action per D-Bus call that changes NetworkManager.      *)
(***************************************************************************)
EXTENDS NetworkEdit, Sequences

CONSTANTS
    Ssid,       \* names of networks
    Trim,       \* Trim[s]: s without the blanks at its ends (strings.TrimSpace)
    Scan,       \* what a scan may find: sequences of access points
    AutoIPv4,   \* the IPv4 section of a profile made by a connect
    Station,    \* the Wi-Fi interfaces that are not access points
    Click       \* requests to connect, disconnect and forget

ASSUME AutoIPv4Assumption == AutoIPv4 \in Config
ASSUME StationAssumption == Station \subseteq Device

AP == INSTANCE AccessPoints

ASSUME SsidAssumption == None \notin Ssid /\ AP!Hidden \notin Ssid
ASSUME ScanAssumption ==
    \A scan \in Scan : Len(scan) \in Nat /\ DOMAIN scan = 1..Len(scan)
ASSUME TrimAssumption == Trim \in [Ssid -> Ssid \cup {AP!Hidden}]

VARIABLES
    known,      \* profiles NetworkManager has stored
    ssidOf,     \* ssidOf[p]: the network profile p is for, None for others
    click,      \* click[q]: progress of request q
    rows,       \* the audit rows these requests handed to the store
    hold,       \* the probe's checkpoint of all devices, which has no timer
    kept,       \* kept[p]: history, the IPv4 section p should have at rest
    loose       \* history, profiles an apply edits that its checkpoint, made
                \* after the device changed its profile, does not guard

wifiVars == <<known, ssidOf, click, rows, hold, kept, loose>>
allVars == <<vars, wifiVars>>

ClickPC == {"idle", "add", "deactivate", "delete", "done"}
ClickKind == {"connect", "disconnect", "forget"}
RowKind == {"wifi_connect", "wifi_connect_failed", "wifi_disconnect", "wifi_forget"}
Fresh == [pc |-> "idle", kind |-> None, dev |-> None, ssid |-> None,
          profile |-> None, exact |-> FALSE, seen |-> "", keymgmt |-> ""]

ASSUME ClickAssumption == None \notin ClickKind

(* wifiIface: the station that was chosen, or else the first one. *)
wifiIface(sel) ==
    IF sel \in Station THEN sel
    ELSE IF Station = {} THEN None ELSE CHOOSE d \in Station : TRUE

(* What a list made of a scan says of network s. *)
Shown(scan, s) ==
    LET list == AP!WiFiNetworks(scan) IN IF s \in DOMAIN list THEN list[s].security ELSE ""

(* What a connect posted with name s may find: the scan is the one matchAP *)
(* draws, so a page that was rendered earlier has no part in it, and the   *)
(* name looked up is the posted one without its blanks.  `seen` is what a  *)
(* list of that scan says of the name as it was posted.                    *)
Views == [s \in Ssid |->
    {[seen |-> Shown(scan, s), best |-> AP!matchAP(scan, Trim[s])] : scan \in Scan}]

(* What a scan may say of a network, and the keys a connect may ask for. *)
AnyShown == {""} \cup UNION {{v.seen : v \in Views[s]} : s \in Ssid}
AnyKey == {"", "open"} \cup UNION {{v.best.keymgmt : v \in Views[s]} : s \in Ssid}

WiFiTypeOK ==
    /\ TypeOK
    /\ known \subseteq Profile
    /\ ssidOf \in [Profile -> Ssid \cup {None}]
    /\ click \in [Click -> [pc : ClickPC, kind : ClickKind \cup {None},
                             dev : Station \cup {None}, ssid : Ssid \cup {None},
                             profile : Profile \cup {None}, exact : BOOLEAN,
                             seen : AnyShown, keymgmt : AnyKey]]
    /\ \A q \in Click :
         click[q].pc \in {"deactivate", "delete"} => click[q].profile # None
    /\ rows \subseteq RowKind \X Click
    /\ hold \in {"none", "held"}
    /\ kept \in [Profile -> Config]
    /\ loose \subseteq Profile

(* The stored profiles are the active ones; each is for a network or none, *)
(* and one for a network runs on a station.                                *)
WiFiInit ==
    /\ Init
    /\ known = {active[d] : d \in Device} \ {None}
    /\ saved = [p \in Profile |-> AutoIPv4]
    /\ \A d \in Device : applied[d] \in {AutoIPv4, None}
    /\ ssidOf \in [Profile -> Ssid \cup {None}]
    /\ \A p \in Profile : ssidOf[p] # None => p \in {active[d] : d \in Station}
    /\ click = [q \in Click |-> Fresh]
    /\ rows = {}
    /\ hold = "none"
    /\ kept = saved
    /\ loose = {}

ClickAt(q, pc, kind) == click[q].pc = pc /\ click[q].kind = kind
Answered(q) == click' = [click EXCEPT ![q].pc = "done"]
Row(kind, q) == rows' = rows \cup {<<kind, q>>}

(* Wrong variant of WithSsid, a bug an invariant must catch: every stored  *)
(* profile is taken for one of the network.                                *)
AnySsid(s) == known

(* The profiles of a network, as handleWiFiForget looks for them. *)
WithSsid(s) == {p \in known : ssidOf[p] = s}

----------------------------------------------------------------------------
(* Wrong variants of actions below: each is a bug a property must catch.   *)

(* A connect that asks for a key for every network that has one.           *)
ConnectUnchecked(q, sel, s) ==
    \E v \in Views[s] :
    LET d == wifiIface(sel) IN
    /\ click[q].pc = "idle" /\ d # None /\ Trim[s] # AP!Hidden
    /\ click' = [click EXCEPT ![q] = [@ EXCEPT !.pc = "add", !.kind = "connect",
            !.dev = d, !.ssid = Trim[s], !.exact = Trim[s] = s, !.seen = v.seen,
            !.keymgmt = v.best.keymgmt]]
    /\ UNCHANGED <<vars, known, ssidOf, rows, hold, kept, loose>>

----------------------------------------------------------------------------
(* handleWiFiConnect takes the blanks off the name posted; no interface or *)
(* no name left ends it.  WiFiConnect draws a scan of its own, and ends a  *)
(* connect to a network that wants a key of a kind nobody supports.        *)
Connect(q, sel, s) ==
    \E v \in Views[s] :
    LET d == wifiIface(sel)
        best == v.best
        refused == best.secured /\ best.keymgmt = ""
    IN
    /\ click[q].pc = "idle" /\ d # None /\ Trim[s] # AP!Hidden
    /\ click' = [click EXCEPT ![q] = [@ EXCEPT !.pc = IF refused THEN "done" ELSE "add",
            !.kind = "connect", !.dev = d, !.ssid = Trim[s], !.exact = Trim[s] = s,
            !.seen = v.seen,
            !.keymgmt = IF best.secured THEN best.keymgmt ELSE "open"]]
    /\ IF refused THEN Row("wifi_connect_failed", q) ELSE UNCHANGED rows
    /\ UNCHANGED <<vars, known, ssidOf, hold, kept, loose>>

(* AddAndActivateConnection makes a new profile, also for a network that   *)
(* has one; it may fail, or work and lose its reply.                       *)
Add(q) ==
    LET c == click[q] IN
    /\ ClickAt(q, "add", "connect")
    /\ \/ \E p \in Profile \ known :
             /\ ssidOf[p] = None
             /\ known' = known \cup {p}
             /\ ssidOf' = [ssidOf EXCEPT ![p] = c.ssid]
             /\ active' = [active EXCEPT ![c.dev] = p]
             /\ applied' = [applied EXCEPT ![c.dev] = AutoIPv4]
             /\ click' = [click EXCEPT ![q].pc = "done", ![q].profile = p]
             /\ Row("wifi_connect", q) \/ Row("wifi_connect_failed", q)
       \/ /\ Answered(q) /\ Row("wifi_connect_failed", q)
          /\ UNCHANGED <<known, ssidOf, active, applied>>
    /\ UNCHANGED <<saved, checkpoint, editVars, hold, kept, loose>>

(* handleWiFiDisconnect reads the active connection; without one there is  *)
(* nothing to do, and the row is written all the same.                     *)
Disconnect(q, sel) ==
    LET d == wifiIface(sel) IN
    /\ click[q].pc = "idle"
    /\ click' = [click EXCEPT ![q] = [@ EXCEPT !.kind = "disconnect", !.dev = d,
            !.pc = IF d = None \/ active[d] = None THEN "done" ELSE "deactivate",
            !.profile = IF d = None THEN None ELSE active[d]]]
    /\ IF d # None /\ active[d] = None THEN Row("wifi_disconnect", q) ELSE UNCHANGED rows
    /\ UNCHANGED <<vars, known, ssidOf, hold, kept, loose>>

(* The device stops running profile p. *)
Stop(d) ==
    /\ active' = [active EXCEPT ![d] = None]
    /\ applied' = [applied EXCEPT ![d] = None]

(* DeactivateConnection: an error when that connection is gone by now. *)
Deactivate(q) ==
    LET c == click[q] IN
    /\ ClickAt(q, "deactivate", "disconnect")
    /\ Answered(q)
    /\ \/ active[c.dev] = c.profile /\ Stop(c.dev)
          /\ Row("wifi_disconnect", q)
       \/ UNCHANGED <<active, applied, rows>>
    /\ UNCHANGED <<saved, checkpoint, editVars, known, ssidOf, hold, kept, loose>>

(* handleWiFiForget takes the blanks off as well, lists the profiles and   *)
(* takes the first of that name; without one it has nothing to do.         *)
Forget(q, s) ==
    LET named == WithSsid(Trim[s]) IN
    /\ click[q].pc = "idle" /\ Trim[s] # AP!Hidden
    /\ \E p \in IF named = {} THEN {None} ELSE named :
          click' = [click EXCEPT ![q] = [@ EXCEPT !.kind = "forget", !.ssid = Trim[s],
                    !.pc = IF p = None THEN "done" ELSE "delete", !.profile = p]]
    /\ IF named = {} THEN Row("wifi_forget", q) ELSE UNCHANGED rows
    /\ UNCHANGED <<vars, known, ssidOf, hold, kept, loose>>

(* Settings.Connection.Delete: an error when the profile is gone by now. *)
Delete(q) ==
    LET p == click[q].profile IN
    /\ ClickAt(q, "delete", "forget")
    /\ Answered(q)
    /\ \/ /\ p \in known
          /\ known' = known \ {p}
          /\ \/ \E d \in Device : active[d] = p /\ Stop(d)
             \/ p \notin {active[d] : d \in Device} /\ UNCHANGED <<active, applied>>
          /\ Row("wifi_forget", q)
       \/ UNCHANGED <<known, active, applied, rows>>
    /\ UNCHANGED <<saved, checkpoint, editVars, ssidOf, hold, kept, loose>>

----------------------------------------------------------------------------
(* WriteProbe, a process of its own: a checkpoint of every device without  *)
(* a timer, destroyed at once; a probe that dies in between never does.    *)
ProbeCreate ==
    /\ hold = "none"
    /\ \A r \in Request : ~Live(r)
    /\ hold' = "held"
    /\ UNCHANGED <<vars, known, ssidOf, click, rows, kept, loose>>

ProbeDestroy ==
    /\ hold = "held"
    /\ hold' = "none"
    /\ UNCHANGED <<vars, known, ssidOf, click, rows, kept, loose>>

----------------------------------------------------------------------------
(* A step of an edit, with what it means for profiles that come and go:    *)
(* no checkpoint overlaps the probe's, nothing works on a deleted profile, *)
(* and a rollback stores again a profile that was deleted meanwhile.       *)
Created(r) == checkpoint'[r].status = "live" /\ ~Live(r)
Ended(r, status) == Live(r) /\ checkpoint'[r].status = status
Revived == {checkpoint[r].profile : r \in {r \in Request : Ended(r, "rolledback")}} \ {None}

EditStep ==
    /\ \/ \E r \in Request, d \in Device, c \in Config : Begin(r, d, c)
       \/ \E r \in Request : Refuse(r) \/ Apply(r) \/ Timeout(r)
       \/ \E a \in Answer, k \in Kind, t \in Request : TakePending(a, k, t)
       \/ \E a \in Answer : Reply(a)
       \/ Tick
    /\ \A r \in Request : Created(r) => hold = "none"
    /\ \A r \in Request : Changing(r) /\ req'[r] # req[r] /\ req[r].profile \notin known
                           => saved' = saved /\ active' = active
    /\ known' = known \cup Revived
    /\ kept' = [p \in Profile |->
           IF \E r \in Request : Ended(r, "destroyed") /\ req[r].profile = p
           THEN saved[p] ELSE kept[p]]
    /\ loose' = loose \cup {req[r].profile : r \in {r \in Request :
                    Created(r) /\ active[req[r].dev] # req[r].profile}}
    /\ UNCHANGED <<ssidOf, click, rows, hold>>

(* The gateway dies and with it the requests under way. *)
GatewayCrash ==
    /\ Crash
    /\ click' = [q \in Click |->
           IF click[q].pc = "idle" THEN click[q] ELSE [click[q] EXCEPT !.pc = "done"]]
    /\ UNCHANGED <<known, ssidOf, rows, hold, kept, loose>>

(* NetworkManager activates a stored profile on an idle station by itself. *)
AutoConnect(d, p) ==
    /\ active[d] = None
    /\ p \in known /\ p \notin {active[e] : e \in Device}
    /\ ActivateConnection(p, d)
    /\ UNCHANGED <<editVars, wifiVars>>

WiFiNext ==
    \/ EditStep
    \/ \E q \in Click, d \in Device, s \in Ssid :
          Connect(q, d, s) \/ Disconnect(q, d) \/ Forget(q, s)
    \/ \E q \in Click : Add(q) \/ Deactivate(q) \/ Delete(q)
    \/ \E d \in Station, p \in Profile : AutoConnect(d, p)
    \/ ProbeCreate \/ ProbeDestroy
    \/ GatewayCrash

WiFiSpec == WiFiInit /\ [][WiFiNext]_allVars

----------------------------------------------------------------------------
(* Whatever is joined, left or forgotten while edits are under way, a      *)
(* profile at rest has the IPv4 section an operator confirmed for it.  The *)
(* one way an edit survives unconfirmed is that the device changed its     *)
(* profile between ApplyIPv4's look-up and its CheckpointCreate, which     *)
(* then guards another profile than the one Update rewrites.  That holds   *)
(* of a gateway with one station: with two, the profile whose edit waits   *)
(* for its answer on one can be activated on the other, and whoever edits  *)
(* the other takes what is on trial for what was there before.             *)
EditStaysWithItsProfile ==
    \A p \in known : saved[p] # kept[p] =>
        p \in loose \/ \E r \in Request : Live(r) /\ checkpoint[r].profile = p

(* ApplyIPv4: it "changes an interface's IPv4 settings behind a             *)
(* NetworkManager checkpoint that auto-rolls back ... unless confirmed",    *)
(* so an edited profile without a live checkpoint is a confirmed one.       *)
UnconfirmedLeavesNoTrace ==
    \A p \in known : saved[p] # kept[p] =>
        \E r \in Request : Live(r) /\ checkpoint[r].profile = p

(* WiFiConnect makes the same of a network as the list of the scan it      *)
(* draws: it refuses what that list calls WEP or 802.1X and nothing else,  *)
(* asks for a key when the list says so and only then, provided the name   *)
(* has no blanks at its ends.  Whatever the name, the audit row of a join  *)
(* is written only after a profile was made.                               *)
JoinAsListed ==
    \A q \in Click : click[q].kind = "connect" =>
        LET c == click[q] IN
        /\ c.exact =>
            /\ c.seen \in AP!Unsupported => c.profile = None /\ <<"wifi_connect", q>> \notin rows
            /\ c.seen \in {"WPA", "WPA2", "WPA3"} => c.keymgmt \in {"sae", "wpa-psk"}
            /\ c.seen \in {"Open", "OWE", ""} => c.keymgmt = "open"
        /\ <<"wifi_connect", q>> \in rows => c.profile # None

(* WiFiConnect: "Determine security + specific AP from the current scan",  *)
(* so no network that the scan lists as secured is joined without a key.   *)
SecurityFromScan ==
    \A q \in Click :
        click[q].kind = "connect" /\ click[q].profile # None =>
            (click[q].seen \in {"WPA", "WPA2", "WPA3"} => click[q].keymgmt # "open")
=============================================================================
