---------------------------- MODULE AccessPoints ----------------------------
(***************************************************************************)
(* What internal/network/wifi.go makes of a scan.  Two places read it: the *)
(* list of networks (WiFiNetworks) and the connect that is meant to join   *)
(* what the list showed (matchAP).  An access point is a record with its   *)
(* SSID, its strength, the set of its security flags and whether it is the *)
(* one the interface is connected to; a scan is a sequence of them.        *)
(***************************************************************************)
EXTENDS Integers, Sequences

(* The bits of Flags (privacy), WpaFlags (wpa...) and RsnFlags (rsn...). *)
Flag == {"privacy", "wpaPSK", "wpa8021X", "rsnPSK", "rsn8021X", "rsnSAE", "rsnOWE"}

(* The name of a hidden network is empty. *)
Hidden == ""

apSecurity(flags) ==
    IF "rsnSAE" \in flags THEN "WPA3"
    ELSE IF "rsnPSK" \in flags THEN "WPA2"
    ELSE IF "wpaPSK" \in flags THEN "WPA"
    ELSE IF flags \cap {"rsn8021X", "wpa8021X"} # {} THEN "802.1X"
    ELSE IF "rsnOWE" \in flags THEN "OWE"
    ELSE IF "privacy" \in flags THEN "WEP"
    ELSE "Open"

(* The second result of apSecurity. *)
Secured(flags) == apSecurity(flags) \notin {"OWE", "Open"}

secKeyMgmt(flags) ==
    IF "rsnSAE" \in flags THEN "sae"
    ELSE IF flags \cap {"rsnPSK", "wpaPSK"} # {} THEN "wpa-psk"
    ELSE ""

(* What the operator is told about a network nobody supports. *)
Unsupported == {"WEP", "802.1X"}

----------------------------------------------------------------------------
NoRow == [strength |-> -1, security |-> "", secured |-> FALSE, active |-> FALSE]

(* One access point of the list's loop, which skips hidden ones: the       *)
(* strongest of an SSID is kept, the first one among equals, and marked    *)
(* when any of them is active.                                             *)
KeepStrongest(list, ap) ==
    LET cur == list[ap.ssid] IN
    IF ap.ssid = Hidden THEN list
    ELSE [list EXCEPT ![ap.ssid] =
        IF ap.strength > cur.strength
        THEN [strength |-> ap.strength, security |-> apSecurity(ap.flags),
              secured |-> Secured(ap.flags), active |-> ap.active \/ cur.active]
        ELSE [cur EXCEPT !.active = @ \/ ap.active]]

Visible(scan) == {scan[i].ssid : i \in DOMAIN scan} \ {Hidden}

(* WiFiNetworks: a row per SSID that is not hidden. *)
WiFiNetworks(scan) ==
    LET list[n \in 0..Len(scan)] ==
            IF n = 0 THEN [s \in Visible(scan) |-> NoRow]
            ELSE KeepStrongest(list[n - 1], scan[n])
    IN  list[Len(scan)]

NoMatch == [strength |-> -1, secured |-> FALSE, keymgmt |-> ""]

(* One access point of matchAP's loop, which looks for one SSID. *)
BestMatch(best, ap, ssid) ==
    IF ap.ssid = ssid /\ ap.strength > best.strength
    THEN [strength |-> ap.strength, secured |-> Secured(ap.flags),
          keymgmt |-> secKeyMgmt(ap.flags)]
    ELSE best

matchAP(scan, ssid) ==
    LET best[n \in 0..Len(scan)] ==
            IF n = 0 THEN NoMatch ELSE BestMatch(best[n - 1], scan[n], ssid)
    IN  best[Len(scan)]
=============================================================================
