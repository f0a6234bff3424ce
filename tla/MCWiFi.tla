------------------------------- MODULE MCWiFi -------------------------------
(* Constants and the bounds of TLC's run of the Wi-Fi module. *)
EXTENDS WiFiInductive, TLC

CONSTANTS home, padded, cafe

(* Access points of one network with three kinds of security and two       *)
(* strengths, one of a network whose name is the first's with a blank at   *)
(* its end, one of another network and a hidden one.                       *)
Points ==
    [ssid : {home}, strength : {0, 60}, active : {FALSE},
     flags : {{}, {"wpa8021X", "privacy"}, {"rsnPSK", "rsn8021X"}}]
    \cup [ssid : {padded}, strength : {30}, active : {FALSE}, flags : {{"rsnPSK"}}]
    \cup [ssid : {cafe, ""}, strength : {30}, active : {TRUE}, flags : {{"rsnPSK"}}]

TrimBlanks == [s \in Ssid |-> IF s = padded THEN home ELSE s]

(* Every scan of at most three of them. *)
Scans == UNION {[1..n -> Points] : n \in 0..3}

(* A bound: beside an edit, which sees nothing of names and keys, a connect *)
(* joins a network shown as open, by its own name; no profile is for the   *)
(* padded one.                                                             *)
Plain(c) == c.exact /\ c.seen = "Open" /\ c.keymgmt = "open"
OthersApart ==
    \A q \in Click : click[q].kind = "connect" /\ ~Plain(click[q]) =>
        \A r \in Request : RequestAt(r, "idle")

MCSpec ==
    /\ WiFiInit /\ \A p \in Profile : ssidOf[p] # padded
    /\ [][WiFiNext /\ OthersApart']_allVars

Symmetry == Permutations(Click) \cup Permutations(Profile)
=============================================================================
