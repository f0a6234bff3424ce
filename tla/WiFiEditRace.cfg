SPECIFICATION MCSpec
CONSTANTS
    Device = {wlan}
    Station = {wlan}
    Profile = {p1, p2, p3}
    Config = {dhcp, static}
    AutoIPv4 = dhcp
    Request = {r1}
    Answer = {a1}
    Window = 1
    None = None
    SlowBus = FALSE
    Click = {q1, q2}
    home = home
    padded = padded
    cafe = cafe
    Ssid = {home, padded}
    Trim <- TrimBlanks
    Scan <- Scans
SYMMETRY Symmetry
INVARIANT UnconfirmedLeavesNoTrace
CHECK_DEADLOCK FALSE
