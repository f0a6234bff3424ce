SPECIFICATION MCSpec
CONSTANTS
    Device = {wlan}
    Station = {wlan}
    Profile = {p1, p2, p3}
    Config = {dhcp}
    AutoIPv4 = dhcp
    Request = {r1}
    Answer = {a1}
    Window = 1
    None = None
    SlowBus = FALSE
    Click = {q1}
    home = home
    padded = padded
    cafe = cafe
    Ssid = {home, padded}
    Trim <- TrimBlanks
    Scan <- Scans
SYMMETRY Symmetry
INVARIANT SecurityFromScan
CHECK_DEADLOCK FALSE
