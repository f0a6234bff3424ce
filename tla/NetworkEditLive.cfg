SPECIFICATION FairSpec
CONSTANTS
    Device = {d1}
    Profile = {p1}
    Config = {dhcp, static}
    Request = {r1, r2}
    Answer = {a1, a2}
    Window = 1
    None = None
    SlowBus = FALSE
PROPERTIES
    TrialEnds
    ImplementsConfirmOrRevert
