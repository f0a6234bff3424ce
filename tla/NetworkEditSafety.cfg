SPECIFICATION Spec
CONSTANTS
    Device = {d1, d2}
    Profile = {p1, p2}
    Config = {dhcp, static}
    Request = {r1, r2}
    Answer = {a1, a2}
    Window = 2
    None = None
    SlowBus = FALSE
SYMMETRY Symmetry
INVARIANTS
    OnlyConfirmedSurvives
    ExpiredMeansReverted
    AuditTellsFate
    GuardInv
