SPECIFICATION MCSpec
CONSTANTS
    Line = {busy, calm}
    calm = calm
    Request = {q1, q2}
    Ours = ours
    Other = other
    None = None
INVARIANTS
    HeldIsDriven
    ReadIsForgotten
    PageIsConsistent
    AuditTellsLevel
    GpioInv
PROPERTIES
    Answered
