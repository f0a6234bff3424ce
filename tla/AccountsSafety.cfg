SPECIFICATION Spec
CONSTANTS
    Request = {q1, q2, q3}
    Name = {n1, n2}
    Password = {p1, p2}
    TTL = 2
    StoreFails = TRUE
    None = None
SYMMETRY Symmetry
INVARIANTS
    TypeOK
    SessionIsEarned
    SetupCloses
    AuditNamesHolder
    EndedStaysEnded
