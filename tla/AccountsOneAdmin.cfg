SPECIFICATION Spec
CONSTANTS
    Request = {q1, q2}
    Name = {n1, n2}
    Password = {p1, p2}
    TTL = 1
    StoreFails = FALSE
    None = None
INVARIANTS
    OneAdmin
