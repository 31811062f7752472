CONSTANTS
    u1 = u1
    u2 = u2
    u3 = u3
    r1 = r1
    r2 = r2
    r3 = r3
    lower = lower
    upper = upper
    other = other
    fresh = fresh
    p1 = p1
    p2 = p2
    Null = Null
    User = {u1, u2}
    Spelling = {lower, other}
    Canon <- MCCanon
    Profile = {p1}
    InitialTables <- MCTables
    Request = {r1, r2}
    StatementsMayFail = FALSE
SPECIFICATION Spec
CHECK_DEADLOCK FALSE
INVARIANT AdminRemains
