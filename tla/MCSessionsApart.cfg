CONSTANTS
    Null = Null
    User = {u1}
    Request = {r1, r2, r3}
    Lifetime = 1
    MaxTime = 2
    StatementsMayFail = TRUE
SPECIFICATION Spec
CONSTRAINTS RefreshesApart LogoutsApart LogoutAllsApart
SYMMETRY Interchangeable
CHECK_DEADLOCK FALSE
INVARIANTS OneLiveTokenPerSession LogoutAllEndsSessions
PROPERTIES LedgerSpec
