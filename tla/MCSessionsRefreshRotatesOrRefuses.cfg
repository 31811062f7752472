CONSTANTS
    Null = Null
    User = {u1}
    Request = {r1, r2, r3}
    Lifetime = 1
    MaxTime = 1
    StatementsMayFail = FALSE
SPECIFICATION Spec
CONSTRAINTS RefreshesApart LogoutsApart LogoutAllsApart
CHECK_DEADLOCK FALSE
SYMMETRY Interchangeable
INVARIANT RefreshRotatesOrRefuses
