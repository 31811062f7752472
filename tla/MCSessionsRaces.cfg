CONSTANTS
    Null = Null
    User = {u1}
    Request = {r1, r2, r3}
    Lifetime = 1
    MaxTime = 2
    StatementsMayFail = TRUE
SPECIFICATION Spec
CHECK_DEADLOCK FALSE
SYMMETRY Interchangeable
INVARIANTS TypeOK HopelessRequestsFail IssuedTokensAreStored AnsweredMeansRevoked
PROPERTIES RevokedForever
