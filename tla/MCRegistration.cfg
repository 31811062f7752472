CONSTANTS
    u1 = u1
    u2 = u2
    u3 = u3
    u4 = u4
    r1 = r1
    r2 = r2
    r3 = r3
    lower = lower
    upper = upper
    other = other
    p1 = p1
    Null = Null
    User = {u1, u2, u3, u4}
    Spelling = {lower, upper, other}
    Canon <- MCCanon
    Profile = {p1}
    InitialTables <- MCOneAdmin
    Request = {r1, r2, r3}
    StatementsMayFail = TRUE
SPECIFICATION RegistrationSpec
CHECK_DEADLOCK FALSE
INVARIANTS OneAccountPerMailbox RegistrationAnswers WelcomedOnce
PROPERTIES RegistrationsSettle DirectorySpec
