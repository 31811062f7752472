CONSTANTS
    u1 = u1
    u2 = u2
    u3 = u3
    r1 = r1
    r2 = r2
    r3 = r3
    lower = lower
    upper = upper
    other = other
    fresh = fresh
    p1 = p1
    p2 = p2
    Null = Null
    User = {u1, u2}
    Spelling = {lower, other}
    Canon <- MCCanon
    Profile = {p1}
    InitialTables <- MCTablesOrFree
    Request = {r1, r2, r3}
    StatementsMayFail = TRUE
SPECIFICATION Spec
CONSTRAINTS RowsApart DemotionsApart
CHECK_DEADLOCK FALSE
SYMMETRY Slots
INVARIANTS TypeOK AdminRemains
PROPERTIES RoleChangesAuthorised WritesAreExact DirectorySpec
