CONSTANTS
    Null = Null
    Time = Time
    StampKey = StampKey
    list = list
    one = one
    Request = {r1, r2, r3, r4}
    Key = {list}
    Lists = {list}
    MaxEdits = 0
    Served <- MCServed
    Ttl = 2
    StampTtl = 3
    Patience = 1
    MaxTime = 5
    Failures = {"strapi"}
SPECIFICATION Spec
CHECK_DEADLOCK FALSE
SYMMETRY Slots
INVARIANTS EntriesRunOut
PROPERTIES TimestampReported
