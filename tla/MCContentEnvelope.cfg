CONSTANTS
    Null = Null
    Time = Time
    StampKey = StampKey
    list = list
    one = one
    Request = {r1, r2}
    Key = {list}
    Lists = {list}
    MaxEdits = 0
    Served <- MCServed
    Ttl = 1
    StampTtl = 1
    Patience = 1
    MaxTime = 0
    Failures = {}
SPECIFICATION Spec
CHECK_DEADLOCK FALSE
INVARIANTS EnvelopedOnce
