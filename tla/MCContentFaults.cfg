CONSTANTS
    Null = Null
    Time = Time
    StampKey = StampKey
    list = list
    one = one
    Request = {r1, r2, r3}
    Key = {one}
    Lists = {}
    MaxEdits = 2
    Served <- MCServed
    Ttl = 1
    StampTtl = 1
    Patience = 1
    MaxTime = 1
    Failures = {"redis", "crash"}
SPECIFICATION Spec
CHECK_DEADLOCK FALSE
SYMMETRY Slots
INVARIANTS TypeOK CachedWasServed ReadsSurviveRedis FreshAfterInvalidation
