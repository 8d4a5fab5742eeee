CONSTANTS
    Reg = {r1, r2}
    AccountIdBegin = 10000
    MaxRetries = 1
    KeyAtStart = Absent
    Absent = Absent
SPECIFICATION AccountSpec
INVARIANTS UidsUnique
CHECK_DEADLOCK FALSE
