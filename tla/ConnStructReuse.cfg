CONSTANTS
    c1 = c1  c2 = c2   b1 = b1  b2 = b2
    Cid = {c1, c2}
    Obj = {o1, o2}
    Bucket = {b1}
    BucketOf <- OneBucket
    Sender = {s1}
    None = None
    MaxConn = 1
    PoolMax = 1
    WriteCap = 1
    PumpsPrompt = TRUE
    SendersPrompt = FALSE
SPECIFICATION Spec
INVARIANTS NoCrossDelivery
SYMMETRY Symmetric
CHECK_DEADLOCK FALSE
