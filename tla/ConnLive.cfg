CONSTANTS
    c1 = c1  c2 = c2   b1 = b1  b2 = b2
    Cid = {c1}
    Obj = {o1}
    Bucket = {b1}
    BucketOf <- OneBucket
    Sender = {s1, s2}
    None = None
    MaxConn = 1
    PoolMax = 1
    WriteCap = 1
    PumpsPrompt = TRUE
    SendersPrompt = TRUE
SPECIFICATION FairSpec
PROPERTIES LostClientLeaves ClosedPumpsEnd SenderIsFreed CloseTerminates
CHECK_DEADLOCK FALSE
