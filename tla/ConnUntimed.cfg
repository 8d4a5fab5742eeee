CONSTANTS
    c1 = c1  c2 = c2   b1 = b1  b2 = b2
    Cid = {c1, c2}
    Obj = {o1, o2}
    Bucket = {b1, b2}
    BucketOf <- TwoBuckets
    Sender = {}
    None = None
    MaxConn = 1
    PoolMax = 1
    WriteCap = 1
    PumpsPrompt = FALSE
    SendersPrompt = FALSE
SPECIFICATION Spec
INVARIANTS TypeOK SlotAccounting ReleaseNeverWaits StatsAccounting SweptAreClosed
PROPERTIES ImplementsRegistry
SYMMETRY SymmetricObj
CHECK_DEADLOCK FALSE
