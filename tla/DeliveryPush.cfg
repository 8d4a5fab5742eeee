CONSTANTS
    a1 = a1  a2 = a2  a3 = a3  s1 = s1  s2 = s2  p1 = p1  p2 = p2
    k1 = k1  k2 = k2  c1 = c1  c2 = c2  b1 = b1  b2 = b2
    Msg = {a1, p1}
    Key = {k1}
    Cid = {c1}
    Bucket = {b1}
    BatchSize = 2
    PushCap = 1
    WriteCap = 1
    Kind <- KindMC
    Target <- TargetMC
    Keys <- KeysMC
    BucketOf <- BucketMC
    None = None
SPECIFICATION DeliverySpec
INVARIANT PushIsNotFatal
CHECK_DEADLOCK FALSE
