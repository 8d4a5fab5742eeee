CONSTANTS
    g1 = g1  g2 = g2  g3 = g3  ra = ra  rb = rb  rc = rc  long = long
    n1 = n1  n2 = n2  bi1 = bi1  bi2 = bi2  lk1 = lk1  lk2 = lk2  up = up
    u1 = u1  u2 = u2  ph1 = ph1  ph2 = ph2
    p1 = p1  p2 = p2  x1 = x1  x2 = x2  d1 = d1  d2 = d2
    Second = 2
    Rates = {1, 2}
    Bursts = {1, 2}
    MaxTime = 4
    MaxPassed = 6
    Client = {g1, g2, g3}
    Route = {ra, rb, rc, long}
    Code = {1, 2, 3}
    Dict <- DictMC
    RouteLen <- RouteLenMC
    Message <- MessageMC
    Size <- SizeMC
    Call = {n1, n2, bi1, bi2, lk1, lk2, up}
    CallKind <- CallKindMC
    CallUid <- CallUidMC
    CallPhone <- CallPhoneMC
    Uid = {u1, u2}
    Phone = {ph1, ph2}
    OldUids = {u2}
    NoPhone = NoPhone
    Room = Room
    NoRoom = NoRoom
    PushId = {p1, p2}
    Player = {x1, x2}
    Connector = {d1, d2}
    Users <- UsersMC
    Backends = {b1, b2}
    Home = b1
    PushChanCap = 1
    RemoteCap = 1
    Reg = {r1, r2, r3}
    AccountIdBegin = 10000
    MaxRetries = 1
    KeyAtStart = Absent
    Absent = Absent
    Levels = {l1, l2}
    RetentionDay = 1
    DayTicks = 2
    MaxTick = 4
    MaxLogs = 4
    v1 = v1  v2 = v2  v3 = v3  w = w  ty = ty  tz = tz  q1 = q1  q2 = q2  q3 = q3  q4 = q4  ky = ky
    Choice = {q1, q2, q3, q4}
    ServerType = {ty, tz}
    Server = {v1, v2, v3, w}
    Files <- FilesMC
    TypeOf <- TypeOfMC
    TypeAsked <- TypeAskedMC
    Points <- PointsMC
    HashKey = {ky}
    KeyHash <- KeyHashMC
    Reports <- ReportsMC
    Unset = Unset
    Panic = Panic
SPECIFICATION ServicesSpec
INVARIANTS ServicesTypeOK WindowBound DestinationIsListed RoundRobinBalanced MessagesKeepMeaning OneUserUnlessRaced LockExclusive BindingsAgree
    PushesArriveInOrder UniqueUnlessReset CollisionBound LogsKept
CHECK_DEADLOCK FALSE
