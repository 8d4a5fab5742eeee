CONSTANTS
    c1 = c1  c2 = c2
    Peer = {c1, c2}
    Inbox <- InboxMC
    Worker = {1, 2}
    WorkerOf <- WorkerOfMC
    ReadCap = 2
    WorkerCap = 1
    WriteCap = 1
    Stalled = {c1}
    Instance = {i1, i2}
    Versioned = TRUE
    MaxPending = 2
SPECIFICATION ProgressSpec
INVARIANTS ProgressTypeOK OrderUnlessOverflow
PROPERTIES OthersAreServed RegistrationFollowsInstance AddressesFollowRegistrations
    InterruptsEndProcess
CHECK_DEADLOCK FALSE
