SPECIFICATION Spec
CONSTANTS
    Accounts = {"root", "help", "mod", "kicker", "user", "new"}
    People = {"p1", "p2"}
    Privs <- PolicyPrivileges
    Roles = {"r1", "r2"}
    Servers <- SmallServers
    Durations = {1, 3}
    MaxNow = 3
    MaxRequests = 4
    Labels = {"plain", "box"}
    ItemOf <- SmallItemOf
    Standing <- SmallStanding
    FolderSpecs <- SmallFolderSpecs
    MaxTreeDepth = 3
    Seeds <- SmallSeeds
    MaxTreeEdits = 2
    Members = {"ann", "mod"}
    NewsClass <- SmallNewsClass
    Moderators = {"mod"}
    Thresholds <- SmallThresholds
    MaxNewsgroups = 2
    PostIds = {1, 2, 3}
    ThreadReplyMax = 2
    Tasks = {"t1", "t2"}
    Sayings = {"join", "leave"}
    QueueCapacity = 2
    WriterBatch = 2
    KeepRows = 1
    PruneEvery = 2
    MaxCalls = 4
    MaxWriteErrors = 1
    Usernames = {"first", "second", "own"}
    Known = {"own"}
    Peers = {"c1", "c2"}
    AddressFree = 2
    PairFree = 1
    MaxBackoff = 3
    FailureWindow = 3
    MaxTracked = 3
    MaxTime = 5
    TokenParts = 2
    GateBurst = 2
    GateRefill = 1
    Carriers = {"d1", "d2"}
    ChunkSizes = {1, 3}
    ByteBurst = 3
    MaxTicks = 4
    MaxAhead = 6
INVARIANTS
    LastAdmin
    NoMinting
    NoTakeover
    TreeSound
    ThreadsWhole
    LogSound
    GuessesBounded
    Paced
PROPERTIES
    RankedBans
    GatesHold
    OwnWordsOnly
CHECK_DEADLOCK FALSE
