SPECIFICATION MCSpec
CONSTANTS
    Container = {gw, app}
    gw = gw
    app = app
    Self = gw
    Id <- Ids
    NameOf <- NamesOf
    Hostname <- AnyHostname
    ShortLen = 2
    Mountinfo <- AnyMount
    Ref <- Refs
    Request = {r1, r2}
    None = None
    ActionTimeout = 1
    Grace = 2
    Stream = {s1}
    Drain = 2
    Pair = {k1, k2, own}
    Own = own
    Byte = {b}
    Feed = nl
    Payload <- Payloads
    LogLength = 6
    W = 65536
    Exact = 1024
    First = 65535
    Growth = {0, 1}
    Limit = 3
    Ticks = 2
    RouteTables <- Routes
    InterfaceLists <- Interfaces
    MountTables <- Mounts
    Disks <- Drives
    TripLists <- Trips
    MediaTrees <- Media
    Attributes <- Attrs
    MaxOutput = 5
    MaxKeys = 2
INVARIANTS
    TypeOK
    GuardHolds
    OnlyStreamsFailShutdown
    ServedPairStays
    BootHealsFiles
    LinesAreWhole
    TicksAreTrue
    PagesAreTrue
    BridgeTypeOK
    OutputComplete
PROPERTIES
    CleanExitHasRecords
    ShutdownEnds
    JournalctlIsReaped
    BothEnd
