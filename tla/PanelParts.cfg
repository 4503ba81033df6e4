CONSTANTS
    Commands = {c1, c2}
    PanelWorkers = {w1, w2}
    NoCommand = NoCommand
    NoPanelWorker = NoPanelWorker
    MaxTroubles = 1
    Origins = {o1, o2}
    FailoverRunners = {f1}
    DnsOperators = {d1}
    MaxFaults = 1
    MaxSwitches = 1
    PppTunnels = {t1}
    RecordTunnels = {t2}
    Peers = {p1, p2}
    NoConnection = NoConnection
    Allowance = 1
    NumAddresses = 2
    TunnelWorkers = {v1, v2}
    MaxMishaps = 2
    Quota = 2
    MaxMonth = 2
    MaxTraffic = 4
    MaxLosses = 1
    FleetNodes = {n1}
    KeyAdmins = {k1}
    Autosyncs = {a1}
    MaxKey = 3
    PeerNodes = {h1, h2}
    PeerRequests = {q1}
    PeerSyncs = {s1}
    NoPeerNode = NoPeerNode
    MaxEdits = 2
    MaxBreaks = 1
    Thresholds = {1, 2}
    Term = 3
    Scans = {z1, z2}
    MaxChanges = 1
    MaxSlips = 1
    Instances = {i1, i2}
    PanelSeed = PanelSeed
    MaxRotations = 2
    MaxDelays = 1
SPECIFICATION Spec
CONSTRAINTS
    OneKindOfConnection
    NumberedInOrder
    OneIncident
CHECK_DEADLOCK FALSE
INVARIANTS
    TypeOK
    DisconnectSeesRoutes
    MirrorTellsRecords
    AllowanceKept
    OffIsOff
    StraysAreFaults
    NeverOvercharged
    SpeedAgrees
    StaleIsFlagged
    EachNoticeOnce
PROPERTIES
    TerminalIsFinal
    CommandsSettle
    NeverEmptied
    DownNodeLeaves
    AllocatedIsFree
    QuotaTakesEffect
    KeySettles
    PeersSettle
    ReachedIsHeard
    BridgeSettles
