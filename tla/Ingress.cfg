CONSTANTS
    c1 = c1
    c2 = c2
    c3 = c3
    c4 = c4
    Addresses <- MCAddresses
    k1 = k1
    k2 = k2
    NoClient = NoClient
    Clients <- MCClients
    Conns <- MCConns
    normalise <- MCNormalise
    allow <- MCAllow
    deny <- MCDeny
    enabled = TRUE
    client_burst = 1
    global_burst = 1
    capacity = 1
    max_inflight = 1
    max_connections = 2
    max_connections_per_client = 1
    max_pipelined_queries = 1
    MapLimit = 1
    hf = hf
    cf = cf
    x = x
    y = y
    z = z
    w = w
    o = o
    cn = cn
    Unreadable = Unreadable
    BadAddress = BadAddress
    NoGroup = NoGroup
    Failed = Failed
    NoEdns = NoEdns
    NoAnswer = NoAnswer
    NoSig = NoSig
    NoReply = NoReply
    Labels <- MCLabels
    Requests <- MCRequests
    Confs <- MCConfs
    Files <- MCFiles
    Contents <- MCContents
    Policies <- MCPolicies
    NXDOMAIN_SUFFIXES <- MCSuffixes
    EndsInMarker = {"loop-probe", "my-loop-probe"}
    Sizes <- MCSizes
    MinimalSize = 100
    CacheRoom = 1
    Questions <- MCQuestions
SPECIFICATION MCSpec
INVARIANTS
    KeepsItsBudget
    PerClientBound
    DrainWritesEverything
    AnsweredByRule
    CachedForThisView
    ReplyFits
    OnlyEarnedChanges
    NothingOutlivesItsSource
PROPERTIES
    ConnectionsMoveOn
CHECK_DEADLOCK FALSE
