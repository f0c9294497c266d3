CONSTANTS
    c1 = c1
    c2 = c2
    s1 = s1
    p1 = p1
    k1 = k1
    k2 = k2
    NoTask = NoTask
    Empty = Empty
    Clients <- MCClients
    Spawned <- MCSpawned
    Prefetchers <- MCPrefetchers
    Keys <- MCKeys
    Shards <- MCShards
    shard_index <- MCShardIndex
    max_inflight_per_shard = 1
    serve_stale_enabled = TRUE
    MAX_TRACKED = 1
    MaxArrivals = 4
SPECIFICATION MCSpec
PROPERTIES
    AnswersNeverGoBack
    EveryQueryAnswered
CHECK_DEADLOCK FALSE
