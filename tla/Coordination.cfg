CONSTANTS
    t1 = t1
    t2 = t2
    t3 = t3
    k1 = k1
    k2 = k2
    value = value
    v1 = v1
    v2 = v2
    nodata = nodata
    nxdomain = nxdomain
    genuine = genuine
    a1 = a1
    a2 = a2
    a3 = a3
    NoTask = NoTask
    Empty = Empty
    Tasks <- MCTasks
    Keys <- MCKeys
    Values <- MCValues
    Shards <- MCShards
    shard_index <- MCShardIndex
    max_inflight_per_shard = 1
    Attempts <- MCAttempts
    circuit_failure_threshold = 2
    circuit_half_open_successes = 2
    CounterMax = 3
    Validations <- MCValidations
    Answers <- MCAnswers
    Denials <- MCDenials
    PROOF_COMPLETION_CONCURRENCY = 1
    MaxAnswers = 2
    None = None
SPECIFICATION MCSpec
INVARIANTS
    SecureIsProven
    NoLeakedSlot
PROPERTIES
    FollowersReturn
    CoalescingPromise
    RouteComesBack
