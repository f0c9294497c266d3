CONSTANTS
    f1 = f1
    f2 = f2
    quad9 = quad9
    cloudflare = cloudflare
    gateway = gateway
    Fetches <- MCFetches
    Authorities <- MCAuthorities
    Independent <- MCIndependent
    Configs <- MCConfigs
    RawTtls <- MCRawTtls
    validation_capacity = 1
    PROOF_COMPLETION_CONCURRENCY = 2
    internal_max_ttl = 30
    negative_max_ttl = 20
    PROVISIONAL_NEGATIVE_TTL = 5
    Nothing = Nothing

SPECIFICATION FetchSpec
SYMMETRY FetchSymmetry
INVARIANTS
    BogusFailsClosed
    UnprovedNeedsTwo
    LongDenialsAreCorroborated
    ValidationSlotsConserved
CHECK_DEADLOCK FALSE
