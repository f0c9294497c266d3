CONSTANTS x=x y=y h=h p=p
 Addrs <- MCAddrs
 Ipv6 = {}
 SpecialUse = {}
 Mapped = {}
 PrefixOf <- MCPrefixOf
 PoolCapacity = 1
 ValidationsMax = 1
 SuccessCap = 2
 HourlyBudget = 1
 NoSnapshot = NoSnapshot
 Workers = {1, 2}
 Hosts = {h}
 Offers <- MCOffers
 Outcomes = {"accepted", "rejected", "Connect", "Tls", "Timeout"}
 Verdicts = {"ok", "cooldown", "policy"}
 Http3 = TRUE
 QueueSize = 1
 Threshold = 2
 ProbeConfigs <- MCConfigs
 MaxEpochs = 2
 MaxGeneration = 2
 NoJob = NoJob
SPECIFICATION MCSpec
INVARIANTS
    CountedFailuresBounded
    EvidenceIsMeasured
PROPERTIES
    EngineStops
CHECK_DEADLOCK FALSE
