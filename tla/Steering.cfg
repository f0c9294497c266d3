CONSTANTS
 h = h x = x y = y z = z p = p q = q p3 = p3
 Addrs <- MCAddrs
 Ipv6 = {}
 SpecialUse = {}
 Mapped = {}
 PrefixOf <- MCPrefixOf
 PoolCapacity = 1
 ValidationsMax = 2
 HourlyBudget = 1
 SuccessCap = 2
 NoSnapshot = NoSnapshot
 Workers = {1}
 Hosts = {h}
 Offers <- MCOffers
 Outcomes = {"accepted", "rejected", "Connect"}
 Verdicts = {"ok"}
 Http3 = FALSE
 QueueSize = 1
 Threshold = 1
 ProbeConfigs <- MCProbeConfigs
 MaxEpochs = 1
 MaxGeneration = 2
 NoJob = NoJob
 SteerConfigs <- MCSteerConfigs
 Builtin <- MCBuiltin
 Bodies <- MCBodies
 Plausible = {p, q, p3}
 MinPrefixes <- MCMin
 StaticCandidates = {x}
 Seeded = {z}
 Original <- MCOriginal
 Augment <- MCAugment
 Torn = Torn
SPECIFICATION MCSpec
INVARIANTS
    AdditionsAreAllowed
    ValidationsEarned
PROPERTIES
    PrefixesNeverCollapse
    UpdaterComesBack
CHECK_DEADLOCK FALSE
