CONSTANTS
    A1 = A1
    A2 = A2
    GW = GW
    Me = Me
    Wild = Wild
    quad = quad
    q = q
    dnsQuad = dnsQuad
    dotQuad = dotQuad
    rev = rev
    dnsRev = dnsRev
    px = px
    None = None
    NoConfig = NoConfig
    Unspecified = Wild
    Gateway = GW
    Catalog <- MCCatalog
    Profiles <- MCProfiles
    IpAddrs <- MCIpAddrs
    Names <- MCNames
    LocalAddrs <- MCLocalAddrs
    StubAddrs <- MCStubAddrs
    ChinaEntries <- MCChinaEntries
    GlobalEntries <- MCGlobalEntries
    Files <- MCFiles
    Conf <- MCConf
    Reloaders <- MCReloaders
    Lookups <- MCLookups
SPECIFICATION MCSpec
INVARIANTS
    RoutesAreSound
    RefusedLeavesNoTrace
PROPERTIES
    DatasetsSettle
