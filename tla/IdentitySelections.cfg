\* Two relays on one route, two identities.
CONSTANTS
    c1 = c1
    c2 = c2
    c3 = c3
    i1 = i1
    i2 = i2
    t1 = t1
    t2 = t2
    core = core
    Nobody = Nobody
    GraphQL = GraphQL
    Requests = {c1, c2}
    Identities = {i1, i2}
    Routes = {t1}
    Resources = {core}
    ResourceOf <- OneResource
    Weight <- Weights
    Pools <- All
    Refusals = {"forbidden"}
    FullQuota = 1
    LeaseTtl = 1
    CooldownTtl = 1
    SecondaryTtl = 1
    RetryAfters = {0}
    PruneLimit = 1
    Window = 2
    MaxTime = 2
    MaxFaults = 0
SPECIFICATION FairSpec
PROPERTIES
    EveryRequestEnds
    SelectionsFollowReports
    
