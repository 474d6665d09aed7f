\* Two relays, one identity, two quotas: every refusal and Retry-After, one failure.
CONSTANTS
    c1 = c1
    c2 = c2
    c3 = c3
    i1 = i1
    i2 = i2
    t1 = t1
    t2 = t2
    core = core
    Nobody = Nobody
    GraphQL = GraphQL
    Requests = {c1, c2}
    Identities = {i1}
    Routes = {t1, t2}
    Resources = {core, GraphQL}
    ResourceOf <- TwoResources
    Weight <- Weights
    Pools <- All
    Refusals = {"unauthorized", "forbidden", "limited", "secondary"}
    FullQuota = 2
    LeaseTtl = 1
    CooldownTtl = 2
    SecondaryTtl = 1
    RetryAfters = {0, 1, 3}
    PruneLimit = 1
    Window = 2
    MaxTime = 3
    MaxFaults = 1
SPECIFICATION Spec
SYMMETRY Symmetry
INVARIANTS
    ReportsConverge
