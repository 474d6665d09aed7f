\* Two reads of all kinds, one identity, one failure, a public or a private repository.
CONSTANTS
    c1 = c1
    c2 = c2
    i1 = i1
    w1 = w1
    Nobody = Nobody
    Requests = {c1, c2}
    Identities = {i1}
    IsolateOf <- OneIsolate
    Kinds <- Mixed
    Visibilities = {"public", "private"}
    MaxRefreshes = 1
    MaxFaults = 1
SPECIFICATION Spec
SYMMETRY Symmetry
INVARIANTS
    NoFillIsLeftBehind
    NobodyWaitsHolding
    RefreshesAreCounted
    PrivateStaysPrivate
