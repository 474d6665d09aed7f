\* Two live reads, ids with gaps, upstream changing once, one failure.
CONSTANTS
    c1 = c1
    c2 = c2
    Nobody = Nobody
    Clients = {c1, c2}
    Lease = 1
    IdGaps = {1}
    Modes = {"live"}
    MaxVersion = 2
    MaxFaults = 1
SPECIFICATION Spec
SYMMETRY Symmetry
INVARIANTS
    OutcomesHonest
    LiveOwnerCanPublish
PROPERTIES
    StoresGoForward
    EndedNeverStores
    ImplementsFence
