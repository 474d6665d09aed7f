\* Two reads, one failure: every request is answered.
CONSTANTS
    c1 = c1
    c2 = c2
    Nobody = Nobody
    Clients = {c1, c2}
    Lease = 1
    IdGaps = {0}
    Modes = {"read"}
    MaxVersion = 1
    MaxFaults = 1
SPECIFICATION FairSpec
PROPERTIES
    EveryRequestEnds
