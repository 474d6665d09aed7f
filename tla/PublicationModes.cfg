\* Two requests, plain, live or in the background, after an owner that died;
\* upstream changes once.
CONSTANTS
    c1 = c1
    c2 = c2
    Nobody = Nobody
    Clients = {c1, c2}
    Lease = 1
    IdGaps = {0}
    Modes = {"read", "live", "background"}
    MaxVersion = 2
    MaxFaults = 0
SPECIFICATION AbandonedSpec
SYMMETRY Symmetry
INVARIANTS
    LiveReadsAreLive
PROPERTIES
    NoSpuriousWake
