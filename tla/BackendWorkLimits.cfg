\* Two relays compete for one permit; one call or answer is lost.
CONSTANTS
    r1 = r1
    r2 = r2
    Works = {r1, r2}
    Background = {}
    Limit = 1
    HalfLimit = 0
    Lease = 2
    Deadline = 3
    DrainBatch = 1
    MaxTime = 4
    MaxFaults = 1
SPECIFICATION Spec
SYMMETRY Symmetry
INVARIANTS
    WorkWithinLimit
    NoPermitLeaks
