\* A relay and two background refreshes, of which one may work at a time.
CONSTANTS
    r1 = r1
    b1 = b1
    b2 = b2
    Works = {r1, b1, b2}
    Background = {b1, b2}
    Limit = 2
    HalfLimit = 1
    Lease = 1
    Deadline = 2
    DrainBatch = 1
    MaxTime = 2
    MaxFaults = 0
SPECIFICATION Spec
SYMMETRY Symmetry
PROPERTIES
    ImplementsPool
