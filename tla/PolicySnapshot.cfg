\* A reader and two administrators, two failures.
CONSTANTS
    r1 = r1
    w1 = w1
    w2 = w2
    Nobody = Nobody
    Readers = {r1}
    Writers = {w1, w2}
    MaxAge = 2
    MaxTime = 4
    MaxFaults = 2
SPECIFICATION FairSpec
PROPERTIES
    EveryReadAnswered
    ImplementsRegister
INVARIANTS
    OutcomesTrue
