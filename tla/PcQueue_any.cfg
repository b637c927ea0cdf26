SPECIFICATION FairSpec
CONSTANTS
    Producers = {p1, p2}
    Consumers = {c1, c2}
    Capacity = 2
    SizeModulus = 16
    Junk = junk
    Nobody = nobody
    MaxCalls = 3
INVARIANTS TypeOK LockDiscipline RingArithmetic
PROPERTIES WedgedForGood CallsReturnOrWedge RefinesBoundedFifo
\* The threads stop when each has made its calls.
CHECK_DEADLOCK FALSE
