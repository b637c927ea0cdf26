SPECIFICATION FairSpec
CONSTANTS
    Producers = {p1}
    Consumers = {c1}
    Capacity = 2
    SizeModulus = 16
    Junk = junk
    Nobody = nobody
    MaxCalls = 5
PROPERTY SleepersWake
CHECK_DEADLOCK FALSE
