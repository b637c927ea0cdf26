SPECIFICATION Spec
CONSTANTS
    pub = pub
    sub = sub
    manager = manager
    lister = lister
    Clients = {pub, sub, manager, lister}
    Means <- Started
    PipeName <- Pipes
    BoxName <- BoxNames
    ReadMax = 3
INVARIANTS ServesWhatWasAsked
\* The broker may end, and clients wait for ever.
CHECK_DEADLOCK FALSE
