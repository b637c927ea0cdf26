SPECIFICATION FairSpec
CONSTANTS
    news = news
    pub = pub
    sub = sub
    Publishers = {pub}
    Subscribers = {sub}
    BoxOf <- Registered
    Boxes = {news}
    NoName = noname
    Junk = junk
    DirData = dirdata
    MaxInodeCount = 2
    MaxBlockCount = 3
    MaxOpenFilesCount = 4
    MaxDirEntries = 1
    SizeModulus = 16
    MaxSent <- Messages
    MaxRequests = 2
INVARIANTS TypeOK HandlesAccounted SentInOrder PanicHasCause
PROPERTIES  StoredStays Taken
\* Clients stop, and the broker may end.
CHECK_DEADLOCK FALSE
