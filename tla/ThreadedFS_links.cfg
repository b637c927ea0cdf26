SPECIFICATION FairSpec
CONSTANTS
    t1 = t1
    t2 = t2
    t3 = t3
    f = f
    a = a
    c = c
    long = long
    Threads = {t1, t2, t3}
    Paths = {f, a, c}
    InvalidPaths = {}
    LongPaths = {}
    NoName = noname
    MaxInodeCount = 2
    MaxBlockCount = 2
    MaxOpenFilesCount = 1
    BlockSize = 2
    MaxDirEntries = 3
    Present <- OneFile
    Menu <- LinksMenu
    Nobody = nobody
INVARIANTS LinksCounted NeverAborts
PROPERTIES CallsReturn
\* Threads stop when their calls are made.
CHECK_DEADLOCK FALSE
