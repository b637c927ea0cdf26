SPECIFICATION Spec
CONSTANTS
    t1 = t1
    t2 = t2
    t3 = t3
    f = f
    a = a
    c = c
    long = long
    Threads = {t1, t2}
    Paths = {f, a, c, long}
    InvalidPaths = {}
    LongPaths = {long}
    NoName = noname
    MaxInodeCount = 4
    MaxBlockCount = 4
    MaxOpenFilesCount = 4
    BlockSize = 2
    MaxDirEntries = 3
    Present <- NoFile
    Menu <- CopyRaceMenu
    Nobody = nobody
INVARIANT CopyThenRead
\* Threads stop when their calls are made.
CHECK_DEADLOCK FALSE
