SPECIFICATION Spec
CONSTANTS
    t1 = t1
    t2 = t2
    t3 = t3
    f = f
    a = a
    c = c
    long = long
    Threads = {t1, t2}
    Paths = {f, a, long}
    InvalidPaths = {}
    LongPaths = {long}
    NoName = noname
    MaxInodeCount = 4
    MaxBlockCount = 2
    MaxOpenFilesCount = 2
    BlockSize = 2
    MaxDirEntries = 2
    Present <- OneFile
    Menu <- AnyMenu
    Nobody = nobody
INVARIANTS TypeOK LockDiscipline HandlesExclusive HangHasCause LinksWrongHasCause
           SharedBlockHasCause
\* Threads stop when their calls are made.
CHECK_DEADLOCK FALSE
