SPECIFICATION Spec
CONSTANTS
    Paths = {a, b, long}
    InvalidPaths = {}
    LongPaths = {long}
    Bytes = {x}
    Junk = junk
    DirData = dirdata
    NoName = noname
    MaxInodeCount = 3
    MaxBlockCount = 3
    MaxOpenFilesCount = 2
    BlockSize = 1
    MaxDirEntries = 3
    SizeModulus = 32
    MaxTransfer = 1
    OffsetBound = 2
PROPERTY ReadWithinSize
CHECK_DEADLOCK FALSE
