SPECIFICATION DisciplinedSpec
CONSTANTS
    Paths = {a, b, c, long}
    InvalidPaths = {}
    LongPaths = {long}
    Bytes = {x, y}
    Junk = junk
    DirData = dirdata
    NoName = noname
    MaxInodeCount = 4
    MaxBlockCount = 2
    MaxOpenFilesCount = 2
    BlockSize = 2
    MaxDirEntries = 2
    SizeModulus = 32
    MaxTransfer = 2
    OffsetBound = 4
INVARIANTS OffsetWithinSize NeverAborts NoBlockLeak
PROPERTIES RefinesFlatStore
SYMMETRY Symmetry
