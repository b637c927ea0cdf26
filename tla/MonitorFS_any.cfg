SPECIFICATION Spec
CONSTANTS
    Paths = {a, b, bad, long}
    InvalidPaths = {bad}
    LongPaths = {long}
    Bytes = {x, y}
    Junk = junk
    DirData = dirdata
    NoName = noname
    MaxInodeCount = 3
    MaxBlockCount = 3
    MaxOpenFilesCount = 2
    BlockSize = 1
    MaxDirEntries = 3
    SizeModulus = 32
    MaxTransfer = 1
    OffsetBound = 2
INVARIANTS TypeOK DirectoryConsistent BlocksNeverShared OnlyReadsPanic IInv
PROPERTIES DirectoryBlockIsolated ForeignWriteHasCause
\* The process may end: a panic or a fault stops every thread.
CHECK_DEADLOCK FALSE
SYMMETRY Symmetry
VIEW TablesView
