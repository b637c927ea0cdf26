SPECIFICATION FairSpec
CONSTANTS
    Main = main
    Workers = {w1, w2}
    Boxes = {a}
    InvalidBoxes = {}
    NoBox = nobox
    MaxOpenFilesCount = 4
    MaxFiles = 1
    MaxRequests = 5
    SizeModulus = 16
    Junk = junk
    Nobody = nobody
INVARIANTS TypeOK OnlyMainHangs TwoPublishersHaveCause SessionsCoverEntries
PROPERTIES OverwriteHasCause WorkersSettle
\* The process may end, and clients stop sending.
CHECK_DEADLOCK FALSE
