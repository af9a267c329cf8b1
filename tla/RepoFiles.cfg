SPECIFICATION RepoSpec
CONSTANTS
    NumPaths = 4
    Readable = {1, 2, 4}
    Readers = {a, b, c}
    MaxFiles = 4
    MaxTokens = 2
    Sizes = {3, 4, 11, 12}
    Tiers = {1, 2}
    DocTypes = {"readme", "diagram"}
    MaxEntries = 5
    MaxSpecs = 1
    MaxBody = 1
    Trees <- MCTrees
    Sources <- MCSources
    Audiences <- MCAudiences
INVARIANTS
    TypeOK
    EachFileOnce
    CompleteUnlessCancelled
    NoDeliveryAfterClose
    ScanTakesFirst
    EachFileInABatch
    PackedTight
    
PROPERTIES
    ParseCallSpec
CHECK_DEADLOCK FALSE
