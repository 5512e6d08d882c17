SPECIFICATION FairSpec
CONSTANTS
    Nodes <- MCNodes
    Devices = {"a"}
    Subjects <- MCSubjects
    Known = {"cross_border", "stock"}
    Unknown = {"fx"}
    Paths = {"home", "spare"}
    Versions = {"v1", "v2"}
    HomePath <- MCHomePath
    NoPath = "no path"
    Workers = {w1, w2}
    Count = 3
    Batches <- MCBatches
    Thresholds <- MCThresholds
    MaxReloads = 1
    MaxEdits = 1
INVARIANTS TypeOK GraphIsUnion NeverMilder
PROPERTIES OnlyLoadedPacksReplace BatchAnswersAll
CHECK_DEADLOCK FALSE
