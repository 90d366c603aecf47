SPECIFICATION Spec
CONSTANTS
    Scans = {s1, s2}
    MaxTime = 2
    ChunkSize = 2
    Schema <- OneColumn
    Queries <- ReadQueries
    Results <- ReadResults
    TimesGiven <- AllTimes
    PreferencesSet = {"default", "any", "unreadable"}
    Servers = {"none", "untimed", "timed"}
    MayFail = FALSE
SYMMETRY ScanSymmetry
INVARIANTS
    OperationTimeCoversRead
    CausalChain
