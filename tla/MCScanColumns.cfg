SPECIFICATION Spec
CONSTANTS
    Scans = {s1}
    MaxTime = 1
    ChunkSize = 2
    Schema <- TwoColumns
    Queries <- TopNWithFilter
    Results <- RowResults
    TimesGiven = {0}
    PreferencesSet = {"default"}
    Servers = {"timed"}
    MayFail = TRUE
INVARIANT RowsHoldTheirColumns
