SPECIFICATION FairSpec
CONSTANTS
    Scans = {s1}
    MaxTime = 2
    ChunkSize = 2
    Schema <- TwoColumns
    Queries <- RowQueries
    Results <- RowResults
    TimesGiven = {0, 2}
    PreferencesSet = {"default"}
    Servers = {"timed"}
    MayFail = TRUE
INVARIANTS
    TypeOK
    EveryRowOnce
    CountGivesOneRow
    ColumnsLineUp
PROPERTIES
    QueriesEnd
