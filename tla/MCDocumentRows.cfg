\* Every collection of MCInputs, sampled and scanned in chunks of two rows.
\* Deadlock is not checked: a scan ends.
SPECIFICATION Spec
CONSTANTS
    Inputs <- MCInputs
    MaxDepth = 1
    MaxScanned = 2
    MaxArrayDepth = 3
    PathOrder <- MCPathOrder
    ChunkSize = 2
INVARIANTS
    TypeOK
    ColumnsNameSample
    RowsAreTheirDocuments
    ModeHonoured
    SampleShown
    ListsShown
CHECK_DEADLOCK FALSE
