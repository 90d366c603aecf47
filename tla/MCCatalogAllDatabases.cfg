SPECIFICATION Spec
CONSTANTS
    Threads = {t1, t2}
    NoThread = NoThread
    Databases = {d1, main}
    Collections = {c1}
    MaxVersion = 1
    MayFail = TRUE
    DatabaseName = NoDatabase
    NoDatabase = NoDatabase
    Main = main
    Operations = {"lookup", "scan", "clear"}
    SearchPaths = {d1, main}
SYMMETRY Sym
INVARIANTS
    LockOwnership
    WaitsClimb
    DanglingOnlyWhileLoading
    SchemaGetsGenerator
CHECK_DEADLOCK FALSE
