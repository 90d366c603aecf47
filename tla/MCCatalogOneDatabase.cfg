SPECIFICATION FreshnessSpec
CONSTANTS
    Threads = {t1, t2}
    NoThread = NoThread
    Databases = {d1}
    Collections = {c1}
    MaxVersion = 2
    MayFail = TRUE
    DatabaseName = d1
    NoDatabase = NoDatabase
    Main = Main
    Operations = {"lookup", "scan", "clear", "drop_view", "create_view"}
    SearchPaths = {d1}
SYMMETRY Sym
INVARIANTS
    TypeOK
    CacheAgreesWithViews
    ClearAloneRefreshes
PROPERTIES
    MissedSchemaOnlyDuringScan
    ImplementsRegistry
CHECK_DEADLOCK FALSE
