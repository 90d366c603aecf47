SPECIFICATION FreshnessSpec
CONSTANTS
    Threads = {t1, t2}
    NoThread = NoThread
    Databases = {d1}
    Collections = {c1}
    MaxVersion = 2
    MayFail = FALSE
    DatabaseName = d1
    NoDatabase = NoDatabase
    Main = Main
    Operations = {"lookup", "clear"}
    SearchPaths = {}
INVARIANT ClearRefreshes
CHECK_DEADLOCK FALSE
