SPECIFICATION FairSpec
CONSTANTS
    Threads = {t1, t2}
    NoThread = NoThread
    Databases = {d1}
    Collections = {c1}
    MaxVersion = 2
    MayFail = FALSE
    DatabaseName = d1
    NoDatabase = NoDatabase
    Main = Main
    Operations = {"lookup", "scan", "drop_view", "create_view"}
    SearchPaths = {d1}
PROPERTIES
    OperationsReturn
    MissesAreTransient
