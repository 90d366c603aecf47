SPECIFICATION Spec
CONSTANTS
    Threads = {t1, t2}
    NoThread = NoThread
    Databases = {d1}
    Collections = {c1}
    MaxVersion = 1
    MayFail = FALSE
    DatabaseName = d1
    NoDatabase = NoDatabase
    Main = Main
    Operations = {"lookup", "clear"}
    SearchPaths = {d1}
INVARIANT NoSelfWait
CHECK_DEADLOCK FALSE
