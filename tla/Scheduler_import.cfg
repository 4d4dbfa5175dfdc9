\* One scheduler thread, and ThreadImport waits for the queue.
CONSTANTS
    t1 = t1
    t2 = t2
    c1 = c1
    c2 = c2
    Main = Main
    Threads = {t1}
    Callers = {c1}
    Group = {c1}
    StopKinds = {}
    SyncAbove = 1
    MaxPosts = 3
SPECIFICATION Spec
CHECK_DEADLOCK FALSE
PROPERTIES ShutdownCompletes
