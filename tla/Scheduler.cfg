\* Two scheduler threads, two callers of which one is in the thread group and
\* never finds so many callbacks pending that it waits for them (see Scheduler_import).
CONSTANTS
    t1 = t1
    t2 = t2
    c1 = c1
    c2 = c2
    Main = Main
    Threads = {t1, t2}
    Callers = {c1, c2}
    Group = {c1}
    StopKinds = {TRUE, FALSE}
    SyncAbove = 10
    MaxPosts = 2
SPECIFICATION Spec
CHECK_DEADLOCK FALSE
INVARIANTS EmptyQueueRight
PROPERTIES RefinesCallbackQueue SyncAfterAll Delivered ShutdownCompletes ThreadsStop
