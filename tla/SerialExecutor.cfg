SPECIFICATION FairSpec
CONSTANTS
    Tasks = {t1, t2, t3, t4}
    NoTask = NoTask
    PoolSize = 2
    QueueSize = 1
    MaxOthers = 2
CHECK_DEADLOCK FALSE
INVARIANTS
    NothingForgotten
    SomebodyActive
PROPERTIES
    ImplementsMailbox
    SubmittedRuns
