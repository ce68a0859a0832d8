SPECIFICATION FairSpec
CONSTANTS
    Tasks = {a, b}
    NoTask = none
    PoolSize = 1
    QueueSize = 0
    MaxProgress = 1
CHECK_DEADLOCK FALSE
INVARIANTS
    SettledHasResult
    CallbackOnce
    ProgressBeforeCallback
PROPERTIES
    CallbackAfterBody
    NothingNewAfterGc
    AcceptedFinishes
