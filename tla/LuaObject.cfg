SPECIFICATION FairSpec
CONSTANTS
    Threads = {t1, t2}
    Finalizer = Finalizer
    Nobody = Nobody
    States = {main}
    Objects = {o1, o2, o3}
    Values = {v1, v2}
CHECK_DEADLOCK FALSE
INVARIANTS
    Represents
    NoSlotLost
PROPERTIES
    DroppedIsFreed
