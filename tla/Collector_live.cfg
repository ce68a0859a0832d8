CONSTANTS
    main = main
    reg = reg
    t = t
    w = w
    c = c
    Objects = {main, reg, w, c}
    Threads = {main}
    Weak = {w}
    Closures = {c}
    Main = main
    Registry = reg
    MayHold <- MCMayHoldLive
    SweepMax = 2
    Finalizable = {w}

SPECIFICATION FairSpec

PROPERTIES
    GarbageFreed
    FinalizerCalled

\* A closed state does nothing any more.
CHECK_DEADLOCK FALSE
