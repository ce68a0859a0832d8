CONSTANTS
    main = main
    reg = reg
    t = t
    w = w
    c = c
    Objects = {main, reg, t, w, c}
    Threads = {main, t}
    Weak = {w}
    Closures = {c}
    Main = main
    Registry = reg
    MayHold <- MCMayHold
    SweepMax = 2
    Finalizable = {w}

SPECIFICATION Spec

INVARIANTS
    NoDangling
    TriColour
PROPERTY
    ImplementsLuaHeap

\* A closed state does nothing any more.
CHECK_DEADLOCK FALSE
