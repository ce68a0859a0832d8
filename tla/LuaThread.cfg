SPECIFICATION FairSpec
CONSTANTS
    Callers = {c1, c2}
    Messages = {m1, m2, m3}
CHECK_DEADLOCK FALSE
INVARIANTS
    IsRunTells
    NothingMissing
PROPERTIES
    ImplementsMailbox
    QuitEndsThread
    PostedIsServed
