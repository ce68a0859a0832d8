SPECIFICATION Spec
CONSTANTS
    Tasks = {t1, t2}
    Periods = {2}
    NewPeriods <- EndingPeriods
    Rates = {FALSE}
    Switches = {FALSE}
    Epoch = 2
    MaxTime = 3
SYMMETRY TaskSymmetry
CHECK_DEADLOCK FALSE
INVARIANTS
    NoLostTask
    DeadTimerIsClosed
PROPERTIES
    FiresOnlyDue
