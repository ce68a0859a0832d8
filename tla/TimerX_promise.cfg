SPECIFICATION FairSpec
CONSTANTS
    Tasks = {t1, t2}
    Periods = {1}
    NewPeriods <- LongerPeriods
    Rates = {TRUE, FALSE}
    Switches = {}
    Epoch = 1
    MaxTime = 2
CHECK_DEADLOCK FALSE
PROPERTIES
    FixedPeriodSpacing
    NeverReused
    CancelAnswers
    ImplementsTimerSpec
    DueTaskLeaves
    CancelEndsThread
    FinishedEndsThread
