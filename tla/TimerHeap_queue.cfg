SPECIFICATION Spec
CONSTANTS
    Times = {1, 2, 3}
    MaxSize = 6
    SafeHeapSize = 5
PROPERTY
    ImplementsTimerQueue
