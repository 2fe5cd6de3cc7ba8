SPECIFICATION Spec
CONSTANTS
    Commands = {c1, c2}
    Methods = {}
    Editors = {}
    NoCopy = NoCopy
    RETRY_COUNT = 2
    MaxDeliveries = 2
    Faults <- TasksFinish
    MaxFaults = 1
    MaxEdits = 0
INVARIANTS HistoryIsTrue PendingOnlyWhenRaced
SYMMETRY Symmetric
CHECK_DEADLOCK FALSE
