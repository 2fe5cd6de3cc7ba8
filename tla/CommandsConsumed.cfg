SPECIFICATION FairSpec
CONSTANTS
    Commands = {c1, c2}
    Methods = {c2}
    Editors = {e1}
    NoCopy = NoCopy
    RETRY_COUNT = 2
    MaxDeliveries = 2
    Faults <- Everything
    MaxFaults = 1
    MaxEdits = 1
INVARIANTS TypeOK HandledOnce
PROPERTIES ResultsStand FeedbackConsumed
CHECK_DEADLOCK FALSE
