SPECIFICATION FairSpec
CONSTANTS
    Devices = {d1}
    NoDevice = NoDevice
    Operators = {o1}
    Kinds = {"add", "bootstrap", "enable", "disable", "save", "info", "remove"}
    Simulated = {d1}
    Initially = {d1}
    Faults <- Everything
    RETRY_COUNT = 2
    Unlimited = TRUE
    MaxFaults = 0
    MaxOps = 4
INVARIANTS TypeOK
PROPERTIES EveryCallReturns OkMeansDone
CHECK_DEADLOCK FALSE
