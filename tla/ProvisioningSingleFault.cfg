SPECIFICATION RemovalsOverlapSpec
CONSTANTS
    Devices = {d1}
    NoDevice = NoDevice
    Operators = {o1, o2, o3}
    Kinds = {"add", "bootstrap", "enable", "disable", "save", "info", "remove"}
    Simulated = {d1}
    Initially = {d1}
    Faults <- Refused
    RETRY_COUNT = 2
    Unlimited = FALSE
    MaxFaults = 1
    MaxOps = 4
INVARIANTS Agreement
PROPERTIES RemovedIsGone DevicesAreAtomic
CHECK_DEADLOCK FALSE
SYMMETRY Callers
