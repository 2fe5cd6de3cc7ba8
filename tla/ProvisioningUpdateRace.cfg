SPECIFICATION Spec
CONSTANTS
    Devices = {d1}
    NoDevice = NoDevice
    Operators = {o1, o2}
    Kinds = {"save", "remove"}
    Simulated = {}
    Initially = {d1}
    Faults <- NoFaults
    RETRY_COUNT = 2
    Unlimited = FALSE
    MaxFaults = 0
    MaxOps = 2
PROPERTIES UpdateNeverRegisters
CHECK_DEADLOCK FALSE
