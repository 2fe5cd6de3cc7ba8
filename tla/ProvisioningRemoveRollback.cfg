SPECIFICATION Spec
CONSTANTS
    Devices = {d1}
    NoDevice = NoDevice
    Operators = {o1}
    Kinds = {"bootstrap", "remove"}
    Simulated = {d1}
    Initially = {}
    Faults <- TwinUpdateFails
    RETRY_COUNT = 2
    Unlimited = FALSE
    MaxFaults = 1
    MaxOps = 2
INVARIANTS RollbackFindsDeviceRegistered
CHECK_DEADLOCK FALSE
