SPECIFICATION Spec
CONSTANTS
    Commands = {c1}
    Methods = {}
    Editors = {e1}
    NoCopy = NoCopy
    RETRY_COUNT = 2
    MaxDeliveries = 2
    Faults <- NoFaults
    MaxFaults = 0
    MaxEdits = 1
PROPERTIES DeviceInfoKeepsHistory
CHECK_DEADLOCK FALSE
