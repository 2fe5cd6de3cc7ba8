SPECIFICATION Spec
CONSTANTS
    Devices = {d1}
    NoDevice = NoDevice
    Operators = {o1, o2}
    Kinds = {"add", "bootstrap", "enable", "disable", "save", "info"}
    Simulated = {d1}
    Initially = {}
    Faults <- Orderly
    RETRY_COUNT = 2
    Unlimited = FALSE
    MaxFaults = 2
    MaxOps = 3
INVARIANTS RegisteredHasIdentity SimulatorKeyIsHubKey
CHECK_DEADLOCK FALSE
