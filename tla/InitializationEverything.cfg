SPECIFICATION Spec
CONSTANTS
    Jobs = {j1, j2}
    Callers = {c1}
    Defaults = 2
    Suffixes = {x1, x2}
    MaxStarts = 3
    MaxSaves = 1
    MaxFaults = 2
INVARIANTS TypeOK SignIsTrue
PROPERTIES SavedChoicesStand
SYMMETRY Alike
CHECK_DEADLOCK FALSE
