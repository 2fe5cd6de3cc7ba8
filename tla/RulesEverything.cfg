SPECIFICATION Spec
CONSTANTS
    Operators = {o1, o2}
    Ids = {r1, r2}
    Fields = {temperature, humidity}
    Values = {low, high}
    NoValue = NoValue
    NoRow = NoRow
    NoRule = NoRule
    Faults <- Everything
    Horizon = 2
    MaxFaults = 1
    MaxOps = 3
INVARIANTS TypeOK RemovalIsComplete BlobFollowsTable OneRulePerField
PROPERTIES ToggleKeepsRest ReadBlobsAreFinal JobUsesRulesOfTable
SYMMETRY Symmetric
CHECK_DEADLOCK FALSE
