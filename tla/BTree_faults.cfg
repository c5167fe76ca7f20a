SPECIFICATION Spec
CONSTANTS
    v1 = v1
    v2 = v2
    NoValue = NoValue
    Keys <- Keys2
    Values <- OneValue
    MaxPages = 3
    MaxEntries = 2
    Faults <- AllFaults
INVARIANTS
    NoLeafOverflows
    EntriesAscend
