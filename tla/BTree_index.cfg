SPECIFICATION Spec
CONSTANTS
    v1 = v1
    v2 = v2
    NoValue = NoValue
    Keys <- Keys4
    Values <- TwoValues
    MaxPages = 4
    MaxEntries = 2
    Faults <- NoFaults
INVARIANTS
    TypeOK
PROPERTIES
    ImplementsIndex
    CallsReturn
