SPECIFICATION Spec
CONSTANTS
    v1 = v1
    v2 = v2
    NoValue = NoValue
    Keys <- Keys3
    Values <- OneValue
    MaxPages = 4
    MaxEntries = 2
    Faults <- CrashOnly
PROPERTY
    CallsReturn
