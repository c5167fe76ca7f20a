SPECIFICATION Spec
CONSTANTS
    HeaderSize = 2
    PayloadSizes <- MCPayloadSizes
    MaxAppends = 4
    Faults <- AllFaults
INVARIANTS
    TypeOK
    LsnMonotone
    IntactPrefixReplayed
    LsnNamesRecord
    ReplayExact
