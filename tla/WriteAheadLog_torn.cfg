SPECIFICATION Spec
CONSTANTS
    HeaderSize = 2
    PayloadSizes <- MCPayloadSizes
    MaxAppends = 3
    Faults <- PowerOnly
INVARIANT
    DurableRecordsReplayed
