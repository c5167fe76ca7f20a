SPECIFICATION Spec
CONSTANTS
    h1 = h1
    h2 = h2
    Pages <- MCPages
    Pins <- MCPins
    PoolSize = 2
    MaxWrites = 2
    FaultSets <- MCFaultSets
SYMMETRY PinSymmetry
INVARIANTS
    TypeOK
    OneFramePerPage
    PinnedFrameKeepsPage
    PinCountExact
    WalBeforeData
    CleanFrameMatchesDisk
PROPERTY
    ImplementsPageStore
