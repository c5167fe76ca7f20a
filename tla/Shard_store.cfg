SPECIFICATION Spec
CONSTANTS
    Terms <- TwoTerms
    Texts <- TwoTermTexts
    MaxDocs = 3
    MaxPages = 13
    SlotsPerPage = 2
    MaxPostings = 2
    MaxPositions = 2
    MaxListed = 8
    TombstoneBits = 4
    TombstoneRoom = 4
    LeafEntries = 2
    Saves = FALSE
    MetaSaves = TRUE
    MetaFails = FALSE
    Crashes = FALSE
    WriteFails = FALSE
INVARIANTS
    TypeOK
    IndexAgreesWithScan
    PagesHaveOneUse
    DocIdsUnique
PROPERTY
    ImplementsDocStore
