SPECIFICATION Spec
CONSTANTS
    Terms <- OneTerm
    Texts <- OneTermTexts
    MaxDocs = 3
    MaxPages = 9
    SlotsPerPage = 1
    MaxPostings = 2
    MaxPositions = 2
    MaxListed = 8
    TombstoneBits = 4
    TombstoneRoom = 4
    LeafEntries = 2
    Saves = TRUE
    MetaSaves = TRUE
    MetaFails = FALSE
    Crashes = TRUE
    WriteFails = FALSE
PROPERTY
    SavedRecordsStay
