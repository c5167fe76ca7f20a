SPECIFICATION Spec
CONSTANTS
    Terms <- OneTerm
    Texts <- OneWordTexts
    MaxDocs = 2
    MaxPages = 9
    SlotsPerPage = 1
    MaxPostings = 2
    MaxPositions = 2
    MaxListed = 8
    TombstoneBits = 4
    TombstoneRoom = 4
    LeafEntries = 1
    Saves = TRUE
    MetaSaves = FALSE
    MetaFails = TRUE
    Crashes = TRUE
    WriteFails = TRUE
PROPERTIES
    SavedDeletionsStay
    SavedRecordsStay
