SPECIFICATION Spec
CONSTANTS
    a = a
    b = b
    c = c
    l = l
    Words <- MCWords
    TermHash <- MCTermHash
    Stored <- MCStored
    NumBuckets = 2
    Terms <- MCTerms
    Texts <- MCTexts
    Queries <- MCQueries
    MaxPostings = 2
    MaxPositions = 2
    MaxListed = 20
    MaxDocs = 3
    MaxCalls = 1
    MaxPages = 13
INVARIANTS
    TypeOK
    ListsEachDocumentOnce
    PositionsArePrefix
    WordsFindTheirDocuments
    PhraseSound
    PhraseCompleteWhileAscending
CHECK_DEADLOCK FALSE
