SPECIFICATION Spec
CONSTANTS
    a = a
    b = b
    c = c
    l = l
    Words <- PlainWords
    TermHash <- PlainTermHash
    Stored <- PlainTermHash
    NumBuckets = 2
    Terms <- PlainWords
    Texts <- PlainTexts
    Queries <- PlainQueries
    MaxPostings = 2
    MaxPositions = 2
    MaxListed = 20
    MaxDocs = 3
    MaxCalls = 0
    MaxPages = 13
INVARIANT
    PhraseComplete
CHECK_DEADLOCK FALSE
