SPECIFICATION SSpec
CONSTANTS
    a = a
    b = b
    o1 = o1
    o2 = o2
    Chars = {a, b}
    Words <- MCWords
    Urls = {1, 2}
    Origins = {o1, o2}
    Depths = {0, 2}
    NoPosting = none
    NoAnswer = noanswer
    MaxInserts = 3
    MaxReboots = 1
    Queries <- MCQueries
    Windows <- MCWindows
SYMMETRY MCSymmetry
INVARIANTS
    Consistent
    AnswerExact
    AnswerIsRegular
    PrefixMergesWords
PROPERTIES
    ImplementsIndex
    OccurrenceNeverDemotes
