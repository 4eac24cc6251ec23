SPECIFICATION Spec
CONSTANTS
    a = a
    b = b
    u1 = u1
    u2 = u2
    o1 = o1
    o2 = o2
    Chars = {a, b}
    Words <- MCWords
    Urls = {u1, u2}
    Origins = {o1, o2}
    Depths = {0, 1}
    NoPosting = none
    MaxInserts = 3
    MaxReboots = 1
INVARIANTS
    OneOriginPerUrl
    StartsWithMeansIndexed
