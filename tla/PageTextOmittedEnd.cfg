SPECIFICATION PSpec
CONSTANTS
    Tags = {"title", "script", "p", "br", "div", "header", "a", "b"}
    BlockLevel = {"p", "br", "div", "header"}
    Data <- MCData
    Sloppy = TRUE
    LinkBreaks = FALSE
    MaxEvents = 6
    PageUrls <- MCUrls
    PageOrigins <- MCOrigins
    Depths = {2}
    SearchWords <- MCSearchWords
INVARIANT FlagsFollowTree
CHECK_DEADLOCK FALSE
