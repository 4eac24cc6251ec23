SPECIFICATION PSpec
CONSTANTS
    Tags = {"title", "script", "p", "br", "div", "header", "a", "b"}
    BlockLevel = {"p", "br", "div", "header"}
    Data <- MCData
    Sloppy = FALSE
    LinkBreaks = TRUE
    MaxEvents = 6
    PageUrls <- MCUrls
    PageOrigins <- MCOrigins
    Depths = {2}
    SearchWords <- MCSearchWords
INVARIANT SnippetIsParagraphs
CHECK_DEADLOCK FALSE
