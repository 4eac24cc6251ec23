SPECIFICATION PSpec
CONSTANTS
    Tags = {"title", "script", "p", "br", "div", "header", "a", "b", "nav", "main"}
    BlockLevel = {"p", "br", "div", "header", "nav", "main"}
    Data <- MCData
    Sloppy = FALSE
    LinkBreaks = FALSE
    MaxEvents = 6
    PageUrls <- MCUrls
    PageOrigins <- MCOrigins
    Depths = {2}
    SearchWords <- MCSearchWords
INVARIANT TextIsWhatIsShown
CHECK_DEADLOCK FALSE
