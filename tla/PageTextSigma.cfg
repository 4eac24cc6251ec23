SPECIFICATION PSpec
CONSTANTS
    Tags = {"title", "script", "p", "br", "div", "header", "a", "b"}
    BlockLevel = {"p", "br", "div", "header"}
    Data <- MCDataSigma
    Sloppy = FALSE
    LinkBreaks = FALSE
    MaxEvents = 6
    PageUrls <- MCUrls
    PageOrigins <- MCOrigins
    Depths = {2}
    SearchWords <- MCSearchWordsSigma
INVARIANT FindsWhatIsShown
CHECK_DEADLOCK FALSE
