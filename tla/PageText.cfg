SPECIFICATION PSpec
CONSTANTS
    Tags = {"title", "script", "p", "br", "div", "header", "a", "b"}
    BlockLevel = {"p", "br", "div", "header"}
    Data <- MCData
    Sloppy = FALSE
    LinkBreaks = FALSE
    MaxEvents = 6
    PageUrls <- MCUrls
    PageOrigins <- MCOrigins
    Depths = {12}
    SearchWords <- MCSearchWords
INVARIANTS
    FlagsFollowTree
    TextIsWhatIsShown
    SnippetIsParagraphs
    RoundTripExact
    FindsWhatIsShown
CHECK_DEADLOCK FALSE
