SPECIFICATION FairSpec
CONSTANTS
    Order <- TwoOrder
    DefaultSort = "most"
    Hits <- TwoHits
    PageSize = 2
    Prefetch = 1
    MayFail = {"page", "append", "preview"}
    CanInstall = TRUE
    Keys = {"move", "search", "sort"}
    MaxKeys = 4
    None = None
CHECK_DEADLOCK FALSE
INVARIANT FirstPageIsAsked
PROPERTY PreviewEventually
