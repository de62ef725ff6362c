SPECIFICATION FairSpec
CONSTANTS
    Order <- ThreeOrder
    DefaultSort = "most"
    Hits <- ThreeHits
    PageSize = 2
    Prefetch = 1
    MayFail = {"page", "append", "detail"}
    CanInstall = TRUE
    Keys = {"move", "search", "sort", "open", "install"}
    MaxKeys = 4
    None = None
CHECK_DEADLOCK FALSE
INVARIANT ScreenIsSound
PROPERTY LoadingEnds
