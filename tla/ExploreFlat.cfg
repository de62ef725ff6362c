SPECIFICATION FairSpec
CONSTANTS
    Profiles = {one}
    Kinds <- FlatKinds
    Menu <- FlatMenu
    Caps <- FlatCaps
    Child <- FlatChild
    Names = {1, 2}
    Filters = {{2}}
    SearchHits = {{1}}
    Stored <- FlatStored
    MayFail = {"list", "search", "summary"}
    MaxKeys = 5
    None = None
CHECK_DEADLOCK FALSE
INVARIANT RowsBelongToCur
PROPERTIES SecretSurvivesReads FreshListLands SummaryEventually
