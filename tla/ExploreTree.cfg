SPECIFICATION Spec
CONSTANTS
    Profiles = {one, two}
    Kinds <- TreeKinds
    Menu <- TreeMenu
    Caps <- TreeCaps
    Child <- TreeChild
    Names = {1, 2}
    Filters = {{2}}
    SearchHits = {{1}}
    Stored <- TreeStored
    MayFail = {"connect", "download"}
    MaxKeys = 5
    None = None
CHECK_DEADLOCK FALSE
INVARIANTS SelectionExists StackIsPath HandlersFindTheirs
