SPECIFICATION Spec
CONSTANTS
    Seeds <- SomeSeeds
    Typed <- TypedIn
    TypedKeys = {"a"}
    Fields = {"a"}
    MaxNodes <- NodesOf
    FormSeed <- Bag
    BlankSeed <- NoBags
    RunLists <- OneList
    MaxTouches = 3
CHECK_DEADLOCK FALSE
INVARIANTS EditorIsSound CommittedIsShown LookingIsNotEditing
PROPERTY AddSelectsNew
