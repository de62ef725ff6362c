SPECIFICATION FairSpec
CONSTANTS
    N = 4
    Concurrency = 2
    MayCancel = TRUE
INVARIANT ResultsAreRight
PROPERTIES ImplementsFanOut ReturnsInTheEnd
