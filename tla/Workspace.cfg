SPECIFICATION Spec
CONSTANTS
    Of <- MCOf
    Content <- MCContent
    Policyfiles <- MCPolicyfiles
    FirstPolicyfiles <- MCFirstPolicyfiles
    Scaffold <- MCScaffold
    Served <- MCServed
    Commands <- MCCommands
    Posed <- MCPosed
    MaxCommands = 4
    MaxEdits = 1
    MaxCuts = 1
CHECK_DEADLOCK FALSE
INVARIANTS SolverIsRight LockIsSolved FilesAreWhole DiffTellsAll
PROPERTY CommandsEnd
