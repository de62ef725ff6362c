SPECIFICATION Spec
CONSTANTS
    Users = {ann, bob}
    Policies = {"app", "db"}
    Groups = {dev, prod}
    Revisions = {1, 2, 3}
    PolicyOf <- TwoPolicies
    Artifacts = {1, 2, 3}
    Locks <- SharedLocks
    MaxCommands = 3
SYMMETRY Symmetry
CHECK_DEADLOCK FALSE
INVARIANTS CleansAreSafe RevisionsComplete CleansAreThorough
