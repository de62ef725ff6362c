SPECIFICATION Spec
CONSTANTS
    Superuser = "pivotal"
    AllPerms <- Perms
    RunList = {"a", "b"}
    Settings = {"env", "prod", "policy"}
    Runs = {"p1", "p2"}
    CommandsOf <- Commanded
    Objects <- SomeObjects
    FirstServer <- Server
    Names = {"n1", "n2"}
    Known = {"a", "b"}
CHECK_DEADLOCK FALSE
INVARIANTS WritesAreAccountedFor KeyIsDelivered
PROPERTIES SaidIsDone StaysSealed
