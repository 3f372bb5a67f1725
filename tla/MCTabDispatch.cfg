SPECIFICATION Spec
CONSTANTS
    Root = "root"
    Client = {"a", "b"}
    Request = {"r1", "r2"}
    Scenario <- Callers
    MaxTab = 3
INVARIANTS ActiveIsOpen PinsAreUndone OwnOnlyWorksOnItsTabs
CHECK_DEADLOCK FALSE
