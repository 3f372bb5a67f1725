SPECIFICATION SkillSpec
CONSTANTS
    Request = {"r1", "r2"}
    Body = {"first", "second"}
    Score = {0}
    MaxRow = 4
INVARIANT SavedIsListed
CHECK_DEADLOCK FALSE
