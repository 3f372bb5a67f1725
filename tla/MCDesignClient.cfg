SPECIFICATION ClientSpec
CONSTANTS
    User = {"u", "v"}
    Version = {"old", "new"}
    MaxStarted = 2
    Trouble = {}
PROPERTY ActiveBoardsSurvive
CHECK_DEADLOCK FALSE
