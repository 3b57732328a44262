SPECIFICATION SignInSpec
CONSTANTS
    MaxLogins = 1
    MaxActions = 2
    MaxPolls = 0
PROPERTY NoLateSession
CHECK_DEADLOCK FALSE
