SPECIFICATION FairSpec
CONSTANTS
    MaxPlayers = 3
    LinkModes = {"multi", "normal8", "normal32"}
    Increment = 4
    Transfer = 3
    Rest <- MCRest
    Alone = 16
    Lates = {0, 1}
    Parties <- MCParties
    DiffLimit = 32
    MaxPosted = 4
INVARIANTS TypeOK NoAbort
PROPERTIES CaughtUp SleepersWake
CHECK_DEADLOCK FALSE
