SPECIFICATION FairSpec
CONSTANTS
    Calls <- MCCalls
    MaxQueue = 4
    Corruptible = TRUE
INVARIANTS TypeOK Aligned ClosedAtRest
PROPERTIES ClearedWhileQuiet EventSeesAll FlushDraws CallsReturn
