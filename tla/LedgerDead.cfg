SPECIFICATION FairSpec
CONSTANTS
    home = home
    helper = helper
    Nobody = Nobody
    Folder = Folder
    Devices = {home, helper}
    Local = home
    Lanes = {1}
    BatchSize = 1
    Lease = 2
    BeatLease = 2
    MaxUnderWay = 1
    Outlived = {helper}
PROPERTY CrashedOwnNothing
CHECK_DEADLOCK FALSE
