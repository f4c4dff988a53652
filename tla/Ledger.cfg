SPECIFICATION FairSpec
CONSTANTS
    home = home
    helper = helper
    Nobody = Nobody
    Folder = Folder
    Devices = {home, helper}
    Local = home
    Lanes = {1}
    BatchSize = 1
    Lease = 1
    BeatLease = 1
    MaxUnderWay = 1
    Outlived = {helper}
INVARIANTS TypeOK DoneHasZip SharedOnlyIfForfeited
PROPERTIES LeasesAreLocks DeadHoldNothing
CHECK_DEADLOCK FALSE
