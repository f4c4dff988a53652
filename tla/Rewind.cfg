SPECIFICATION FairSpec
CONSTANTS
    Bits = {1, 2}
    Images <- MCImages
    Capacities = {1, 3}
INVARIANT TypeOK
PROPERTIES RestoreGoesBack AppendDiffed DeinitReturns
