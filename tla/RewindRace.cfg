SPECIFICATION Spec
CONSTANTS
    Bits = {1, 2, 3}
    Images <- MCImages
    Capacities = {3}
INVARIANT OnlySavedStates
