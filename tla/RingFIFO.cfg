SPECIFICATION Spec
CONSTANTS
    Capacity = 8
    Bytes = {0, 1}
    Messages <- MCMessages
INVARIANTS TypeOK TouchMeansEmpty NeverStuck CopiesDisjoint
PROPERTIES IsQueue
