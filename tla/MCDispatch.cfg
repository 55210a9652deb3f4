SPECIFICATION Spec
CONSTANTS
    ArgLists <- Args
    InitMem <- Memory
    MEM_SIZE = 6
    Scalars <- MCScalars
    Slots <- MCSlots
    Regions <- Areas
    Pieces = {1}
    SMALL_SYMBOL = 1
    MAX_RUNS = 2
    MAX_CALLS = 3
    ImportSets <- MCImports
    MAX_STEPS = 1
INVARIANTS TypeOK HandlesKeepMeaning LedgerAsMeant ResultAsMeant 
PROPERTIES FailedCallsChangeNothing
CHECK_DEADLOCK FALSE
