SPECIFICATION Spec
CONSTANTS
    Setups <- MCSetups
    WORD = 4
    PAGE = 2
    STACK_CAP = 8
    FRAME_CAP = 4
    MAILBOX_ARGS = 2
    MAILBOX_RESULTS = 1
    MaxCalls = 2
CHECK_DEADLOCK FALSE
INVARIANTS
    TypeOK
    StackDiscipline
    NoOverrun
    ResultsInPlace
PROPERTY
    FrameIsolation
    MemoryNeverShrinks
    ImplementsActivations
    RunEnds
