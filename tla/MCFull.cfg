SPECIFICATION Spec
CONSTANTS
    Setups <- MCFull
    WORD = 4
    PAGE = 2
    STACK_CAP = 8
    FRAME_CAP = 4
    MAILBOX_ARGS = 2
    MAILBOX_RESULTS = 1
    MaxCalls = 1
CHECK_DEADLOCK FALSE
PROPERTY NeverSilent
