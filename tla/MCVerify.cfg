SPECIFICATION Spec
CONSTANTS
    Modules <- MCModules
    MAX_STACK = 5
    Heights <- MCHeights
CHECK_DEADLOCK FALSE
INVARIANTS
    TypeOK
    AcceptSound
    RejectJustified
    MaxStackBounds
PROPERTY
    Terminates
