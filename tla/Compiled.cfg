SPECIFICATION Spec
CONSTANTS
    Families <- MCFamilies
    MAX_DEFERS = 64
INVARIANTS
    FollowsProgram
    ComesToAnEvent
    DefersRunOnceInReverse
CHECK_DEADLOCK FALSE
