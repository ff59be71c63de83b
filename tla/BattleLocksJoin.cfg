SPECIFICATION Spec
CONSTANTS
    Players = {1}
    Spectators = {3}
    Selections = FALSE
    Timed = FALSE
INVARIANT NoCircularWait
CHECK_DEADLOCK FALSE
