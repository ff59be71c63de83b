SPECIFICATION Spec
CONSTANTS
    Players = {1, 2}
    Spectators = {3}
    Selections = TRUE
    Timed = TRUE
INVARIANT LocksBalanced
INVARIANT EndsOnce
INVARIANT AliveWhileUsed
CHECK_DEADLOCK FALSE
