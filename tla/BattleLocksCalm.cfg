SPECIFICATION FairSpec
CONSTANTS
    Players = {1, 2}
    Spectators = {}
    Selections = FALSE
    Timed = FALSE
INVARIANT NoCircularWait
PROPERTY EndedIsDestroyed
CHECK_DEADLOCK FALSE
