SPECIFICATION FairSpec
CONSTANTS
    k1 = k1
    k2 = k2
    Conn = {k1, k2}
    Owner <- DifferentUsers
    UserLimit = 2
    Written = {k1}
INVARIANT ConnectedIsServed
INVARIANT QueuedOnce
PROPERTY LeftForGood
CHECK_DEADLOCK FALSE
