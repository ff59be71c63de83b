SPECIFICATION Spec
CONSTANTS
    ann = ann
    bob = bob
    a1 = a1
    b1 = b1
    b2 = b2
    Conn = {a1, b1, b2}
    User = {ann, bob}
    Owner <- Owners
    MayOffer <- OffersOf
    None = None
INVARIANT NobodyWaitsInVain
PROPERTY ImplementsOffers
CHECK_DEADLOCK FALSE
