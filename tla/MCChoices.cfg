SPECIFICATION ChoicesSpec
CONSTANTS
    p1 = p1
    p2 = p2
    p3 = p3
    Fighter = {p1, p2, p3}
    SideOf <- Sides
    Starters <- Places2
    Slots = 2
    Known <- Moves2
    Points <- Twice
    Choosy = {p1}
    Pressing = {}
    Trapping = {}
INVARIANT SomethingIsLegal
CHECK_DEADLOCK FALSE
