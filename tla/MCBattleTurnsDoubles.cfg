SPECIFICATION Spec
CONSTANTS
    PartySize = 2
    TeamSize <- FourOnTwo
INVARIANT FitsField
INVARIANT SelectionIsUsable
PROPERTY ImplementsRounds
INVARIANT SwitchesFit
CHECK_DEADLOCK FALSE
