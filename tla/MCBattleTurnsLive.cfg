SPECIFICATION FairSpec
CONSTANTS
    PartySize = 2
    TeamSize <- ThreeOnTwo
PROPERTY EveryRoundIsPlayed
PROPERTY EveryTurnEnds
CHECK_DEADLOCK FALSE
