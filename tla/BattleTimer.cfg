SPECIFICATION FairSpec
CONSTANTS
    Pool = 1
    Periods = 0
    PeriodLength = 1
    Slots = 2
    MaxLag = 1
INVARIANT ClockRunsWhileOwed
PROPERTY OnlyDebtorsExpire
PROPERTY RoundEnds
PROPERTY ExpiryEndsBattle
CHECK_DEADLOCK FALSE
