SPECIFICATION RulesSpec
CONSTANTS
    p1 = p1
    p2 = p2
    p3 = p3
    None = None
    Pokemon = {p1, p2, p3}
    PartyOf <- PartiesOf
    Leads <- LeadsOf
    Natural <- NaturalOf
    Holdings <- HoldingsOf
    Moves = {"Tackle", "Explosion", "PoisonJab", "Roar", "UTurn", "WorrySeed", "GastroAcid"}
    MaxHp = 2
    MaxTurn = 2
    PartySize = 2
    Benched = 1
    Speeds = {1, 2}
    Priorities = {0, 1}
    Inherent = {0, 1}
    Users <- UsersOf
    Targets <- TargetsOfHits
    MoveKinds <- MovesOfHits
    Surroundings <- SurroundingsOf
    SentTeams <- SentOf
    Learnset = {"Surf", "Curse"}
    Combinations <- CombinationsOf
    AbilitiesOf = {"Static", "Intimidate"}
    Genders = {1, 2}
    MaxMoves = 2
    MaxTeamLength = 2
    ClauseLists <- ClausesOf
    IdxOf <- Idx
    Fighter = {p1, p2, p3}
    SideOf <- TeamsOf
    Starters <- StartersOf
    Slots = 1
    Known <- KnownOf
    Points <- PointsOf
    Choosy = {p3}
    Pressing = {p1}
    Trapping = {}
    Mon = {p1, p2, p3}
    Side <- TeamsOf
    Lineups <- LineupsOf
    Own <- OwnOf
    Duration = 2
    MaxDeeds = 2
    Vacant = Vacant
    Files <- FilesOf
    MaxLoads = 2
INVARIANT FaintsOnce
INVARIANT SpectatorSees
INVARIANT AdvantagesHelp
INVARIANT RefusalsNameTheFault
INVARIANT SomethingIsLegal
INVARIANT BooksAgree
INVARIANT SortsInOrder
INVARIANT MovesGoOn
INVARIANT OneOfMany
INVARIANT ReadsWhatWasWritten
CHECK_DEADLOCK FALSE
