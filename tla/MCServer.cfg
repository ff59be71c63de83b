SPECIFICATION ServerSpec
CONSTANTS
    o = o
    v = v
    Client = {o, v}
    Late = {o}
    InitFlags <- OneOperator
    Modes = {"v", "m"}
    Sweeper = Sweeper
    None = None
    a = a
    b = b
    a1 = a1
    a2 = a2
    b1 = b1
    Connection = {a1, a2, b1}
    Name = {a, b}
    NameOf <- Names
    Newcomer = {a1, a2}
    Battle = {m1, m2}
    Leaver = {a1}
    m1 = m1
    m2 = m2
    Unset = Unset
    Worker = {w1, w2}
    Queue = Queue
    Reclaimer = Reclaimer
    MaxContexts = 4
    Object = {x}
    Nothing = Nothing
    MaxByte = 3
    PartySize = 2
    Sends <- OneEach
    MaxRequests = 2
    u1 = u1
    u2 = u2
    User = {u1, u2}
    Matchmaker = Matchmaker
    Remover = Remover
    Fights <- TheirFights
    Visitors = {u2}
    Kicked = {u1}
    MaxBattles = 2
    Room = {r1, r2}
    Reserved = {1}
    MaxId = 2
    NoId = NoId
    Nobody = Nobody
    File <- TheFile
    SpeciesId <- Species
    ClauseNames <- TheClauses
    Refused <- TheRefused
    Teams <- TheTeams
    Terms <- TheTerms
    Host = Host
    Guest = Guest
    Launch = {l1, l2}
    Killer = {k1}
    Absent = Absent
    MaxDeaths = 1
INVARIANT BannedAreOut
INVARIANT OnlineOnce
INVARIANT EveryMatchCounts
INVARIANT CollectionsGoOn
INVARIANT PlayedAsAgreed
INVARIANT StartsAsTold
INVARIANT MembersAgree
INVARIANT RequestsAreSafe
INVARIANT MessagesHold
INVARIANT RoomsAgree
CHECK_DEADLOCK FALSE
SYMMETRY Alike
