---------------------------- MODULE ServerProofs ----------------------------
(* Theorems about parts of the server that share no state: logging in and  *)
(* ratings (Accounts), starting and stopping (Daemon), the contexts of     *)
(* scripts (Contexts), the rules that battles are played by (Metagames),   *)
(* channels, with their bans and what channel, members and registry know   *)
(* of each other (Channels), and the rooms that battles have (Rooms).      *)
EXTENDS Accounts, Daemon, Contexts, Metagames, Channels, Rooms, SequenceTheorems,
        FiniteSetTheorems, NaturalsInduction, WellFoundedInduction, TLAPS

-----------------------------------------------------------------------------
(* Accounts: for every number of connections, names and battles.           *)

(* OnlineOnce is inductive: authenticateClient looks again, under the      *)
(* mutex of the list of clients; nobody is put into that list later; and   *)
(* whoever takes a name is not logged in, or is among those who changed.   *)
OnlineInv == OnlineOnce /\ connected \subseteq Connection /\ DOMAIN called = Connection

(* Of those who have kept the name that they logged in by, one is logged   *)
(* in under each (authenticateClient).                                     *)
THEOREM LogsInOnce == AccountsSpec => []OnlineOnce
<1>1. AccountsInit => OnlineInv
  BY DEF AccountsInit, OnlineInv, OnlineOnce
<1>2. OnlineInv /\ [AccountsNext]_accountVars => OnlineInv'
  <2> SUFFICES ASSUME OnlineInv, [AccountsNext]_accountVars
               PROVE  OnlineInv'
    OBVIOUS
  <2> USE DEF OnlineInv, OnlineOnce
  <2>1. ASSUME NEW c \in Connection, Authenticate(c)
        PROVE  OnlineInv'
    BY <2>1 DEF Authenticate, OnlineAs
  <2>2. ASSUME NEW c \in Connection, RemoveClient(c)
        PROVE  OnlineInv'
    BY <2>2 DEF RemoveClient
  <2>3. ASSUME NEW c \in Connection, TakeName(c)
        PROVE  OnlineInv'
    <3>1. /\ connected' = connected /\ authenticated' = authenticated
          /\ DOMAIN called' = Connection
          /\ \A d \in Connection \ {c} : called'[d] = called[d]
      BY <2>3 DEF TakeName
    <3>2. renamed \subseteq renamed' /\ c \notin authenticated \ renamed'
      BY <2>3 DEF TakeName
    <3> QED
      BY <3>1, <3>2
  <2>4. ASSUME NEW c \in Connection,
               \/ LookForUser(c) \/ RegisterUser(c)
               \/ \E name \in Name : RequestChallenge(c, name)
               \/ ChallengeResponse(c) \/ Identify(c) \/ QueueTeam(c)
        PROVE  OnlineInv'
    BY <2>4 DEF LookForUser, RegisterUser, RequestChallenge, ChallengeResponse, Identify,
                QueueTeam, login
  <2>5. ASSUME NEW b \in Battle, MatchEnds(b)
        PROVE  OnlineInv'
    BY <2>5 DEF MatchEnds, StartMatch, PostLadderMatch, UpdateLadderStats, ReadMatches,
                WriteRating, login
  <2>6. CASE UNCHANGED accountVars
    BY <2>6 DEF accountVars, login, table
  <2> QED
    BY <2>1, <2>2, <2>3, <2>4, <2>5, <2>6 DEF AccountsNext, Handles
<1>3. OnlineInv => OnlineOnce
  BY DEF OnlineInv
<1> QED
  BY <1>1, <1>2, <1>3, PTL DEF AccountsSpec

-----------------------------------------------------------------------------
Updating(b) == battle[b].at \in {"reading", "writing"}

(* The end of a battle that reads the matches of a player or writes his    *)
(* rating has m_ratingMutex of the player's connection.                    *)
RatingInv ==
    /\ DOMAIN rating = Connection
    /\ DOMAIN battle = Battle
    /\ \A b \in Battle : DOMAIN battle[b] = {"at", "n", "players", "read"}
    /\ \A b \in Battle : battle[b].at \notin {"none", "over"} =>
            /\ battle[b].n \in 1 .. 2
            /\ battle[b].players \in Connection \X Connection
    /\ \A b \in Battle : battle[b].at = "none" => battle[b].n = 1
    /\ \A b \in Battle : Updating(b) => rating[Player(b)] = b

LEMMA InitRating == AccountsInit => RatingInv
  BY DEF AccountsInit, RatingInv, Updating

LEMMA NextRating == RatingInv /\ [AccountsNext]_accountVars => RatingInv'
<1> SUFFICES ASSUME RatingInv, [AccountsNext]_accountVars
             PROVE  RatingInv'
  OBVIOUS
<1> USE DEF RatingInv, Updating, Player
<1>1. ASSUME NEW c \in Connection, Handles(c)
      PROVE  RatingInv'
  BY <1>1 DEF Handles, LookForUser, RegisterUser, RequestChallenge, TakeName, ChallengeResponse,
              Authenticate, Identify, RemoveClient, QueueTeam, login
<1>2. ASSUME NEW b \in Battle, NEW c \in Connection, NEW d \in Connection, StartMatch(b, c, d)
      PROVE  RatingInv'
  BY <1>2 DEF StartMatch
<1>3. ASSUME NEW b \in Battle, NEW victor, PostLadderMatch(b, victor)
      PROVE  RatingInv'
  BY <1>3 DEF PostLadderMatch
<1>4. ASSUME NEW b \in Battle, UpdateLadderStats(b)
      PROVE  RatingInv'
  <2>1. Unset \notin Battle
    BY AccountsAssumption
  <2> QED
    BY <1>4, <2>1 DEF UpdateLadderStats, Proceeds
<1>5. ASSUME NEW b \in Battle, ReadMatches(b)
      PROVE  RatingInv'
  BY <1>5 DEF ReadMatches
<1>6. ASSUME NEW b \in Battle, WriteRating(b)
      PROVE  RatingInv'
  <2>1. rating[Player(b)] = b
    BY <1>6 DEF WriteRating
  <2>2. \A a \in Battle \ {b} : Updating(a) => Player(a) # Player(b)
    BY <2>1
  <2> QED
    BY <1>6, <2>1, <2>2 DEF WriteRating
<1>7. CASE UNCHANGED accountVars
  BY <1>7 DEF accountVars, login, table
<1> QED
  BY <1>1, <1>2, <1>3, <1>4, <1>5, <1>6, <1>7 DEF AccountsNext, MatchEnds

(* The ends of two battles never update the rating of one connection at    *)
(* once, so that neither overwrites what it has not read                   *)
(* (updateLadderStats, m_ratingMutex).                                     *)
OneUpdateAtOnce ==
    \A a, b \in Battle : Updating(a) /\ Updating(b) /\ Player(a) = Player(b) => a = b

THEOREM UpdatesAreSerial == AccountsSpec => []OneUpdateAtOnce
<1>1. RatingInv => OneUpdateAtOnce
  BY DEF RatingInv, OneUpdateAtOnce
<1> QED
  BY InitRating, NextRating, <1>1, PTL DEF AccountsSpec

-----------------------------------------------------------------------------
(* Ratings: no match of a user is forgotten, for every number of battles   *)
(* that end at once.                                                       *)

ResultOf(m, i) == [of |-> m.of, opponent |-> Opponent(m, i), score |-> Score(m, i)]
PlayedBy(m, i) == i \in {m.ids[1], m.ids[2]}
Known(c) == IdsOf(NameOf[c]) # {} /\ id[c] = IdOf(NameOf[c])
Posted(b) == battle[b].at \notin {"none", "on"}

(* The battle was posted, and the rating of c does not show it yet.        *)
Owed(b, c) ==
    /\ battle[b].at \in {"posted", "reading", "writing"}
    /\ \/ battle[b].n = 1 /\ battle[b].players[1] = c
       \/ battle[b].players[2] = c

(* Nobody but c has played under its name.                                 *)
Sole(c) == \A d \in Connection : NameOf[d] = NameOf[c] /\ d # c => BattlesOf(d) = {}

(* Whoever is logged in, queued, or plays, is known by the first id of the *)
(* name whose password he has, whatever name he has taken since; no        *)
(* registration changes that id, and there is an id for every row that can *)
(* be inserted.                                                            *)
LoginInv(c) ==
    /\ step[c] = "registering" => c \in Newcomer
    /\ step[c] = "naming" => IdsOf(asked[c]) # {}
    /\ called[c] = Unset \/ IdsOf(called[c]) # {}
    /\ step[c] \in {"answered", "identified"} => called[c] = NameOf[c]
    /\ id[c] = Unset \/ Known(c)
    /\ c \in authenticated /\ step[c] # "identified" => Known(c)
Unregistered == {c \in Newcomer : step[c] = "registering" \/ IdsOf(NameOf[c]) = {}}
UsersInv ==
    /\ users \in Seq(Name)
    /\ Len(users) + Cardinality(Unregistered) <= Cardinality(Connection) + Cardinality(Name)
    /\ DOMAIN step = Connection /\ DOMAIN id = Connection
    /\ DOMAIN called = Connection /\ DOMAIN asked = Connection
    /\ queue \subseteq Connection
    /\ DOMAIN accounted = Ids
    /\ \A c \in Connection : LoginInv(c)
    /\ \A c \in queue : Known(c) /\ id[c] \in ladder
BattlesInv ==
    /\ \A b \in Battle : battle[b].at = "none" => battle[b].players = <<>>
    /\ \A b \in Battle : battle[b].at # "none" =>
            /\ battle[b].players \in Connection \X Connection
            /\ battle[b].players[1] # battle[b].players[2]
            /\ Known(battle[b].players[1]) /\ id[battle[b].players[1]] \in ladder
            /\ Known(battle[b].players[2]) /\ id[battle[b].players[2]] \in ladder
    /\ \A b \in Battle : battle[b].at \in {"none", "on"} => battle[b].n = 1

(* The table of matches has each battle that was posted, and ratings come  *)
(* from nothing else.                                                      *)
MatchesInv ==
    /\ \A m \in matches :
            /\ m.of \in Battle /\ Posted(m.of)
            /\ m.ids[1] = id[battle[m.of].players[1]]
            /\ m.ids[2] = id[battle[m.of].players[2]]
    /\ \A b \in Battle : Posted(b) => \E m \in matches : m.of = b
ResultsInv ==
    /\ \A i \in Ids : accounted[i] \subseteq Results(matches, i)
    /\ \A b \in Battle : battle[b].at = "writing"
            => battle[b].read \subseteq Results(matches, id[Player(b)])

(* Each match of c is in its rating, or its battle still owes it; and is   *)
(* in what an update of c has read, or another battle owes it.             *)
Accounted(c) ==
    Known(c) /\ Sole(c) =>
        /\ \A m \in matches : PlayedBy(m, id[c]) =>
                ResultOf(m, id[c]) \in accounted[id[c]] \/ Owed(m.of, c)
        /\ \A b \in Battle : battle[b].at = "writing" /\ Player(b) = c =>
                \A m \in matches : PlayedBy(m, id[c]) =>
                    ResultOf(m, id[c]) \in battle[b].read \/ (Owed(m.of, c) /\ m.of # b)

-----------------------------------------------------------------------------
(* The id of a name is that of its first row, now and after a step.        *)
Rows(s, name) == {i \in DOMAIN s : s[i] = name}
First(s, name) == CHOOSE i \in Rows(s, name) : \A j \in Rows(s, name) : i <= j
LEMMA RowsOfUsers ==
  ASSUME NEW name
  PROVE  /\ IdsOf(name) = Rows(users, name) /\ IdOf(name) = First(users, name)
         /\ IdsOf(name)' = Rows(users', name) /\ IdOf(name)' = First(users', name)
  BY DEF IdsOf, IdOf, Rows, First

LEMMA FirstRow ==
  ASSUME NEW s \in Seq(Name), NEW name, Rows(s, name) # {}
  PROVE  /\ First(s, name) \in 1 .. Len(s) /\ s[First(s, name)] = name
         /\ \A j \in Rows(s, name) : First(s, name) <= j
<1>1. Rows(s, name) \subseteq Nat /\ DOMAIN s = 1 .. Len(s)
  BY DEF Rows
<1>2. PICK i \in Rows(s, name) : \A j \in Rows(s, name) : <<j, i>> \notin OpToRel(<, Nat)
  BY <1>1, NatLessThanWellFounded, WFMin
<1>3. ASSUME NEW j \in Rows(s, name)
      PROVE  i <= j
  <2>1. i \in Nat /\ j \in Nat
    BY <1>1
  <2>2. ~(j < i)
    BY <1>2, <2>1 DEF OpToRel
  <2> QED
    BY <2>1, <2>2
<1>4. First(s, name) \in Rows(s, name) /\ \A j \in Rows(s, name) : First(s, name) <= j
  BY <1>3 DEF First
<1> QED
  BY <1>1, <1>4 DEF Rows

LEMMA FirstRowStays ==
  ASSUME NEW s \in Seq(Name), NEW x \in Name, NEW name, Rows(s, name) # {}
  PROVE  /\ Rows(Append(s, x), name) # {}
         /\ First(Append(s, x), name) = First(s, name)
<1> DEFINE t == Append(s, x)
<1>1. /\ t \in Seq(Name) /\ Len(t) = Len(s) + 1 /\ Len(s) \in Nat
      /\ \A i \in 1 .. Len(s) : t[i] = s[i]
      /\ DOMAIN s = 1 .. Len(s) /\ DOMAIN t = 1 .. Len(s) + 1
  BY AppendProperties, LenProperties
<1> HIDE DEF t
<1>2. /\ First(s, name) \in 1 .. Len(s) /\ s[First(s, name)] = name
      /\ \A j \in Rows(s, name) : First(s, name) <= j
  BY FirstRow
<1>3. First(s, name) \in Rows(t, name)
  BY <1>1, <1>2 DEF Rows
<1>4. ASSUME NEW j \in Rows(t, name) PROVE First(s, name) <= j
  <2>1. j \in 1 .. Len(s) + 1 /\ t[j] = name
    BY <1>1, <1>4 DEF Rows
  <2>2. j \in 1 .. Len(s) => j \in Rows(s, name)
    BY <1>1, <2>1 DEF Rows
  <2> QED
    BY <1>1, <1>2, <2>1, <2>2
<1>5. First(t, name) \in 1 .. Len(t) /\ First(t, name) <= First(s, name)
  BY <1>1, <1>3, FirstRow
<1>6. First(t, name) \in Rows(t, name)
  BY <1>1, <1>3, FirstRow DEF Rows
<1>7. First(s, name) <= First(t, name)
  BY <1>4, <1>6
<1> QED
  BY <1>1, <1>2, <1>3, <1>5, <1>7 DEF t

LEMMA KnownRows ==
  ASSUME UsersInv, NEW c \in Connection, Known(c)
  PROVE  id[c] \in Ids
<1>1. id[c] \in 1 .. Len(users)
  BY RowsOfUsers, FirstRow DEF UsersInv, Known
<1>2. Cardinality(Unregistered) \in Nat
  BY AccountsAssumption, FS_Subset, FS_CardinalityType DEF Unregistered
<1>3. /\ Cardinality(Connection) + Cardinality(Name) \in Nat
      /\ Len(users) \in Nat
  BY AccountsAssumption, FS_CardinalityType, LenProperties DEF UsersInv
<1> QED
  BY <1>1, <1>2, <1>3 DEF Ids, UsersInv

(* Two who are known have one id only if they have one name.               *)
LEMMA KnownApart ==
  ASSUME UsersInv, NEW c \in Connection, NEW d \in Connection, Known(c), Known(d)
  PROVE  id[c] = id[d] => NameOf[c] = NameOf[d]
<1>1. users \in Seq(Name)
  BY DEF UsersInv
<1>2. ASSUME NEW e \in Connection, Known(e)
      PROVE  users[id[e]] = NameOf[e]
  <2>1. Rows(users, NameOf[e]) # {} /\ id[e] = First(users, NameOf[e])
    BY <1>2, RowsOfUsers DEF Known
  <2> QED
    BY <1>1, <2>1, FirstRow
<1> QED
  BY <1>2

LEMMA KnownApartNext ==
  ASSUME UsersInv', NEW c \in Connection, NEW d \in Connection, Known(c)', Known(d)'
  PROVE  id'[c] = id'[d] => NameOf[c] = NameOf[d]
<1>1. users' \in Seq(Name)
  BY DEF UsersInv
<1>2. ASSUME NEW e \in Connection, Known(e)'
      PROVE  users'[id'[e]] = NameOf[e]
  <2>1. Rows(users', NameOf[e]) # {} /\ id'[e] = First(users', NameOf[e])
    BY <1>2, RowsOfUsers DEF Known
  <2> QED
    BY <1>1, <2>1, FirstRow
<1> QED
  BY <1>2

LEMMA RowsStay ==
  ASSUME UsersInv, [AccountsNext]_accountVars, NEW name, IdsOf(name) # {}
  PROVE  IdsOf(name)' # {} /\ IdOf(name)' = IdOf(name)
<1>1. ASSUME users' = users
      PROVE  IdsOf(name)' # {} /\ IdOf(name)' = IdOf(name)
  BY <1>1 DEF IdsOf, IdOf
<1>2. ASSUME NEW e \in Connection, RegisterUser(e)
      PROVE  IdsOf(name)' # {} /\ IdOf(name)' = IdOf(name)
  <2>1. users' = Append(users, NameOf[e]) /\ NameOf[e] \in Name /\ users \in Seq(Name)
    BY <1>2, AccountsAssumption DEF RegisterUser, UsersInv
  <2> QED
    BY <2>1, FirstRowStays, RowsOfUsers
<1>3. ASSUME NEW e \in Connection,
             \/ LookForUser(e) \/ \E x \in Name : RequestChallenge(e, x)
             \/ TakeName(e) \/ ChallengeResponse(e) \/ Authenticate(e) \/ Identify(e)
             \/ RemoveClient(e) \/ QueueTeam(e)
      PROVE  users' = users
  BY <1>3 DEF LookForUser, RequestChallenge, TakeName, ChallengeResponse, Authenticate,
              Identify, RemoveClient, QueueTeam, login
<1>4. ASSUME NEW b \in Battle, MatchEnds(b)
      PROVE  users' = users
  BY <1>4 DEF MatchEnds, StartMatch, PostLadderMatch, UpdateLadderStats, ReadMatches,
              WriteRating, login
<1>5. CASE UNCHANGED accountVars
  BY <1>1, <1>5 DEF accountVars, login, table
<1> QED
  BY <1>1, <1>2, <1>3, <1>4, <1>5 DEF AccountsNext, Handles

LEMMA KnownStays ==
  ASSUME UsersInv, [AccountsNext]_accountVars, NEW c \in Connection, Known(c)
  PROVE  Known(c)' /\ id'[c] = id[c]
<1>1. IdsOf(NameOf[c])' # {} /\ IdOf(NameOf[c])' = IdOf(NameOf[c])
  BY RowsStay DEF Known
<1>2. ASSUME id'[c] = id[c] PROVE Known(c)' /\ id'[c] = id[c]
  BY <1>1, <1>2 DEF Known
<1>3. ASSUME NEW e \in Connection, Identify(e)
      PROVE  id'[c] = id[c]
  <2>1. called[e] = NameOf[e] /\ id' = [id EXCEPT ![e] = IdOf(NameOf[e])]
    BY <1>3 DEF Identify, MovesOn, UsersInv, LoginInv
  <2> QED
    BY <2>1 DEF Known, UsersInv
<1>4. ASSUME NEW e \in Connection,
             \/ LookForUser(e) \/ RegisterUser(e) \/ \E x \in Name : RequestChallenge(e, x)
             \/ TakeName(e) \/ ChallengeResponse(e) \/ Authenticate(e)
             \/ RemoveClient(e) \/ QueueTeam(e)
      PROVE  id' = id
  BY <1>4 DEF LookForUser, RegisterUser, RequestChallenge, TakeName, ChallengeResponse,
              Authenticate, RemoveClient, QueueTeam, login
<1>5. ASSUME NEW b \in Battle, MatchEnds(b)
      PROVE  id' = id
  BY <1>5 DEF MatchEnds, StartMatch, PostLadderMatch, UpdateLadderStats, ReadMatches,
              WriteRating, login
<1>6. CASE UNCHANGED accountVars
  BY <1>2, <1>6 DEF accountVars, login, table
<1> QED
  BY <1>2, <1>3, <1>4, <1>5, <1>6 DEF AccountsNext, Handles

LEMMA LadderGrows ==
  [AccountsNext]_accountVars => ladder \subseteq ladder'
<1>1. ASSUME NEW c \in Connection, Handles(c) PROVE ladder \subseteq ladder'
  BY <1>1 DEF Handles, LookForUser, RegisterUser, RequestChallenge, TakeName, ChallengeResponse,
              Authenticate, Identify, RemoveClient, QueueTeam, table
<1>2. ASSUME NEW b \in Battle, MatchEnds(b) PROVE ladder \subseteq ladder'
  BY <1>2 DEF MatchEnds, StartMatch, PostLadderMatch, UpdateLadderStats, ReadMatches,
              WriteRating, table
<1> QED
  BY <1>1, <1>2 DEF AccountsNext, accountVars, login, table

LEMMA UnregisteredFewer ==
  ASSUME UsersInv, Unregistered' \subseteq Unregistered
  PROVE  /\ Cardinality(Unregistered) \in Nat /\ Cardinality(Unregistered') \in Nat
         /\ Cardinality(Unregistered') <= Cardinality(Unregistered)
         /\ IsFiniteSet(Unregistered)
<1>1. IsFiniteSet(Unregistered)
  BY AccountsAssumption, FS_Subset DEF Unregistered
<1>2. IsFiniteSet(Unregistered') /\ Cardinality(Unregistered') <= Cardinality(Unregistered)
  BY <1>1, FS_Subset
<1> QED
  BY <1>1, <1>2, FS_CardinalityType

LEMMA NextUsers ==
  ASSUME UsersInv, [AccountsNext]_accountVars
  PROVE  UsersInv'
<1> DEFINE Fit == Len(users') + Cardinality(Unregistered')
                        <= Cardinality(Connection) + Cardinality(Name)
           Domains == /\ DOMAIN step' = Connection /\ DOMAIN id' = Connection
                      /\ DOMAIN called' = Connection /\ DOMAIN asked' = Connection
                      /\ DOMAIN accounted' = Ids
           Same(d) == /\ step'[d] = step[d] /\ id'[d] = id[d]
                      /\ called'[d] = called[d] /\ asked'[d] = asked[d]
                      /\ d \in authenticated' => d \in authenticated
<1>k. ASSUME NEW d \in Connection, Known(d) PROVE Known(d)' /\ id'[d] = id[d]
  BY <1>k, KnownStays
<1>r. ASSUME NEW name, IdsOf(name) # {} PROVE IdsOf(name)' # {}
  BY <1>r, RowsStay
<1>o. ASSUME NEW d \in Connection, Same(d) PROVE LoginInv(d)'
  <2>1. LoginInv(d)
    BY DEF UsersInv
  <2> QED
    BY <1>o, <2>1, <1>k, <1>r DEF LoginInv
<1>q. ASSUME queue' \subseteq queue
      PROVE  queue' \subseteq Connection /\ \A d \in queue' : Known(d)' /\ id'[d] \in ladder'
  BY <1>q, <1>k, LadderGrows DEF UsersInv
<1>t. Cardinality(Connection) + Cardinality(Name) \in Nat /\ Len(users) \in Nat
  BY AccountsAssumption, FS_CardinalityType, LenProperties DEF UsersInv
<1>u. ASSUME users' = users,
             \A d \in Newcomer : step'[d] = "registering"
                => step[d] = "registering" \/ IdsOf(NameOf[d]) = {}
      PROVE  users' \in Seq(Name) /\ Fit
  <2>1. Unregistered' \subseteq Unregistered
    BY <1>u DEF Unregistered, IdsOf
  <2> QED
    BY <1>u, <1>t, <2>1, UnregisteredFewer DEF UsersInv
<1>v. ASSUME users' \in Seq(Name), Fit, Domains, queue' \subseteq queue,
             \A d \in Connection : LoginInv(d)'
      PROVE  UsersInv'
  BY <1>v, <1>q DEF UsersInv
<1>n. Newcomer \subseteq Connection
  BY AccountsAssumption
<1> HIDE DEF Fit
<1>1. ASSUME NEW c \in Connection, LookForUser(c) PROVE UsersInv'
  <2>1. Domains /\ users' = users /\ queue' = queue /\ \A d \in Connection \ {c} : Same(d)
    BY <1>1 DEF LookForUser, MovesOn, UsersInv, table
  <2>2. /\ c \in Newcomer /\ IdsOf(NameOf[c]) = {} /\ step[c] = "idle"
        /\ step'[c] = "registering" /\ called'[c] = called[c] /\ id'[c] = id[c]
        /\ authenticated' = authenticated
    BY <1>1 DEF LookForUser, MovesOn, UsersInv
  <2>3. LoginInv(c)'
    <3>1. LoginInv(c)
      BY DEF UsersInv
    <3> QED
      BY <2>2, <3>1, <1>k, <1>r DEF LoginInv
  <2> QED
    BY <2>1, <2>2, <2>3, <1>n, <1>o, <1>u, <1>v
<1>2. ASSUME NEW c \in Connection, RegisterUser(c) PROVE UsersInv'
  <2>1. /\ Domains /\ queue' = queue /\ \A d \in Connection \ {c} : Same(d)
        /\ step[c] = "registering" /\ step'[c] = "idle" /\ called' = called /\ id' = id
        /\ authenticated' = authenticated /\ users' = Append(users, NameOf[c])
    BY <1>2 DEF RegisterUser, MovesOn, UsersInv, table
  <2>2. /\ users' \in Seq(Name) /\ Len(users') = Len(users) + 1
        /\ users'[Len(users) + 1] = NameOf[c] /\ DOMAIN users' = 1 .. Len(users) + 1
    BY <2>1, <1>t, AccountsAssumption, AppendProperties DEF UsersInv
  <2>3. LoginInv(c)
    BY DEF UsersInv
  <2>4. LoginInv(c)'
    BY <2>1, <2>3, <1>k, <1>r DEF LoginInv
  <2>5. Fit
    <3>1. c \in Unregistered
      BY <2>1, <2>3 DEF LoginInv, Unregistered
    <3>2. Len(users) + 1 \in IdsOf(NameOf[c])'
      BY <2>2, <1>t DEF IdsOf
    <3>3. Unregistered' \subseteq Unregistered \ {c}
      BY <2>1, <3>2, <1>n, <1>r DEF Unregistered
    <3>4. IsFiniteSet(Unregistered) /\ Cardinality(Unregistered) \in Nat
      BY <3>3, UnregisteredFewer
    <3>5. /\ IsFiniteSet(Unregistered \ {c})
          /\ Cardinality(Unregistered \ {c}) = Cardinality(Unregistered) - 1
      BY <3>1, <3>4, FS_RemoveElement
    <3>6. /\ Cardinality(Unregistered') <= Cardinality(Unregistered \ {c})
          /\ Cardinality(Unregistered') \in Nat
      BY <3>3, <3>5, FS_Subset, FS_CardinalityType
    <3> QED
      BY <1>t, <2>2, <3>4, <3>5, <3>6 DEF Fit, UsersInv
  <2> QED
    BY <2>1, <2>2, <2>4, <2>5, <1>o, <1>v
<1>3. ASSUME NEW c \in Connection, NEW name \in Name, RequestChallenge(c, name) PROVE UsersInv'
  <2>1. Domains /\ users' = users /\ queue' = queue /\ \A d \in Connection \ {c} : Same(d)
    BY <1>3 DEF RequestChallenge, MovesOn, UsersInv, table
  <2>2. /\ step[c] = "idle"
        /\ \/ step'[c] = "naming" /\ asked'[c] = name /\ IdsOf(name) # {}
           \/ step'[c] = "idle" /\ asked'[c] = asked[c]
        /\ called' = called /\ id' = id /\ authenticated' = authenticated
    BY <1>3 DEF RequestChallenge, MovesOn, UsersInv
  <2>3. LoginInv(c)'
    <3>1. LoginInv(c)
      BY DEF UsersInv
    <3> QED
      BY <2>2, <3>1, <1>k, <1>r DEF LoginInv
  <2> QED
    BY <2>1, <2>2, <2>3, <1>n, <1>o, <1>u, <1>v
<1>4. ASSUME NEW c \in Connection, TakeName(c) PROVE UsersInv'
  <2>1. Domains /\ users' = users /\ queue' = queue /\ \A d \in Connection \ {c} : Same(d)
    BY <1>4 DEF TakeName, MovesOn, UsersInv, table
  <2>2. /\ step[c] = "naming" /\ step'[c] = "idle" /\ called'[c] = asked[c]
        /\ id' = id /\ authenticated' = authenticated
    BY <1>4 DEF TakeName, MovesOn, UsersInv
  <2>3. LoginInv(c)'
    <3>1. LoginInv(c)
      BY DEF UsersInv
    <3> QED
      BY <2>2, <3>1, <1>k, <1>r DEF LoginInv
  <2> QED
    BY <2>1, <2>2, <2>3, <1>n, <1>o, <1>u, <1>v
<1>5. ASSUME NEW c \in Connection, ChallengeResponse(c) PROVE UsersInv'
  <2>1. Domains /\ users' = users /\ queue' = queue /\ \A d \in Connection \ {c} : Same(d)
    BY <1>5 DEF ChallengeResponse, MovesOn, UsersInv, table
  <2>2. /\ step[c] = "idle"
        /\ step'[c] = "idle" \/ (step'[c] = "answered" /\ called[c] = NameOf[c])
        /\ called' = called /\ id' = id /\ authenticated' = authenticated
    BY <1>5 DEF ChallengeResponse, MovesOn, UsersInv
  <2>3. LoginInv(c)'
    <3>1. LoginInv(c)
      BY DEF UsersInv
    <3> QED
      BY <2>2, <3>1, <1>k, <1>r DEF LoginInv
  <2> QED
    BY <2>1, <2>2, <2>3, <1>n, <1>o, <1>u, <1>v
<1>6. ASSUME NEW c \in Connection, Authenticate(c) PROVE UsersInv'
  <2>1. Domains /\ users' = users /\ queue' = queue /\ \A d \in Connection \ {c} : Same(d)
    BY <1>6 DEF Authenticate, MovesOn, UsersInv, table
  <2>2. /\ step[c] = "answered" /\ called' = called /\ id' = id
        /\ \/ step'[c] = "identified"
           \/ step'[c] = "idle" /\ authenticated' = authenticated
    BY <1>6 DEF Authenticate, MovesOn, UsersInv
  <2>3. LoginInv(c)'
    <3>1. LoginInv(c)
      BY DEF UsersInv
    <3> QED
      BY <2>2, <3>1, <1>k, <1>r DEF LoginInv
  <2> QED
    BY <2>1, <2>2, <2>3, <1>n, <1>o, <1>u, <1>v
<1>7. ASSUME NEW c \in Connection, Identify(c) PROVE UsersInv'
  <2>1. Domains /\ users' = users /\ queue' = queue /\ \A d \in Connection \ {c} : Same(d)
    BY <1>7 DEF Identify, MovesOn, UsersInv, table
  <2>2. /\ step[c] = "identified" /\ step'[c] = "idle" /\ called' = called
        /\ id'[c] = IdOf(called[c])
    BY <1>7 DEF Identify, MovesOn, UsersInv
  <2>3. LoginInv(c)
    BY DEF UsersInv
  <2>4. called[c] = NameOf[c] /\ IdsOf(NameOf[c]) # {}
    BY <2>2, <2>3, AccountsAssumption DEF LoginInv
  <2>5. Known(c)'
    BY <2>1, <2>2, <2>4 DEF Known, IdsOf, IdOf
  <2>6. LoginInv(c)'
    BY <2>2, <2>3, <2>5, <1>r DEF LoginInv
  <2> QED
    BY <2>1, <2>2, <2>6, <1>n, <1>o, <1>u, <1>v
<1>8. ASSUME NEW c \in Connection, RemoveClient(c) PROVE UsersInv'
  <2>1. Domains /\ users' = users /\ queue' \subseteq queue /\ step' = step
        /\ \A d \in Connection : Same(d)
    BY <1>8 DEF RemoveClient, UsersInv, table
  <2> QED
    BY <2>1, <1>o, <1>u, <1>v
<1>9. ASSUME NEW c \in Connection, QueueTeam(c) PROVE UsersInv'
  <2>1. Domains /\ users' = users /\ step' = step /\ id' = id /\ \A d \in Connection : Same(d)
    BY <1>9 DEF QueueTeam, login, UsersInv
  <2>2. users' \in Seq(Name) /\ Fit /\ \A d \in Connection : LoginInv(d)'
    BY <2>1, <1>o, <1>u
  <2>3. Known(c) /\ queue' = queue \cup {c} /\ ladder' = ladder \cup {id[c]}
    BY <1>9 DEF QueueTeam, UsersInv, LoginInv
  <2>4. /\ queue' \subseteq Connection
        /\ \A d \in queue' : Known(d)' /\ id'[d] \in ladder'
    BY <2>1, <2>3, <1>k DEF UsersInv
  <2> QED
    BY <2>1, <2>2, <2>4 DEF Fit, UsersInv
<1>10. ASSUME login' = login, queue' \subseteq queue, DOMAIN accounted' = DOMAIN accounted
       PROVE  UsersInv'
  <2>1. Domains /\ users' = users /\ step' = step /\ \A d \in Connection : Same(d)
    BY <1>10 DEF login, UsersInv
  <2> QED
    BY <2>1, <1>10, <1>o, <1>u, <1>v
<1>11. ASSUME NEW b \in Battle, MatchEnds(b) PROVE UsersInv'
  <2>1. login' = login /\ queue' \subseteq queue /\ DOMAIN accounted' = DOMAIN accounted
    BY <1>11 DEF MatchEnds, StartMatch, PostLadderMatch, UpdateLadderStats, ReadMatches,
              WriteRating, table
  <2> QED
    BY <2>1, <1>10
<1>12. CASE UNCHANGED accountVars
  <2>1. login' = login /\ queue' = queue /\ accounted' = accounted
    BY <1>12 DEF accountVars, login, table
  <2> QED
    BY <2>1, <1>10
<1> QED
  BY <1>1, <1>2, <1>3, <1>4, <1>5, <1>6, <1>7, <1>8, <1>9, <1>11, <1>12 DEF AccountsNext, Handles

-----------------------------------------------------------------------------
(* What the steps of handlers and of the ends of battles leave alone.      *)
LEMMA HandlersLeave ==
  ASSUME NEW c \in Connection, Handles(c)
  PROVE  battle' = battle /\ matches' = matches /\ accounted' = accounted /\ rating' = rating
  BY DEF Handles, LookForUser, RegisterUser, RequestChallenge, TakeName, ChallengeResponse,
         Authenticate, Identify, RemoveClient, QueueTeam, table

LEMMA NextBattles ==
  ASSUME UsersInv, RatingInv, BattlesInv, [AccountsNext]_accountVars
  PROVE  BattlesInv'
<1>k. ASSUME NEW c \in Connection, Known(c) PROVE Known(c)' /\ id'[c] = id[c]
  BY <1>k, KnownStays
<1>l. ladder \subseteq ladder'
  BY LadderGrows
<1> USE DEF BattlesInv
<1>0. ASSUME battle' = battle PROVE BattlesInv'
  BY <1>0, <1>k, <1>l
<1>1. ASSUME NEW c \in Connection, Handles(c) PROVE BattlesInv'
  BY <1>0, <1>1, HandlersLeave
<1>2. ASSUME NEW b \in Battle, NEW c \in Connection, NEW d \in Connection, StartMatch(b, c, d)
      PROVE  BattlesInv'
  <2>1. /\ Known(c) /\ id[c] \in ladder
        /\ Known(d) /\ id[d] \in ladder
    BY <1>2 DEF StartMatch, UsersInv
  <2>2. /\ Known(c)' /\ id'[c] \in ladder'
        /\ Known(d)' /\ id'[d] \in ladder'
    BY <2>1, <1>k, <1>l
  <2>3. /\ battle'[b].at = "on" /\ c # d
        /\ battle'[b].players \in Connection \X Connection
        /\ battle'[b].players[1] = c /\ battle'[b].players[2] = d
        /\ battle'[b].n = battle[b].n /\ battle[b].n = 1
        /\ \A a \in Battle \ {b} : battle'[a] = battle[a]
    BY <1>2 DEF StartMatch, RatingInv
  <2>4. \A a \in Battle \ {b} : battle'[a].at # "none" =>
            /\ Known(battle[a].players[1])' /\ id'[battle[a].players[1]] \in ladder'
            /\ Known(battle[a].players[2])' /\ id'[battle[a].players[2]] \in ladder'
    BY <2>3, <1>k, <1>l
  <2> QED
    BY <2>2, <2>3, <2>4
<1>3. ASSUME NEW b \in Battle,
             \/ \E victor \in {1, 2, Unset} : PostLadderMatch(b, victor)
             \/ UpdateLadderStats(b) \/ ReadMatches(b) \/ WriteRating(b)
      PROVE  BattlesInv'
  <2>1. /\ battle[b].at # "none" /\ battle'[b].at \notin {"none", "on"}
        /\ battle'[b].players = battle[b].players
        /\ \A a \in Battle \ {b} : battle'[a] = battle[a]
    BY <1>3 DEF PostLadderMatch, UpdateLadderStats, Proceeds, ReadMatches, WriteRating, RatingInv
  <2> QED
    BY <2>1, <1>k, <1>l
<1>4. CASE UNCHANGED accountVars
  BY <1>0, <1>4 DEF accountVars, login, table
<1> QED
  BY <1>1, <1>2, <1>3, <1>4 DEF AccountsNext, MatchEnds

(* A match that is posted has the ids of those who played.                 *)
LEMMA NextMatches ==
  ASSUME UsersInv, RatingInv, BattlesInv, MatchesInv, [AccountsNext]_accountVars
  PROVE  MatchesInv'
<1>k. ASSUME NEW b \in Battle, battle[b].at # "none"
      PROVE  /\ id'[battle[b].players[1]] = id[battle[b].players[1]]
             /\ id'[battle[b].players[2]] = id[battle[b].players[2]]
  <2>1. /\ battle[b].players[1] \in Connection /\ Known(battle[b].players[1])
        /\ battle[b].players[2] \in Connection /\ Known(battle[b].players[2])
    BY <1>k DEF BattlesInv
  <2> QED
    BY <2>1, KnownStays
<1> USE DEF MatchesInv, Posted
<1>0. ASSUME battle' = battle, matches' = matches PROVE MatchesInv'
  BY <1>0, <1>k
<1>1. ASSUME NEW c \in Connection, Handles(c) PROVE MatchesInv'
  BY <1>0, <1>1, HandlersLeave
<1>2. ASSUME NEW b \in Battle, NEW c \in Connection, NEW d \in Connection, StartMatch(b, c, d)
      PROVE  MatchesInv'
  <2>1. /\ battle[b].at = "none" /\ battle'[b].at = "on" /\ matches' = matches
        /\ \A a \in Battle \ {b} : battle'[a] = battle[a]
    BY <1>2 DEF StartMatch, RatingInv, table
  <2> QED
    BY <2>1, <1>k
<1>3. ASSUME NEW b \in Battle, NEW victor \in {1, 2, Unset}, PostLadderMatch(b, victor)
      PROVE  MatchesInv'
  <2> DEFINE new == [of |-> b, victor |-> victor,
                     ids |-> [n \in 1 .. 2 |-> id[battle[b].players[n]]]]
  <2>1. /\ battle[b].at = "on" /\ battle'[b].at = "posted"
        /\ battle'[b].players = battle[b].players
        /\ \A a \in Battle \ {b} : battle'[a] = battle[a]
        /\ matches' = matches \cup {new}
    BY <1>3 DEF PostLadderMatch, RatingInv
  <2>2. /\ new.of = b
        /\ new.ids[1] = id[battle[b].players[1]]
        /\ new.ids[2] = id[battle[b].players[2]]
    OBVIOUS
  <2> HIDE DEF new
  <2>3. \A m \in matches : m.of # b
    BY <2>1
  <2>4. /\ id'[battle[b].players[1]] = id[battle[b].players[1]]
        /\ id'[battle[b].players[2]] = id[battle[b].players[2]]
    BY <2>1, <1>k
  <2> QED
    BY <2>1, <2>2, <2>3, <2>4, <1>k
<1>4. ASSUME NEW b \in Battle, UpdateLadderStats(b) \/ ReadMatches(b) \/ WriteRating(b)
      PROVE  MatchesInv'
  <2>1. /\ battle[b].at \notin {"none", "on"} /\ battle'[b].at \notin {"none", "on"}
        /\ battle'[b].players = battle[b].players
        /\ \A a \in Battle \ {b} : battle'[a] = battle[a]
        /\ matches' = matches
    BY <1>4 DEF UpdateLadderStats, Proceeds, ReadMatches, WriteRating, RatingInv, table
  <2> QED
    BY <2>1, <1>k
<1>5. CASE UNCHANGED accountVars
  BY <1>0, <1>5 DEF accountVars, login, table
<1> QED
  BY <1>1, <1>2, <1>3, <1>4, <1>5 DEF AccountsNext, MatchEnds

LEMMA ResultsAre ==
  ASSUME NEW ms, NEW i, NEW r
  PROVE  r \in Results(ms, i) <=> \E m \in ms : /\ PlayedBy(m, i) /\ Opponent(m, i) \in ladder
                                                /\ r = ResultOf(m, i)
  BY DEF Results, PlayedBy, ResultOf

LEMMA MatchesGrow ==
  [AccountsNext]_accountVars => matches \subseteq matches'
<1>1. ASSUME NEW b \in Battle, MatchEnds(b) PROVE matches \subseteq matches'
  BY <1>1 DEF MatchEnds, StartMatch, PostLadderMatch, UpdateLadderStats, ReadMatches,
              WriteRating, table
<1> QED
  BY <1>1, HandlersLeave DEF AccountsNext, accountVars, login, table

LEMMA NextResults ==
  ASSUME UsersInv, RatingInv, BattlesInv, ResultsInv, [AccountsNext]_accountVars
  PROVE  ResultsInv'
<1>g. ASSUME NEW i PROVE Results(matches, i) \subseteq Results(matches, i)'
  BY LadderGrows, MatchesGrow DEF Results, Opponent, Score
<1>k. ASSUME NEW b \in Battle, battle[b].at \notin {"none", "over"}
      PROVE  id'[Player(b)] = id[Player(b)]
  <2>1. Player(b) \in Connection /\ Known(Player(b))
    BY <1>k DEF BattlesInv, RatingInv, Player
  <2> QED
    BY <2>1, KnownStays
<1> USE DEF ResultsInv
<1>0. ASSUME battle' = battle, accounted' = accounted PROVE ResultsInv'
  <2>1. \A b \in Battle : Player(b)' = Player(b)
    BY <1>0 DEF Player
  <2> QED
    BY <1>0, <1>g, <1>k, <2>1
<1>1. ASSUME NEW c \in Connection, Handles(c) PROVE ResultsInv'
  BY <1>0, <1>1, HandlersLeave
<1>2. ASSUME NEW b \in Battle,
             \/ \E c, d \in Connection : StartMatch(b, c, d)
             \/ UpdateLadderStats(b)
             \/ \E victor \in {1, 2, Unset} : PostLadderMatch(b, victor)
      PROVE  ResultsInv'
  <2>1. /\ battle'[b].at # "writing" /\ accounted' = accounted
        /\ \A a \in Battle \ {b} : battle'[a] = battle[a]
    BY <1>2 DEF StartMatch, UpdateLadderStats, Proceeds, PostLadderMatch, RatingInv, table
  <2>2. \A a \in Battle \ {b} : Player(a)' = Player(a)
    BY <2>1 DEF Player
  <2> QED
    BY <2>1, <2>2, <1>g, <1>k
<1>3. ASSUME NEW b \in Battle, ReadMatches(b) PROVE ResultsInv'
  <2>1. /\ battle[b].at = "reading" /\ accounted' = accounted
        /\ battle'[b].read = Results(matches, id[Player(b)])
        /\ battle'[b].players = battle[b].players /\ battle'[b].n = battle[b].n
        /\ \A a \in Battle \ {b} : battle'[a] = battle[a]
    BY <1>3 DEF ReadMatches, RatingInv, table
  <2>2. \A a \in Battle : Player(a)' = Player(a)
    BY <2>1 DEF Player
  <2>3. (battle[b].read \subseteq Results(matches, id[Player(b)]))'
    BY <2>1, <2>2, <1>g, <1>k
  <2> QED
    BY <2>1, <2>2, <2>3, <1>g, <1>k
<1>4. ASSUME NEW b \in Battle, WriteRating(b) PROVE ResultsInv'
  <2>1. /\ battle[b].at = "writing" /\ battle'[b].at # "writing"
        /\ \A a \in Battle \ {b} : battle'[a] = battle[a]
    BY <1>4 DEF WriteRating, RatingInv
  <2>2. \A a \in Battle \ {b} : Player(a)' = Player(a)
    BY <2>1 DEF Player
  <2>3. \A i \in Ids : accounted'[i] = IF i = id[Player(b)] /\ i \in ladder
                                       THEN battle[b].read ELSE accounted[i]
    BY <1>4 DEF WriteRating, UsersInv
  <2> QED
    BY <2>1, <2>2, <2>3, <1>g, <1>k
<1>5. CASE UNCHANGED accountVars
  BY <1>0, <1>5 DEF accountVars, login, table
<1> QED
  BY <1>1, <1>2, <1>3, <1>4, <1>5 DEF AccountsNext, MatchEnds

-----------------------------------------------------------------------------
(* The matches of one who is the only one to play under its name are those *)
(* of its battles.                                                         *)
LEMMA OwnMatches ==
  ASSUME UsersInv, BattlesInv, MatchesInv, NEW c \in Connection, Known(c), Sole(c),
         NEW m \in matches, PlayedBy(m, id[c])
  PROVE  battle[m.of].players[1] = c \/ battle[m.of].players[2] = c
<1>1. PICK p \in Connection : /\ Known(p) /\ id[p] = id[c]
                              /\ \/ p = battle[m.of].players[1]
                                 \/ p = battle[m.of].players[2]
  BY DEF MatchesInv, BattlesInv, PlayedBy, Posted
<1>2. m.of \in Battle /\ battle[m.of].players \in Connection \X Connection
  BY DEF MatchesInv, BattlesInv, Posted
<1>3. m.of \in BattlesOf(p)
  BY <1>1, <1>2 DEF BattlesOf
<1>4. NameOf[p] = NameOf[c]
  BY <1>1, KnownApart
<1> QED
  BY <1>1, <1>3, <1>4 DEF Sole

LEMMA OwnMatchesNext ==
  ASSUME UsersInv', BattlesInv', MatchesInv', NEW c \in Connection, Known(c)', Sole(c)',
         NEW m \in matches', PlayedBy(m, id'[c])
  PROVE  battle'[m.of].players[1] = c \/ battle'[m.of].players[2] = c
<1>1. PICK p \in Connection : /\ Known(p)' /\ id'[p] = id'[c]
                              /\ \/ p = battle'[m.of].players[1]
                                 \/ p = battle'[m.of].players[2]
  BY DEF MatchesInv, BattlesInv, PlayedBy, Posted
<1>2. m.of \in Battle /\ battle'[m.of].players \in Connection \X Connection
  BY DEF MatchesInv, BattlesInv, Posted
<1>3. m.of \in BattlesOf(p)'
  BY <1>1, <1>2 DEF BattlesOf
<1>4. NameOf[p] = NameOf[c]
  BY <1>1, KnownApartNext
<1> QED
  BY <1>1, <1>3, <1>4 DEF Sole

LEMMA BattlesOfGrow ==
  ASSUME RatingInv, BattlesInv, [AccountsNext]_accountVars, NEW d \in Connection
  PROVE  BattlesOf(d) \subseteq BattlesOf(d)'
<1>1. ASSUME NEW b \in Battle, battle[b].players # <<>>
      PROVE  battle'[b].players = battle[b].players
  <2>0. battle[b].at # "none"
    BY <1>1 DEF BattlesInv
  <2>1. ASSUME NEW a \in Battle, MatchEnds(a) PROVE battle'[b].players = battle[b].players
    BY <2>0, <2>1 DEF MatchEnds, StartMatch, PostLadderMatch, UpdateLadderStats, Proceeds,
       ReadMatches, WriteRating, RatingInv
  <2> QED
    BY <2>1, HandlersLeave DEF AccountsNext, accountVars, login, table
<1> QED
  BY <1>1 DEF BattlesOf

LEMMA NextAccounted ==
  ASSUME UsersInv, RatingInv, BattlesInv, MatchesInv, ResultsInv, NEW c \in Connection,
         Accounted(c), [AccountsNext]_accountVars
  PROVE  Accounted(c)'
<1> DEFINE Goal ==
        /\ \A m \in matches' : PlayedBy(m, id'[c]) =>
                ResultOf(m, id'[c]) \in accounted'[id'[c]] \/ Owed(m.of, c)'
        /\ \A b \in Battle : battle'[b].at = "writing" /\ Player(b)' = c =>
                \A m \in matches' : PlayedBy(m, id'[c]) =>
                    ResultOf(m, id'[c]) \in battle'[b].read \/ (Owed(m.of, c)' /\ m.of # b)
<1> SUFFICES ASSUME Known(c)', Sole(c)' PROVE Goal
  BY DEF Accounted, PlayedBy, ResultOf, Opponent, Score
<1>1. Sole(c)
  BY BattlesOfGrow DEF Sole
<1>2. UsersInv' /\ BattlesInv' /\ MatchesInv'
  BY NextUsers, NextBattles, NextMatches
<1>3. \A m \in matches' : PlayedBy(m, id'[c]) =>
            battle'[m.of].players[1] = c \/ battle'[m.of].players[2] = c
  BY <1>2, OwnMatchesNext
<1>4. ASSUME Known(c)
      PROVE  /\ id'[c] = id[c] /\ id[c] \in Ids
             /\ \A m \in matches : PlayedBy(m, id[c]) =>
                    ResultOf(m, id[c]) \in accounted[id[c]] \/ Owed(m.of, c)
             /\ \A b \in Battle : battle[b].at = "writing" /\ Player(b) = c =>
                    \A m \in matches : PlayedBy(m, id[c]) =>
                        ResultOf(m, id[c]) \in battle[b].read \/ (Owed(m.of, c) /\ m.of # b)
  BY <1>1, <1>4, KnownStays, KnownRows DEF Accounted
<1>5. ASSUME battle' = battle, matches' = matches, accounted' = accounted
      PROVE  Goal
  <2>1. CASE Known(c)
    BY <1>4, <1>5, <2>1 DEF Owed, Player
  <2>2. CASE ~Known(c)
    <3>1. \A m \in matches' : ~PlayedBy(m, id'[c])
      BY <1>3, <1>5, <2>2 DEF BattlesInv, MatchesInv, Posted
    <3> QED
      BY <3>1
  <2> QED
    BY <2>1, <2>2
<1>6. ASSUME NEW e \in Connection, Handles(e) PROVE Goal
  BY <1>5, <1>6, HandlersLeave
<1>7. ASSUME NEW b \in Battle, MatchEnds(b) PROVE Known(c)
  <2>1. users' = users /\ id' = id
    BY <1>7 DEF MatchEnds, StartMatch, PostLadderMatch, UpdateLadderStats, ReadMatches,
                WriteRating, login
  <2> QED
    BY <2>1 DEF Known, IdsOf, IdOf
<1>8. ASSUME NEW b \in Battle, NEW d \in Connection, NEW e \in Connection, StartMatch(b, d, e)
      PROVE  Goal
  <2>1. /\ battle[b].at = "none" /\ battle'[b].at = "on"
        /\ matches' = matches /\ accounted' = accounted
        /\ \A a \in Battle \ {b} : battle'[a] = battle[a]
    BY <1>8 DEF StartMatch, RatingInv, table
  <2>2. \A m \in matches : m.of \in Battle \ {b}
    BY <2>1 DEF MatchesInv, Posted
  <2>3. Known(c)
    BY <1>7, <1>8 DEF MatchEnds
  <2> QED
    BY <1>4, <2>1, <2>2, <2>3 DEF Owed, Player
<1>9. ASSUME NEW b \in Battle, NEW victor \in {1, 2, Unset}, PostLadderMatch(b, victor)
      PROVE  Goal
  <2> DEFINE new == [of |-> b, victor |-> victor,
                     ids |-> [n \in 1 .. 2 |-> id[battle[b].players[n]]]]
  <2>1. /\ battle[b].at = "on" /\ battle'[b].at = "posted"
        /\ battle'[b].players = battle[b].players /\ battle'[b].n = 1
        /\ \A a \in Battle \ {b} : battle'[a] = battle[a]
        /\ matches' = matches \cup {new} /\ new.of = b
        /\ accounted' = accounted
    BY <1>9 DEF PostLadderMatch, RatingInv, BattlesInv
  <2> HIDE DEF new
  <2>2. \A m \in matches : m.of \in Battle \ {b}
    BY <2>1 DEF MatchesInv, Posted
  <2>3. Known(c)
    BY <1>7, <1>9 DEF MatchEnds
  <2>4. \A m \in matches : Owed(m.of, c) => Owed(m.of, c)'
    BY <2>1, <2>2 DEF Owed
  <2>5. PlayedBy(new, id'[c]) => Owed(b, c)'
    BY <1>3, <2>1 DEF Owed
  <2>6. \A a \in Battle : battle'[a].at = "writing" =>
            a # b /\ battle'[a] = battle[a] /\ Player(a)' = Player(a)
    BY <2>1 DEF Player
  <2> QED
    BY <1>4, <2>1, <2>2, <2>3, <2>4, <2>5, <2>6
<1>10. ASSUME NEW b \in Battle, UpdateLadderStats(b) PROVE Goal
  <2>1. /\ battle[b].at = "posted" /\ battle'[b].at = "reading"
        /\ battle'[b].players = battle[b].players /\ battle'[b].n = battle[b].n
        /\ \A a \in Battle \ {b} : battle'[a] = battle[a]
        /\ matches' = matches /\ accounted' = accounted
    BY <1>10 DEF UpdateLadderStats, Proceeds, RatingInv, table
  <2>2. \A m \in matches : m.of \in Battle
    BY DEF MatchesInv
  <2>3. Known(c)
    BY <1>7, <1>10 DEF MatchEnds
  <2> QED
    BY <1>4, <2>1, <2>2, <2>3 DEF Owed, Player
<1>11. ASSUME NEW b \in Battle, ReadMatches(b) PROVE Goal
  <2>1. /\ battle[b].at = "reading" /\ battle'[b].at = "writing"
        /\ battle'[b].players = battle[b].players /\ battle'[b].n = battle[b].n
        /\ battle'[b].read = Results(matches, id[Player(b)])
        /\ \A a \in Battle \ {b} : battle'[a] = battle[a]
        /\ matches' = matches /\ accounted' = accounted
    BY <1>11 DEF ReadMatches, RatingInv, table
  <2>2. \A m \in matches : m.of \in Battle
    BY DEF MatchesInv
  <2>3. Known(c)
    BY <1>7, <1>11 DEF MatchEnds
  <2>4. \A m \in matches : Owed(m.of, c) => Owed(m.of, c)'
    BY <2>1, <2>2 DEF Owed
  <2>5. \A a \in Battle : Player(a)' = Player(a)
    BY <2>1 DEF Player
  <2>6. ASSUME Player(b) = c, NEW m \in matches, PlayedBy(m, id[c])
        PROVE  ResultOf(m, id[c]) \in battle'[b].read
    <3>1. m.ids[1] \in ladder /\ m.ids[2] \in ladder
      BY DEF MatchesInv, BattlesInv, Posted
    <3>2. Opponent(m, id[c]) \in ladder
      BY <3>1 DEF Opponent
    <3> QED
      BY <2>1, <2>6, <3>2, ResultsAre
  <2> QED
    BY <1>4, <2>1, <2>3, <2>4, <2>5, <2>6
<1>12. ASSUME NEW b \in Battle, WriteRating(b) PROVE Goal
  <2>1. /\ battle[b].at = "writing" /\ battle'[b].at \in {"posted", "over"}
        /\ battle'[b].players = battle[b].players
        /\ IF battle[b].n = 1 THEN battle'[b].n = 2 /\ battle'[b].at = "posted"
           ELSE battle'[b].at = "over"
        /\ \A a \in Battle \ {b} : battle'[a] = battle[a]
        /\ matches' = matches
    BY <1>12 DEF WriteRating, RatingInv
  <2>2. \A m \in matches : m.of \in Battle
    BY DEF MatchesInv
  <2>3. Known(c)
    BY <1>7, <1>12 DEF MatchEnds
  <2>4. \A a \in Battle \ {b} : (Owed(a, c)' <=> Owed(a, c)) /\ Player(a)' = Player(a)
    BY <2>1 DEF Owed, Player
  <2>5. \A j \in Ids : accounted'[j] = IF j = id[Player(b)] /\ j \in ladder
                                       THEN battle[b].read ELSE accounted[j]
    BY <1>12 DEF WriteRating, UsersInv
  <2>6. CASE Player(b) = c
    <3>1. id[c] \in ladder
      BY <2>1, <2>6 DEF BattlesInv, RatingInv, Player
    <3>2. accounted'[id[c]] = battle[b].read
      BY <1>4, <2>3, <2>5, <2>6, <3>1
    <3>3. \A a \in Battle \ {b} : battle[a].at = "writing" => Player(a) # c
      BY <2>1, <2>6 DEF RatingInv, Updating
    <3> QED
      BY <1>4, <2>1, <2>2, <2>3, <2>4, <2>6, <3>2, <3>3
  <2>7. CASE Player(b) # c
    <3>1. /\ Player(b) \in Connection /\ Known(Player(b))
          /\ \/ battle[b].n = 1 /\ Player(b) = battle[b].players[1]
             \/ battle[b].n = 2 /\ Player(b) = battle[b].players[2]
          /\ battle[b].players \in Connection \X Connection
      BY <2>1 DEF BattlesInv, RatingInv, Player
    <3>2. b \in BattlesOf(Player(b))
      BY <3>1 DEF BattlesOf
    <3>3. id[Player(b)] # id[c]
      BY <1>1, <2>3, <2>7, <3>1, <3>2, KnownApart DEF Sole
    <3>4. accounted'[id[c]] = accounted[id[c]]
      BY <1>4, <2>3, <2>5, <3>3
    <3>5. Owed(b, c) => Owed(b, c)'
      BY <2>1, <2>7, <3>1 DEF Owed
    <3> QED
      BY <1>4, <2>1, <2>2, <2>3, <2>4, <3>4, <3>5
  <2> QED
    BY <2>6, <2>7
<1>13. CASE UNCHANGED accountVars
  BY <1>5, <1>13 DEF accountVars, login, table
<1> HIDE DEF Goal
<1> QED
  BY <1>6, <1>8, <1>9, <1>10, <1>11, <1>12, <1>13 DEF AccountsNext, MatchEnds

-----------------------------------------------------------------------------
AccountsInv ==
    /\ UsersInv /\ RatingInv /\ BattlesInv /\ MatchesInv /\ ResultsInv
    /\ \A c \in Connection : Accounted(c)

LEMMA InitAccounts == AccountsInit => AccountsInv
<1> SUFFICES ASSUME AccountsInit PROVE AccountsInv
  OBVIOUS
<1>1. PICK n \in 0 .. Cardinality(Name) : users \in [1 .. n -> Name]
  BY DEF AccountsInit
<1>2. users \in Seq(Name) /\ Len(users) = n
  <2>1. n \in Nat
    BY AccountsAssumption, FS_CardinalityType
  <2> QED
    BY <1>1, <2>1
<1>3. Cardinality(Unregistered) <= Cardinality(Connection) /\ Cardinality(Unregistered) \in Nat
  <2>1. Unregistered \subseteq Connection
    BY AccountsAssumption DEF Unregistered
  <2> QED
    BY <2>1, AccountsAssumption, FS_Subset, FS_CardinalityType
<1>4. Len(users) + Cardinality(Unregistered) <= Cardinality(Connection) + Cardinality(Name)
  BY <1>1, <1>2, <1>3, AccountsAssumption, FS_CardinalityType
<1>5. UsersInv
  BY <1>2, <1>4 DEF AccountsInit, UsersInv, LoginInv
<1>6. BattlesInv /\ MatchesInv /\ ResultsInv
  BY DEF AccountsInit, BattlesInv, MatchesInv, ResultsInv, Posted
<1>7. \A c \in Connection : Accounted(c)
  BY DEF AccountsInit, Accounted
<1> QED
  BY <1>5, <1>6, <1>7, InitRating DEF AccountsInv

LEMMA NextAccounts == AccountsInv /\ [AccountsNext]_accountVars => AccountsInv'
<1> SUFFICES ASSUME AccountsInv, [AccountsNext]_accountVars PROVE AccountsInv'
  OBVIOUS
<1>1. UsersInv' /\ RatingInv' /\ BattlesInv' /\ MatchesInv' /\ ResultsInv'
  BY NextUsers, NextRating, NextBattles, NextMatches, NextResults DEF AccountsInv
<1>2. ASSUME NEW c \in Connection PROVE Accounted(c)'
  BY NextAccounted DEF AccountsInv
<1> QED
  BY <1>1, <1>2 DEF AccountsInv

(* Ids, queue, battles, matches and ratings agree for all time.            *)
THEOREM AccountsInvariant == AccountsSpec => []AccountsInv
<1> QED
  BY InitAccounts, NextAccounts, PTL DEF AccountsSpec

(* No match of a user is forgotten or counted twice in his rating, in      *)
(* whatever order the ends of his battles post them, read them and write   *)
(* the rating (postLadderMatch, updatePlayerStats), if he plays under one  *)
(* connection.                                                             *)
THEOREM MatchesCount == AccountsSpec => []EveryMatchCounts
<1>1. ASSUME AccountsInv, NEW c \in Connection,
             \A d \in Connection : NameOf[d] = NameOf[c] /\ d # c => BattlesOf(d) = {},
             \A b \in BattlesOf(c) : battle[b].at \in {"on", "over"},
             id[c] # Unset
      PROVE  /\ accounted[id[c]] = Results(matches, id[c])
             /\ {r.of : r \in accounted[id[c]]} =
                    {b \in BattlesOf(c) : battle[b].at = "over"}
  <2> USE <1>1 DEF AccountsInv
  <2>1. Known(c) /\ Sole(c) /\ id[c] \in Ids
    BY KnownRows DEF UsersInv, LoginInv, Sole
  <2>2. ASSUME NEW m \in matches, PlayedBy(m, id[c])
        PROVE  /\ m.of \in BattlesOf(c) /\ battle[m.of].at = "over"
               /\ ~Owed(m.of, c)
    <3>1. /\ battle[m.of].players[1] = c \/ battle[m.of].players[2] = c
          /\ m.of \in Battle /\ battle[m.of].players \in Connection \X Connection
          /\ battle[m.of].at \notin {"none", "on"}
      BY <2>1, <2>2, OwnMatches DEF MatchesInv, BattlesInv, Posted
    <3>2. m.of \in BattlesOf(c)
      BY <3>1 DEF BattlesOf
    <3> QED
      BY <3>1, <3>2 DEF Owed
  <2>3. accounted[id[c]] = Results(matches, id[c])
    <3>1. ASSUME NEW r \in Results(matches, id[c]) PROVE r \in accounted[id[c]]
      <4>1. PICK m \in matches : PlayedBy(m, id[c]) /\ r = ResultOf(m, id[c])
        BY <3>1, ResultsAre
      <4> QED
        BY <2>1, <2>2, <4>1 DEF Accounted
    <3> QED
      BY <2>1, <3>1 DEF ResultsInv
  <2>4. ASSUME NEW r \in Results(matches, id[c])
        PROVE  r.of \in BattlesOf(c) /\ battle[r.of].at = "over"
    <3>1. PICK m \in matches : PlayedBy(m, id[c]) /\ r = ResultOf(m, id[c])
      BY <2>4, ResultsAre
    <3>2. r.of = m.of
      BY <3>1 DEF ResultOf
    <3> QED
      BY <2>2, <3>1, <3>2
  <2>5. ASSUME NEW b \in BattlesOf(c), battle[b].at = "over"
        PROVE  \E r \in Results(matches, id[c]) : r.of = b
    <3>1. /\ b \in Battle /\ battle[b].players \in Connection \X Connection
          /\ battle[b].players[1] = c \/ battle[b].players[2] = c
      BY <2>5 DEF BattlesOf, BattlesInv
    <3>2. PICK m \in matches : m.of = b
      BY <2>5, <3>1 DEF MatchesInv, Posted
    <3>3. PlayedBy(m, id[c]) /\ m.ids[1] \in ladder /\ m.ids[2] \in ladder
      BY <2>5, <3>1, <3>2 DEF PlayedBy, MatchesInv, BattlesInv
    <3>4. ResultOf(m, id[c]) \in Results(matches, id[c])
      BY <3>2, <3>3, ResultsAre DEF Opponent
    <3> QED
      BY <3>2, <3>4 DEF ResultOf
  <2> QED
    BY <2>3, <2>4, <2>5
<1>2. AccountsInv => EveryMatchCounts
  BY <1>1 DEF EveryMatchCounts
<1> QED
  BY <1>2, AccountsInvariant, PTL

-----------------------------------------------------------------------------
(* Daemon: for every number of launches, killers and deaths.               *)

Launched(l) == parent[l] \notin {"new", "failed", "detaching", "refused"}

(* What is told to the parent, and who owns the file.                      *)
FileInv ==
    /\ pidFile \in Launch \cup {Absent} /\ robbed \subseteq Launch
    /\ DOMAIN parent = Launch /\ DOMAIN progress = Launch /\ DOMAIN pipe = Launch
    /\ \A l \in Launch :
         /\ pipe[l] \in {"empty", "success", "error"}
         /\ Launched(l) <=> progress[l] /= "none"
         /\ progress[l] = "none" => l \notin up /\ pipe[l] = "empty"
         /\ progress[l] = "forked" => Detached(l)
         /\ progress[l] \in {"forked", "ready", "open"} => l \notin up
         /\ progress[l] \in Guarded \ {"serving"} => l \notin up
         /\ l \in up /\ Detached(l) => pipe[l] /= "empty"
         /\ pipe[l] = "success" => l \in up
         /\ pipe[l] = "error" => l \notin up /\ progress[l] = "gone"
         /\ parent[l] = "success" => l \in up
         /\ parent[l] = "error" => l \notin up /\ progress[l] = "gone"
         /\ progress[l] \in Guarded \cup {"ready", "open"} /\ Detached(l)
              => pidFile = l \/ l \in robbed
         /\ pidFile = l => progress[l] \notin {"none", "gone"} /\ Detached(l)
         /\ l \in robbed => \E other \in Launch \ {l} : progress[other] = "gone"

(* Whoever prepares the server listens, so that only one looks for the     *)
(* main channel, and makes it.                                             *)
MainInv ==
    /\ DOMAIN progress = Launch /\ mains \in {0, 1}
    /\ \A l \in Launch :
         /\ progress[l] \in Guarded \cup {"open"} => port = l
         /\ progress[l] = "bare" => mains = 0
         /\ progress[l] \in {"stored", "prepared", "serving"} => mains = 1

(* What was killed has been alive, and does not live again.                *)
KillInv ==
    /\ DOMAIN progress = Launch /\ DOMAIN killer = Killer /\ DOMAIN victim = Killer
    /\ pidFile \in Launch \cup {Absent}
    /\ \A k \in Killer :
         /\ killer[k] \in {"waiting", "killed"} =>
              victim[k] \in Launch /\ progress[victim[k]] /= "none"
         /\ killer[k] = "killed" => ~Alive(victim[k])

-----------------------------------------------------------------------------
LEMMA InitFile == DaemonInit => FileInv /\ MainInv /\ KillInv
  BY DaemonAssumption
     DEF DaemonInit, FileInv, MainInv, KillInv, Launched, Detached, Guarded

(* The daemon that serves is the one that listens.                         *)
LEMMA NextMain == MainInv /\ [DaemonNext]_daemonVars => MainInv'
<1> SUFFICES ASSUME MainInv, [DaemonNext]_daemonVars
             PROVE  MainInv'
  OBVIOUS
<1> USE DaemonAssumption DEF MainInv, Guarded, Reaches
<1>1. ASSUME NEW l \in Launch, Configure(l) \/ Detach(l) \/ HearChild(l) \/ CreateFile(l)
      PROVE  MainInv'
  BY <1>1 DEF Configure, Detach, HearChild, CreateFile
<1>2. ASSUME NEW l \in Launch, OpenServer(l) \/ InstallSignalHandlers(l)
      PROVE  MainInv'
  BY <1>2 DEF OpenServer, InstallSignalHandlers
<1>3. ASSUME NEW l \in Launch, Prepare(l) \/ CreateTables(l) \/ InitialiseChannels(l)
      PROVE  MainInv'
  BY <1>3 DEF Prepare, CreateTables, InitialiseChannels, Continue, Closed
<1>4. ASSUME NEW l \in Launch, InsertMain(l)
      PROVE  MainInv'
  <2>1. mains = 0 /\ port = l
    BY <1>4 DEF InsertMain, Continue
  <2> QED
    BY <1>4, <2>1 DEF InsertMain, Continue, Closed
<1>5. ASSUME NEW l \in Launch, StartThreads(l) \/ Return(l) \/ Exit(l) \/ Die(l)
      PROVE  MainInv'
  BY <1>5 DEF StartThreads, Return, Exit, Die, Closed, Alive
<1>6. ASSUME NEW k \in Killer, Kill(k)
      PROVE  MainInv'
  BY <1>6 DEF Kill, Signalled, Closed, Running
<1>7. ASSUME NEW k \in Killer, AwaitEnd(k)
      PROVE  MainInv'
  BY <1>7 DEF AwaitEnd
<1>8. CASE UNCHANGED daemonVars
  BY <1>8 DEF daemonVars
<1> QED
  BY <1>1, <1>2, <1>3, <1>4, <1>5, <1>6, <1>7, <1>8 DEF DaemonNext

(* Nobody comes back to life: a process that is not alive has not begun,   *)
(* or is over.                                                             *)
LEMMA NextKill == FileInv /\ KillInv /\ [DaemonNext]_daemonVars => KillInv'
<1> SUFFICES ASSUME FileInv, KillInv, [DaemonNext]_daemonVars
             PROVE  KillInv'
  OBVIOUS
<1> USE DaemonAssumption DEF KillInv, Guarded, Reaches, Alive
<1>1. ASSUME NEW l \in Launch, Configure(l) \/ Detach(l) \/ HearChild(l) \/ CreateFile(l)
      PROVE  KillInv'
  <2>1. parent[l] \in {"new", "detaching"} => progress[l] = "none"
    BY DEF FileInv, Launched
  <2> QED
    BY <1>1, <2>1 DEF Configure, Detach, HearChild, CreateFile, Swept, Running
<1>2. ASSUME NEW l \in Launch, OpenServer(l) \/ InstallSignalHandlers(l)
      PROVE  KillInv'
  BY <1>2 DEF OpenServer, InstallSignalHandlers
<1>3. ASSUME NEW l \in Launch,
             Prepare(l) \/ CreateTables(l) \/ InsertMain(l) \/ InitialiseChannels(l)
      PROVE  KillInv'
  BY <1>3 DEF Prepare, CreateTables, InsertMain, InitialiseChannels, Continue, Unmoved
<1>4. ASSUME NEW l \in Launch, StartThreads(l) \/ Return(l) \/ Exit(l) \/ Die(l)
      PROVE  KillInv'
  BY <1>4 DEF StartThreads, Return, Exit, Die, RemoveFile
<1>5. ASSUME NEW k \in Killer, Kill(k), Running
      PROVE  KillInv'
  <2>1. pidFile \in Launch /\ progress[pidFile] /= "none"
    BY <1>5 DEF Running
  <2>2. \A l \in Launch : progress'[l] \in {progress[l], "dead"} /\ DOMAIN progress' = Launch
    BY <1>5, <2>1 DEF Kill, Signalled
  <2> QED
    BY <1>5, <2>1, <2>2 DEF Kill, Swept
<1>6. ASSUME NEW k \in Killer, Kill(k), ~Running
      PROVE  KillInv'
  BY <1>6 DEF Kill, Swept
<1>7. ASSUME NEW k \in Killer, AwaitEnd(k)
      PROVE  KillInv'
  BY <1>7 DEF AwaitEnd
<1>8. CASE UNCHANGED daemonVars
  BY <1>8 DEF daemonVars
<1> QED
  BY <1>1, <1>2, <1>3, <1>4, <1>5, <1>6, <1>7, <1>8 DEF DaemonNext

(* The file is the daemon's until another's failure removes it.            *)
LEMMA NextFile == FileInv /\ [DaemonNext]_daemonVars => FileInv'
<1> SUFFICES ASSUME FileInv, [DaemonNext]_daemonVars
             PROVE  FileInv'
  OBVIOUS
<1> USE DaemonAssumption DEF FileInv, Guarded, Reaches, Launched, Detached
<1>1. ASSUME NEW l \in Launch, Configure(l)
      PROVE  FileInv'
  BY <1>1 DEF Configure
<1>2. ASSUME NEW l \in Launch, Detach(l)
      PROVE  FileInv'
  BY <1>2 DEF Detach, Swept, Running, Alive
<1>3. ASSUME NEW l \in Launch, HearChild(l)
      PROVE  FileInv'
  <2>1. /\ parent[l] = "waiting" /\ DOMAIN parent' = Launch
        /\ \A m \in Launch \ {l} : parent'[m] = parent[m]
    BY <1>3 DEF HearChild
  <2>2. parent'[l] = "unanswered" \/ (parent'[l] = pipe[l] /\ pipe[l] \in {"success", "error"})
    BY <1>3 DEF HearChild
  <2>3. UNCHANGED <<progress, pipe, pidFile, up, robbed>>
    BY <1>3 DEF HearChild
  <2> QED
    BY <2>1, <2>2, <2>3
<1>4. ASSUME NEW l \in Launch, CreateFile(l)
      PROVE  FileInv'
  BY <1>4 DEF CreateFile
<1>5. ASSUME NEW l \in Launch, OpenServer(l) \/ InstallSignalHandlers(l)
      PROVE  FileInv'
  BY <1>5 DEF OpenServer, InstallSignalHandlers
<1>6. ASSUME NEW l \in Launch,
             Prepare(l) \/ CreateTables(l) \/ InsertMain(l) \/ InitialiseChannels(l)
      PROVE  FileInv'
  BY <1>6 DEF Prepare, CreateTables, InsertMain, InitialiseChannels, Continue, Unmoved
<1>7. ASSUME NEW l \in Launch, StartThreads(l)
      PROVE  FileInv'
  BY <1>7 DEF StartThreads, Send
<1>8. ASSUME NEW l \in Launch, Return(l) \/ Die(l)
      PROVE  FileInv'
  BY <1>8 DEF Return, Die, Alive
<1>9. ASSUME NEW l \in Launch, Exit(l)
      PROVE  FileInv'
  BY <1>9 DEF Exit, RemoveFile, Send
<1>10. ASSUME NEW k \in Killer, Kill(k)
       PROVE  FileInv'
  BY <1>10 DEF Kill, Signalled, Running, Swept, Alive
<1>11. ASSUME NEW k \in Killer, AwaitEnd(k)
       PROVE  FileInv'
  BY <1>11 DEF AwaitEnd
<1>12. CASE UNCHANGED daemonVars
  BY <1>12 DEF daemonVars
<1> QED
  BY <1>1, <1>2, <1>3, <1>4, <1>5, <1>6, <1>7, <1>8, <1>9, <1>10, <1>11, <1>12 DEF DaemonNext

(* What the program says of its daemons is so, however many are started,   *)
(* killed and die (main, initialise, createDefaultDatabase).               *)
THEOREM TellsTheTruth == DaemonSpec => []StartsAsTold
<1>1. FileInv /\ MainInv /\ KillInv => StartsAsTold
  BY DEF FileInv, MainInv, KillInv, StartsAsTold, Alive, Guarded, Detached
<1> QED
  BY InitFile, NextFile, NextMain, NextKill, <1>1, PTL DEF DaemonSpec

-----------------------------------------------------------------------------
(* Contexts: for every number of threads, contexts and objects.            *)

Scripts == Worker \cup {Queue}
Points == {"idle", "scripts", "request", "value", "asking", "resuming", "collecting"}

ContextsTypeOK ==
    /\ made \in Context
    /\ busy \subseteq 1 .. made
    /\ thread \in [Context -> ScriptThread \cup {Nothing}]
    /\ depth \in [Context -> Nat]
    /\ at \in [ScriptThread -> Points \cup {"removing"}]
    /\ uses \in [ScriptThread -> 0 .. MaxContexts]
    /\ kept \subseteq Context /\ spare \in 0 .. MaxContexts
    /\ saved \in Nat
    /\ mutex \in Scripts \cup {Nothing}
    /\ arena \in 0 .. MaxContexts
    /\ over \in BOOLEAN /\ waiting \in BOOLEAN
    /\ collector \in Scripts \cup {Nothing}
    /\ object \in [Object -> {"absent", "fresh", "rooted", "dead", "collected"}]
    /\ holder \in [Object -> Scripts \cup {Nothing}]
    /\ deadRoots \in Seq(Object)

(* Has a context of its own: not the one of the battle.                    *)
Alone(t) == t = Reclaimer \/ (t \in Worker /\ at[t] /= "idle" /\ mutex /= t)

(* Where threads can be, and which context that gives them.                *)
PlacesInv ==
    /\ at[Reclaimer] \in {"idle", "removing"} /\ uses[Reclaimer] /= 0
    /\ \A t \in Scripts : at[t] \in Points
    /\ \A w \in Worker : at[w] \notin {"asking", "resuming"}
    /\ \A t \in Scripts : uses[t] = 0 <=> at[t] = "idle"
    /\ mutex = Queue <=> at[Queue] \notin {"idle", "asking"}
    /\ at[Queue] /= "idle" => uses[Queue] = arena
    /\ \A w \in Worker : mutex = w => at[w] /= "idle" /\ uses[w] = arena
    /\ \A t \in Scripts : at[t] = "collecting" => mutex = t /\ spare /= 0

(* Whose contexts are whose: those of a thread alone, of checked teams, of *)
(* the battle and of its end are different, and none of them is free.      *)
PoolInv ==
    /\ kept \subseteq busy
    /\ arena /= 0 => arena \in busy \ kept
    /\ spare /= 0 => spare \in busy \ kept /\ spare /= arena
    /\ \A t \in ScriptThread : Alone(t) =>
        /\ uses[t] \in busy \ kept /\ uses[t] /= arena /\ uses[t] /= spare
        /\ \A u \in ScriptThread \ {t} : Alone(u) => uses[u] /= uses[t]

(* The owner of a context has it set to itself, and its open requests are  *)
(* those of the one thread that is inside one.                             *)
RequestsInv ==
    /\ \A t \in ScriptThread : Alone(t) => thread[uses[t]] = t
    /\ mutex /= Nothing => thread[arena] = mutex
    /\ \A t \in ScriptThread : Inside(t) => depth[uses[t]] = 1
    /\ \A c \in Context : depth[c] /= 0 =>
        \E t \in ScriptThread : uses[t] = c /\ Inside(t)
    /\ at[Queue] \in {"asking", "resuming"} => saved = 1

(* A value that is not rooted yet is of a request that goes on, and a root *)
(* that is to be removed is held by nobody and is in the queue once.       *)
HeapInv ==
    /\ HeldAreKept
    /\ \A x \in Object : object[x] = "fresh" =>
        /\ holder[x] \in Scripts /\ at[holder[x]] = "value"
        /\ \A y \in Object \ {x} : object[y] = "fresh" => holder[y] /= holder[x]
    /\ \A i \in 1 .. Len(deadRoots) :
        /\ object[deadRoots[i]] = "rooted" /\ holder[deadRoots[i]] = Nothing
        /\ \A j \in 1 .. Len(deadRoots) : deadRoots[j] = deadRoots[i] => j = i
    /\ at[Reclaimer] = "removing" => deadRoots /= <<>>

ContextsInv == ContextsTypeOK /\ PlacesInv /\ PoolInv /\ RequestsInv /\ HeapInv

-----------------------------------------------------------------------------
LEMMA ThreadFacts ==
    /\ Worker \subseteq Scripts /\ Queue \in Scripts /\ Scripts \subseteq ScriptThread
    /\ Worker \subseteq ScriptThread /\ Queue \in ScriptThread /\ Reclaimer \in ScriptThread
    /\ Reclaimer \notin Scripts /\ Queue \notin Worker /\ Reclaimer \notin Worker
    /\ Nothing \notin ScriptThread /\ Nothing \notin Scripts
    /\ 1 \in Context /\ 0 \notin Context /\ Context \subseteq 0 .. MaxContexts
    /\ 0 \in 0 .. MaxContexts
    /\ Scripts = Worker \cup {Queue} /\ ScriptThread = Scripts \cup {Reclaimer}
    /\ \A c \in 0 .. MaxContexts : c /= 0 => c \in Context
  BY ContextsAssumption DEF Scripts, ScriptThread, Context

(* A context that is acquired was nobody's.                                *)
LEMMA AcquiredFree ==
    ASSUME ContextsTypeOK, NEW t \in ScriptThread, NEW c \in Context, Acquire(t, c)
    PROVE  /\ c \notin busy /\ busy' = busy \cup {c}
           /\ made' \in Context /\ busy' \subseteq 1 .. made'
           /\ thread' = [thread EXCEPT ![c] = t]
           /\ thread' \in [Context -> ScriptThread \cup {Nothing}]
<1>1. thread' \in [Context -> ScriptThread \cup {Nothing}]
  BY DEF Acquire, ContextsTypeOK
<1> QED
  BY <1>1 DEF Acquire, Free, ContextsTypeOK, Context

LEMMA InitInv == ContextsInit => ContextsInv
<1> SUFFICES ASSUME ContextsInit
             PROVE  ContextsInv
  OBVIOUS
<1> USE ThreadFacts DEF ContextsInit
<1>1. ContextsTypeOK
  <2>1. /\ thread \in [Context -> ScriptThread \cup {Nothing}]
        /\ at \in [ScriptThread -> Points \cup {"removing"}]
        /\ uses \in [ScriptThread -> 0 .. MaxContexts]
    BY DEF Points
  <2>2. /\ made \in Context /\ busy \subseteq 1 .. made
        /\ deadRoots \in Seq(Object)
    OBVIOUS
  <2> QED
    BY <2>1, <2>2 DEF ContextsTypeOK
<1>2. PlacesInv
  BY DEF PlacesInv, Points
<1>3. PoolInv
  BY DEF PoolInv, Alone
<1>4. RequestsInv
  BY DEF RequestsInv, Alone, Inside
<1>5. HeapInv
  BY DEF HeapInv, HeldAreKept
<1> QED
  BY <1>1, <1>2, <1>3, <1>4, <1>5 DEF ContextsInv

LEMMA NextTypes == ContextsInv /\ [ContextsNext]_ctxVars => ContextsTypeOK'
<1> SUFFICES ASSUME ContextsInv, [ContextsNext]_ctxVars
             PROVE  ContextsTypeOK'
  OBVIOUS
<1>t. ContextsTypeOK /\ 0 \in 0 .. MaxContexts /\ Context \subseteq 0 .. MaxContexts
  BY ThreadFacts DEF ContextsInv
<1>i. PlacesInv /\ RequestsInv /\ HeapInv
  BY DEF ContextsInv
<1> USE <1>t, <1>i DEF ContextsTypeOK, Points, Moves, others, pool, fight, heap
<1>1. ASSUME NEW w \in Worker, NEW c \in Context, Acquire(w, c),
             CheckTeam(w) /\ uses' = [uses EXCEPT ![w] = c]
      PROVE  ContextsTypeOK'
  <2>1. w \in ScriptThread /\ w \in Scripts
    BY ThreadFacts
  <2>2. /\ made' \in Context /\ busy' \subseteq 1 .. made'
        /\ thread' \in [Context -> ScriptThread \cup {Nothing}]
    BY <1>1, <2>1, AcquiredFree
  <2> QED
    BY <1>1, <2>1, <2>2 DEF CheckTeam
<1>2. ASSUME NEW w \in Worker, NEW c \in Context, Acquire(w, c),
             BeginBattle(w) /\ uses' = [uses EXCEPT ![w] = c] /\ arena' = c
      PROVE  ContextsTypeOK'
  <2>1. w \in ScriptThread /\ w \in Scripts
    BY ThreadFacts
  <2>2. /\ made' \in Context /\ busy' \subseteq 1 .. made'
        /\ thread' \in [Context -> ScriptThread \cup {Nothing}]
    BY <1>2, <2>1, AcquiredFree
  <2> QED
    BY <1>2, <2>1, <2>2 DEF BeginBattle
<1>3. ASSUME NEW w \in Worker, TeamChecked(w)
      PROVE  ContextsTypeOK'
  <2>1. w \in ScriptThread /\ uses[w] \in Context
    BY <1>3, ThreadFacts DEF TeamChecked, PlacesInv
  <2> QED
    BY <1>3, <2>1 DEF TeamChecked, Unlock
<1>4. ASSUME NEW c \in Context, TeamGone(c)
      PROVE  ContextsTypeOK'
  BY <1>4 DEF TeamGone, Release
<1>5. ASSUME NEW t \in Scripts, BeginRequest(t)
      PROVE  ContextsTypeOK'
  <2>1. t \in ScriptThread /\ uses[t] \in Context
    BY <1>5, ThreadFacts DEF BeginRequest, PlacesInv
  <2>2. depth' \in [Context -> Nat]
    BY <1>5, <2>1 DEF BeginRequest
  <2> QED
    BY <1>5, <2>1, <2>2 DEF BeginRequest
<1>6. ASSUME NEW t \in Scripts, EndRequest(t)
      PROVE  ContextsTypeOK'
  <2>1. t \in ScriptThread /\ depth[uses[t]] = 1 /\ uses[t] \in Context
    BY <1>6, ThreadFacts DEF EndRequest, RequestsInv, PlacesInv, Inside
  <2>2. depth' \in [Context -> Nat]
    BY <1>6, <2>1 DEF EndRequest
  <2> QED
    BY <1>6, <2>1, <2>2 DEF EndRequest
<1>7. ASSUME NEW t \in Scripts, AskForMemory(t)
      PROVE  ContextsTypeOK'
  BY <1>7 DEF AskForMemory
<1>8. ASSUME NEW t \in Scripts, NEW o \in Object, CallFunction(t, o)
      PROVE  ContextsTypeOK'
  BY <1>8 DEF CallFunction
<1>9. ASSUME NEW t \in Scripts, NEW o \in Object, MakeRoot(t, o) \/ ReadValue(t, o)
      PROVE  ContextsTypeOK'
  BY <1>9 DEF MakeRoot, ReadValue
<1>10. ASSUME NEW t \in Scripts, NEW o \in Object, Drop(t, o)
      PROVE  ContextsTypeOK'
  BY <1>10 DEF Drop
<1>11. ASSUME NEW t \in Scripts, TakeBattle(t)
      PROVE  ContextsTypeOK'
  <2>1. t \in ScriptThread
    BY ThreadFacts
  <2> QED
    BY <1>11, <2>1 DEF TakeBattle, Lock
<1>12. ASSUME NEW t \in Scripts, Leave(t)
      PROVE  ContextsTypeOK'
  <2>1. t \in ScriptThread
    BY ThreadFacts
  <2> QED
    BY <1>12, <2>1 DEF Leave, Unlock
<1>13. ASSUME NEW t \in Scripts, NEW c \in Context, Acquire(t, c),
              Terminate(t) /\ spare' = c
      PROVE  ContextsTypeOK'
  <2>1. t \in ScriptThread
    BY ThreadFacts
  <2>2. /\ made' \in Context /\ busy' \subseteq 1 .. made'
        /\ thread' \in [Context -> ScriptThread \cup {Nothing}]
    BY <1>13, <2>1, AcquiredFree
  <2> QED
    BY <1>13, <2>1, <2>2 DEF Terminate
<1>14. ASSUME NEW t \in Scripts, Terminated(t)
      PROVE  ContextsTypeOK'
  BY <1>14 DEF Terminated, Release
<1>15. CASE RequestInactivePokemon
  <2>1. saved' \in Nat
    BY <1>15, ThreadFacts DEF RequestInactivePokemon, RequestsInv, Inside
  <2> QED
    BY <1>15, <2>1 DEF RequestInactivePokemon, Unlock
<1>16. CASE Answer
  BY <1>16 DEF Answer
<1>17. CASE WakeUp
  BY <1>17, ThreadFacts DEF WakeUp, Lock
<1>18. CASE ResumeRequests
  <2>1. Queue \in ScriptThread /\ uses[Queue] \in Context
    BY <1>18, ThreadFacts DEF ResumeRequests, PlacesInv
  <2>2. depth[uses[Queue]] + saved \in Nat
    BY <2>1
  <2> QED
    BY <1>18, <2>1, <2>2 DEF ResumeRequests
<1>19. CASE ReclaimRoot
  <2>1. Reclaimer \in ScriptThread /\ uses[Reclaimer] \in Context
    BY <1>19, ThreadFacts DEF ReclaimRoot, PlacesInv
  <2>2. depth[uses[Reclaimer]] + 1 \in Nat
    BY <2>1
  <2> QED
    BY <1>19, <2>1, <2>2 DEF ReclaimRoot
<1>20. CASE RemoveRoot
  <2>1. depth[uses[Reclaimer]] = 1 /\ deadRoots /= <<>> /\ uses[Reclaimer] \in Context
    BY <1>20, ThreadFacts DEF RemoveRoot, RequestsInv, HeapInv, PlacesInv, Inside
  <2>2. depth' \in [Context -> Nat] /\ deadRoots' \in Seq(Object)
    BY <1>20, <2>1 DEF RemoveRoot
  <2> QED
    BY <1>20, <2>1, <2>2 DEF RemoveRoot
<1>21. CASE Collect
  BY <1>21 DEF Collect
<1>22. CASE DestroyBattle
  BY <1>22 DEF DestroyBattle, Release
<1>23. CASE UNCHANGED ctxVars
  BY <1>23 DEF ctxVars
<1> QED
  BY <1>1, <1>2, <1>3, <1>4, <1>5, <1>6, <1>7, <1>8, <1>9, <1>10, <1>11, <1>12, <1>13,
     <1>14, <1>15, <1>16, <1>17, <1>18, <1>19, <1>20, <1>21, <1>22, <1>23
     DEF ContextsNext, Scripted, Scripts, CheckTeam, BeginBattle, Terminate

LEMMA NextPlaces == ContextsInv /\ [ContextsNext]_ctxVars => PlacesInv'
<1> SUFFICES ASSUME ContextsInv, [ContextsNext]_ctxVars
             PROVE  PlacesInv'
  OBVIOUS
<1>t. ContextsTypeOK /\ 0 \notin Context
  BY ThreadFacts DEF ContextsInv
<1>p. PlacesInv
  BY DEF ContextsInv
<1> USE <1>t, <1>p, ContextsAssumption
    DEF ContextsTypeOK, PlacesInv, Moves, others, pool, fight, heap, Scripts, ScriptThread, Points
<1>1. ASSUME NEW w \in Worker, NEW c \in Context, Acquire(w, c),
             CheckTeam(w) /\ uses' = [uses EXCEPT ![w] = c]
      PROVE  PlacesInv'
  BY <1>1 DEF CheckTeam
<1>2. ASSUME NEW w \in Worker, NEW c \in Context, Acquire(w, c),
             BeginBattle(w) /\ uses' = [uses EXCEPT ![w] = c] /\ arena' = c
      PROVE  PlacesInv'
  BY <1>2 DEF BeginBattle
<1>3. ASSUME NEW w \in Worker, TeamChecked(w)
      PROVE  PlacesInv'
  BY <1>3 DEF TeamChecked
<1>4. ASSUME NEW c \in Context, TeamGone(c)
      PROVE  PlacesInv'
  BY <1>4 DEF TeamGone
<1>5. ASSUME NEW t \in Scripts, BeginRequest(t)
      PROVE  PlacesInv'
  BY <1>5 DEF BeginRequest
<1>6. ASSUME NEW t \in Scripts, EndRequest(t)
      PROVE  PlacesInv'
  BY <1>6 DEF EndRequest
<1>7. ASSUME NEW t \in Scripts, AskForMemory(t)
      PROVE  PlacesInv'
  BY <1>7 DEF AskForMemory
<1>8. ASSUME NEW t \in Scripts, NEW o \in Object, CallFunction(t, o)
      PROVE  PlacesInv'
  BY <1>8 DEF CallFunction
<1>9. ASSUME NEW t \in Scripts, NEW o \in Object, MakeRoot(t, o) \/ ReadValue(t, o)
      PROVE  PlacesInv'
  <2>1. /\ at[t] = "value" /\ at' = [at EXCEPT ![t] = "request"]
        /\ UNCHANGED <<uses, mutex, arena, spare>>
    BY <1>9 DEF MakeRoot, ReadValue
  <2> QED
    BY <2>1
<1>10. ASSUME NEW t \in Scripts, NEW o \in Object, Drop(t, o)
      PROVE  PlacesInv'
  BY <1>10 DEF Drop
<1>11. ASSUME NEW t \in Scripts, TakeBattle(t)
      PROVE  PlacesInv'
  BY <1>11 DEF TakeBattle
<1>12. ASSUME NEW t \in Scripts, Leave(t)
      PROVE  PlacesInv'
  BY <1>12 DEF Leave
<1>13. ASSUME NEW t \in Scripts, NEW c \in Context, Acquire(t, c),
              Terminate(t) /\ spare' = c
      PROVE  PlacesInv'
  BY <1>13 DEF Terminate
<1>14. ASSUME NEW t \in Scripts, Terminated(t)
      PROVE  PlacesInv'
  BY <1>14 DEF Terminated
<1>15. CASE RequestInactivePokemon
  BY <1>15 DEF RequestInactivePokemon
<1>16. CASE Answer
  BY <1>16 DEF Answer
<1>17. CASE WakeUp
  BY <1>17 DEF WakeUp
<1>18. CASE ResumeRequests
  BY <1>18 DEF ResumeRequests
<1>19. CASE ReclaimRoot
  BY <1>19 DEF ReclaimRoot
<1>20. CASE RemoveRoot
  BY <1>20 DEF RemoveRoot
<1>21. CASE Collect
  BY <1>21 DEF Collect
<1>22. CASE DestroyBattle
  BY <1>22 DEF DestroyBattle
<1>23. CASE UNCHANGED ctxVars
  BY <1>23 DEF ctxVars
<1> QED
  BY <1>1, <1>2, <1>3, <1>4, <1>5, <1>6, <1>7, <1>8, <1>9, <1>10, <1>11, <1>12, <1>13,
     <1>14, <1>15, <1>16, <1>17, <1>18, <1>19, <1>20, <1>21, <1>22, <1>23
     DEF ContextsNext, Scripted, Scripts, CheckTeam, BeginBattle, Terminate

LEMMA NextPool == ContextsInv /\ [ContextsNext]_ctxVars => PoolInv'
<1> SUFFICES ASSUME ContextsInv, [ContextsNext]_ctxVars
             PROVE  PoolInv'
  OBVIOUS
<1>t. ContextsTypeOK /\ PlacesInv /\ PoolInv
  BY DEF ContextsInv
<1> USE <1>t, ContextsAssumption
    DEF ContextsTypeOK, PlacesInv, PoolInv, Alone, Moves, others, pool, fight, heap, Scripts,
        ScriptThread
<1>1. ASSUME NEW w \in Worker, NEW c \in Context, Acquire(w, c),
             CheckTeam(w) /\ uses' = [uses EXCEPT ![w] = c]
      PROVE  PoolInv'
  <2>1. c \notin busy /\ busy' = busy \cup {c}
    BY <1>1, AcquiredFree
  <2>2. mutex /= w /\ c \notin kept /\ c /= arena /\ c /= spare
    BY <1>1, <2>1 DEF CheckTeam, Context
  <2>3. \A t \in ScriptThread \ {w} :
           uses'[t] = uses[t] /\ (Alone(t)' => Alone(t) /\ uses[t] /= c)
    BY <1>1, <2>1 DEF CheckTeam
  <2> QED
    BY <1>1, <2>1, <2>2, <2>3 DEF CheckTeam
<1>2. ASSUME NEW w \in Worker, NEW c \in Context, Acquire(w, c),
             BeginBattle(w) /\ uses' = [uses EXCEPT ![w] = c] /\ arena' = c
      PROVE  PoolInv'
  <2>1. c \notin busy /\ busy' = busy \cup {c}
    BY <1>2, AcquiredFree
  <2> QED
    BY <1>2, <2>1 DEF BeginBattle
<1>3. ASSUME NEW w \in Worker, TeamChecked(w)
      PROVE  PoolInv'
  BY <1>3 DEF TeamChecked
<1>4. ASSUME NEW c \in Context, TeamGone(c)
      PROVE  PoolInv'
  BY <1>4 DEF TeamGone, Release
<1>5. ASSUME NEW t \in Scripts, BeginRequest(t)
      PROVE  PoolInv'
  BY <1>5 DEF BeginRequest
<1>6. ASSUME NEW t \in Scripts, EndRequest(t)
      PROVE  PoolInv'
  BY <1>6 DEF EndRequest
<1>7. ASSUME NEW t \in Scripts, AskForMemory(t)
      PROVE  PoolInv'
  BY <1>7 DEF AskForMemory
<1>8. ASSUME NEW t \in Scripts, NEW o \in Object, CallFunction(t, o)
      PROVE  PoolInv'
  BY <1>8 DEF CallFunction
<1>9. ASSUME NEW t \in Scripts, NEW o \in Object, MakeRoot(t, o) \/ ReadValue(t, o)
      PROVE  PoolInv'
  BY <1>9 DEF MakeRoot, ReadValue
<1>10. ASSUME NEW t \in Scripts, NEW o \in Object, Drop(t, o)
      PROVE  PoolInv'
  BY <1>10 DEF Drop
<1>11. ASSUME NEW t \in Scripts, TakeBattle(t)
      PROVE  PoolInv'
  BY <1>11 DEF TakeBattle
<1>12. ASSUME NEW t \in Scripts, Leave(t)
      PROVE  PoolInv'
  BY <1>12 DEF Leave
<1>13. ASSUME NEW t \in Scripts, NEW c \in Context, Acquire(t, c),
              Terminate(t) /\ spare' = c
      PROVE  PoolInv'
  <2>1. c \notin busy /\ busy' = busy \cup {c}
    BY <1>13, AcquiredFree
  <2> QED
    BY <1>13, <2>1 DEF Terminate
<1>14. ASSUME NEW t \in Scripts, Terminated(t)
      PROVE  PoolInv'
  BY <1>14 DEF Terminated, Release
<1>15. CASE RequestInactivePokemon
  BY <1>15 DEF RequestInactivePokemon
<1>16. CASE Answer
  BY <1>16 DEF Answer
<1>17. CASE WakeUp
  BY <1>17 DEF WakeUp
<1>18. CASE ResumeRequests
  BY <1>18 DEF ResumeRequests
<1>19. CASE ReclaimRoot
  BY <1>19 DEF ReclaimRoot
<1>20. CASE RemoveRoot
  BY <1>20 DEF RemoveRoot
<1>21. CASE Collect
  BY <1>21 DEF Collect
<1>22. CASE DestroyBattle
  BY <1>22 DEF DestroyBattle, Release
<1>23. CASE UNCHANGED ctxVars
  BY <1>23 DEF ctxVars
<1> QED
  BY <1>1, <1>2, <1>3, <1>4, <1>5, <1>6, <1>7, <1>8, <1>9, <1>10, <1>11, <1>12, <1>13,
     <1>14, <1>15, <1>16, <1>17, <1>18, <1>19, <1>20, <1>21, <1>22, <1>23
     DEF ContextsNext, Scripted, Scripts, CheckTeam, BeginBattle, Terminate

(* Whoever runs scripts has a context that nobody else has who does so.    *)
Runs(t) == t = Reclaimer \/ at[t] \notin {"idle", "asking"}
LEMMA RunApart ==
    ASSUME ContextsTypeOK, PlacesInv, PoolInv, NEW t \in ScriptThread, Runs(t)
    PROVE  /\ uses[t] \in Context
           /\ \A u \in ScriptThread \ {t} : Runs(u) => uses[u] /= uses[t]
<1> USE ContextsAssumption DEF ContextsTypeOK, PlacesInv, PoolInv, Runs, Alone, Scripts, ScriptThread
<1>1. uses[t] \in Context
  BY DEF Context
<1>2. ASSUME NEW u \in ScriptThread \ {t}, Runs(u)
      PROVE  uses[u] /= uses[t]
  <2>1. CASE mutex = t
    BY <1>2, <2>1
  <2>2. CASE mutex /= t
    BY <1>2, <2>2
  <2> QED
    BY <2>1, <2>2
<1> QED
  BY <1>1, <1>2

LEMMA NextRequests == ContextsInv /\ [ContextsNext]_ctxVars => RequestsInv'
<1> SUFFICES ASSUME ContextsInv, [ContextsNext]_ctxVars
             PROVE  RequestsInv'
  OBVIOUS
<1>t. ContextsTypeOK /\ PlacesInv /\ PoolInv /\ RequestsInv
  BY DEF ContextsInv
<1> USE <1>t, ContextsAssumption
    DEF ContextsTypeOK, PlacesInv, PoolInv, RequestsInv, Alone, Inside, Moves, others, pool,
        fight, heap, Scripts, ScriptThread
<1>1. ASSUME NEW w \in Worker, NEW c \in Context, Acquire(w, c),
             CheckTeam(w) /\ uses' = [uses EXCEPT ![w] = c]
      PROVE  RequestsInv'
  <2>1. c \notin busy /\ thread' = [thread EXCEPT ![c] = w]
    BY <1>1, AcquiredFree
  <2> QED
    BY <1>1, <2>1 DEF CheckTeam
<1>2. ASSUME NEW w \in Worker, NEW c \in Context, Acquire(w, c),
             BeginBattle(w) /\ uses' = [uses EXCEPT ![w] = c] /\ arena' = c
      PROVE  RequestsInv'
  <2>1. c \notin busy /\ thread' = [thread EXCEPT ![c] = w]
    BY <1>2, AcquiredFree
  <2> QED
    BY <1>2, <2>1 DEF BeginBattle
<1>3. ASSUME NEW w \in Worker, TeamChecked(w)
      PROVE  RequestsInv'
  BY <1>3 DEF TeamChecked, Unlock
<1>4. ASSUME NEW c \in Context, TeamGone(c)
      PROVE  RequestsInv'
  BY <1>4 DEF TeamGone, Release
<1>5. ASSUME NEW t \in Scripts, BeginRequest(t)
      PROVE  RequestsInv'
  <2>r. t \in ScriptThread /\ Runs(t) /\ ~Inside(t)
    BY <1>5 DEF BeginRequest, Runs
  <2>n. \A u \in ScriptThread \ {t} : Inside(u) => uses[u] /= uses[t]
    BY <2>r, RunApart DEF Runs
  <2>1. uses[t] \in Context /\ depth[uses[t]] = 0
    BY <2>r, <2>n, RunApart
  <2>2. depth' = [depth EXCEPT ![uses[t]] = 1]
    BY <1>5, <2>1 DEF BeginRequest
  <2> QED
    BY <1>5, <2>1, <2>2 DEF BeginRequest
<1>6. ASSUME NEW t \in Scripts, EndRequest(t)
      PROVE  RequestsInv'
  BY <1>6 DEF EndRequest
<1>7. ASSUME NEW t \in Scripts, AskForMemory(t)
      PROVE  RequestsInv'
  BY <1>7 DEF AskForMemory
<1>8. ASSUME NEW t \in Scripts, NEW o \in Object, CallFunction(t, o)
      PROVE  RequestsInv'
  BY <1>8 DEF CallFunction
<1>9. ASSUME NEW t \in Scripts, NEW o \in Object, MakeRoot(t, o) \/ ReadValue(t, o)
      PROVE  RequestsInv'
  <2>1. /\ at[t] = "value" /\ at' = [at EXCEPT ![t] = "request"]
        /\ UNCHANGED <<uses, mutex, arena, spare, saved, thread, depth, kept, busy>>
    BY <1>9 DEF MakeRoot, ReadValue
  <2> QED
    BY <2>1
<1>10. ASSUME NEW t \in Scripts, NEW o \in Object, Drop(t, o)
      PROVE  RequestsInv'
  BY <1>10 DEF Drop
<1>11. ASSUME NEW t \in Scripts, TakeBattle(t)
      PROVE  RequestsInv'
  <2>1. arena \in Context /\ thread' = [thread EXCEPT ![arena] = t]
    BY <1>11 DEF TakeBattle, Lock, Context
  <2>2. \A u \in ScriptThread : Alone(u)' => Alone(u) /\ uses'[u] = uses[u] /\ uses[u] /= arena
    BY <1>11 DEF TakeBattle
  <2>3. \A u \in ScriptThread :
           (Inside(u)' <=> Inside(u)) /\ (Inside(u) => uses'[u] = uses[u])
    BY <1>11 DEF TakeBattle
  <2>4. UNCHANGED <<depth, arena, saved>> /\ mutex' = t /\ at[Queue]' \in {at[Queue], "scripts"}
    BY <1>11 DEF TakeBattle
  <2>5. /\ \A u \in ScriptThread : Inside(u)' => depth'[uses'[u]] = 1
        /\ \A d \in Context : depth'[d] /= 0 =>
              \E u \in ScriptThread : uses'[u] = d /\ Inside(u)'
    BY <2>3, <2>4
  <2>6. \A u \in ScriptThread : Alone(u)' => thread'[uses'[u]] = u
    BY <2>1, <2>2
  <2>7. mutex' /= Nothing => thread'[arena'] = mutex'
    BY <2>1, <2>4
  <2>8. at'[Queue] \in {"asking", "resuming"} => saved' = 1
    BY <2>4
  <2> QED
    BY <2>5, <2>6, <2>7, <2>8
<1>12. ASSUME NEW t \in Scripts, Leave(t)
      PROVE  RequestsInv'
  BY <1>12 DEF Leave, Unlock
<1>13. ASSUME NEW t \in Scripts, NEW c \in Context, Acquire(t, c),
              Terminate(t) /\ spare' = c
      PROVE  RequestsInv'
  <2>1. c \notin busy /\ thread' = [thread EXCEPT ![c] = t]
    BY <1>13, AcquiredFree
  <2> QED
    BY <1>13, <2>1, SMTT(30) DEF Terminate
<1>14. ASSUME NEW t \in Scripts, Terminated(t)
      PROVE  RequestsInv'
  BY <1>14, SMTT(30) DEF Terminated, Release
<1>15. CASE RequestInactivePokemon
  BY <1>15 DEF RequestInactivePokemon, Unlock
<1>16. CASE Answer
  BY <1>16 DEF Answer
<1>17. CASE WakeUp
  <2>1. /\ arena \in Context /\ thread' = [thread EXCEPT ![arena] = Queue]
        /\ UNCHANGED <<uses, depth, arena, saved>> /\ mutex' = Queue /\ at[Queue] = "asking"
    BY <1>17 DEF WakeUp, Lock, Context
  <2>2. \A u \in ScriptThread : Alone(u)' => Alone(u) /\ uses[u] /= arena
    BY <1>17 DEF WakeUp
  <2>3. \A u \in ScriptThread : Inside(u)' <=> Inside(u)
    BY <1>17 DEF WakeUp
  <2> QED
    BY <2>1, <2>2, <2>3
<1>18. CASE ResumeRequests
  <2>r. Queue \in ScriptThread /\ Runs(Queue) /\ ~Inside(Queue)
    BY <1>18 DEF ResumeRequests, Runs
  <2>n. \A u \in ScriptThread \ {Queue} : Inside(u) => uses[u] /= uses[Queue]
    BY <2>r, RunApart DEF Runs
  <2>1. uses[Queue] \in Context /\ depth[uses[Queue]] = 0
    BY <2>r, <2>n, RunApart
  <2>2. depth' = [depth EXCEPT ![uses[Queue]] = 1]
    BY <1>18, <2>1 DEF ResumeRequests
  <2> QED
    BY <1>18, <2>1, <2>2 DEF ResumeRequests
<1>19. CASE ReclaimRoot
  <2>r. Reclaimer \in ScriptThread /\ Runs(Reclaimer) /\ ~Inside(Reclaimer)
    BY <1>19 DEF ReclaimRoot, Runs
  <2>n. \A u \in ScriptThread \ {Reclaimer} : Inside(u) => uses[u] /= uses[Reclaimer]
    BY <2>r, RunApart DEF Runs
  <2>1. uses[Reclaimer] \in Context /\ depth[uses[Reclaimer]] = 0
    BY <2>r, <2>n, RunApart
  <2>2. depth' = [depth EXCEPT ![uses[Reclaimer]] = 1]
    BY <1>19, <2>1 DEF ReclaimRoot
  <2> QED
    BY <1>19, <2>1, <2>2 DEF ReclaimRoot
<1>20. CASE RemoveRoot
  BY <1>20 DEF RemoveRoot
<1>21. CASE Collect
  BY <1>21 DEF Collect
<1>22. CASE DestroyBattle
  BY <1>22 DEF DestroyBattle, Release
<1>23. CASE UNCHANGED ctxVars
  BY <1>23 DEF ctxVars
<1> HIDE <1>t DEF ContextsTypeOK, PlacesInv, PoolInv, RequestsInv, Alone, Inside
<1> QED
  BY <1>1, <1>2, <1>3, <1>4, <1>5, <1>6, <1>7, <1>8, <1>9, <1>10, <1>11, <1>12, <1>13,
     <1>14, <1>15, <1>16, <1>17, <1>18, <1>19, <1>20, <1>21, <1>22, <1>23
     DEF ContextsNext, Scripted, Scripts, CheckTeam, BeginBattle, Terminate

LEMMA NextHeap == ContextsInv /\ [ContextsNext]_ctxVars => HeapInv'
<1> SUFFICES ASSUME ContextsInv, [ContextsNext]_ctxVars
             PROVE  HeapInv'
  OBVIOUS
<1>t. ContextsTypeOK /\ HeapInv
  BY DEF ContextsInv
<1> USE <1>t, ContextsAssumption
    DEF ContextsTypeOK, HeapInv, HeldAreKept, Moves, others, pool, fight, heap, Scripts,
        ScriptThread
<1>1. ASSUME NEW w \in Worker, NEW c \in Context, Acquire(w, c),
             CheckTeam(w) /\ uses' = [uses EXCEPT ![w] = c]
      PROVE  HeapInv'
  BY <1>1 DEF CheckTeam
<1>2. ASSUME NEW w \in Worker, NEW c \in Context, Acquire(w, c),
             BeginBattle(w) /\ uses' = [uses EXCEPT ![w] = c] /\ arena' = c
      PROVE  HeapInv'
  BY <1>2 DEF BeginBattle
<1>3. ASSUME NEW w \in Worker, TeamChecked(w)
      PROVE  HeapInv'
  BY <1>3 DEF TeamChecked
<1>4. ASSUME NEW c \in Context, TeamGone(c)
      PROVE  HeapInv'
  BY <1>4 DEF TeamGone
<1>5. ASSUME NEW t \in Scripts, BeginRequest(t)
      PROVE  HeapInv'
  BY <1>5 DEF BeginRequest
<1>6. ASSUME NEW t \in Scripts, EndRequest(t)
      PROVE  HeapInv'
  BY <1>6 DEF EndRequest
<1>7. ASSUME NEW t \in Scripts, AskForMemory(t)
      PROVE  HeapInv'
  BY <1>7 DEF AskForMemory
<1>8. ASSUME NEW t \in Scripts, NEW o \in Object, CallFunction(t, o)
      PROVE  HeapInv'
  BY <1>8 DEF CallFunction
<1>9. ASSUME NEW t \in Scripts, NEW o \in Object, MakeRoot(t, o) \/ ReadValue(t, o)
      PROVE  HeapInv'
  <2>1. CASE MakeRoot(t, o)
    BY <2>1 DEF MakeRoot, Held
  <2>2. CASE ReadValue(t, o)
    BY <2>2 DEF ReadValue, Held
  <2> QED
    BY <1>9, <2>1, <2>2
<1>10. ASSUME NEW t \in Scripts, NEW o \in Object, Drop(t, o)
      PROVE  HeapInv'
  <2>1. /\ \A i \in 1 .. Len(deadRoots) : deadRoots[i] /= o
        /\ holder[o] = t /\ object[o] = "rooted"
    BY <1>10 DEF Drop, Held
  <2>2. /\ Len(deadRoots') = Len(deadRoots) + 1 /\ deadRoots'[Len(deadRoots')] = o
        /\ \A i \in 1 .. Len(deadRoots) : deadRoots'[i] = deadRoots[i]
    BY <1>10 DEF Drop
  <2>3. \A i \in 1 .. Len(deadRoots') : i \in 1 .. Len(deadRoots) \/ i = Len(deadRoots')
    BY <2>2
  <2> QED
    BY <1>10, <2>1, <2>2, <2>3 DEF Drop
<1>11. ASSUME NEW t \in Scripts, TakeBattle(t)
      PROVE  HeapInv'
  BY <1>11 DEF TakeBattle
<1>12. ASSUME NEW t \in Scripts, Leave(t)
      PROVE  HeapInv'
  BY <1>12 DEF Leave
<1>13. ASSUME NEW t \in Scripts, NEW c \in Context, Acquire(t, c),
              Terminate(t) /\ spare' = c
      PROVE  HeapInv'
  BY <1>13 DEF Terminate
<1>14. ASSUME NEW t \in Scripts, Terminated(t)
      PROVE  HeapInv'
  BY <1>14 DEF Terminated
<1>15. CASE RequestInactivePokemon
  BY <1>15 DEF RequestInactivePokemon
<1>16. CASE Answer
  BY <1>16 DEF Answer
<1>17. CASE WakeUp
  BY <1>17 DEF WakeUp
<1>18. CASE ResumeRequests
  BY <1>18 DEF ResumeRequests
<1>19. CASE ReclaimRoot
  BY <1>19 DEF ReclaimRoot
<1>20. CASE RemoveRoot
  BY <1>20 DEF RemoveRoot
<1>21. CASE Collect
  <2>1. ASSUME NEW x \in Object, object[x] = "fresh"
        PROVE  holder[x] = collector
    <3>1. /\ holder[x] \in ScriptThread /\ Inside(holder[x])
          /\ uses[holder[x]] \in Context /\ thread[uses[holder[x]]] = holder[x]
      BY <2>1 DEF Inside, ContextsInv, RequestsInv, PlacesInv, Alone, Context
    <3>2. depth[uses[holder[x]]] = 1 /\ uses[holder[x]] \in 1 .. made
      BY <3>1 DEF ContextsInv, RequestsInv, PoolInv, PlacesInv, Alone, Inside
    <3> QED
      BY <1>21, <3>1, <3>2 DEF Collect, Requested
  <2> QED
    BY <1>21, <2>1 DEF Collect
<1>22. CASE DestroyBattle
  BY <1>22 DEF DestroyBattle
<1>23. CASE UNCHANGED ctxVars
  BY <1>23 DEF ctxVars
<1> QED
  BY <1>1, <1>2, <1>3, <1>4, <1>5, <1>6, <1>7, <1>8, <1>9, <1>10, <1>11, <1>12, <1>13,
     <1>14, <1>15, <1>16, <1>17, <1>18, <1>19, <1>20, <1>21, <1>22, <1>23
     DEF ContextsNext, Scripted, Scripts, CheckTeam, BeginBattle, Terminate

-----------------------------------------------------------------------------
(* The invariant, for every number of workers, contexts and objects.       *)
THEOREM ContextsInvariant == ContextsSpec => []ContextsInv
<1>1. ContextsInv /\ [ContextsNext]_ctxVars => ContextsInv'
  BY NextTypes, NextPlaces, NextPool, NextRequests, NextHeap DEF ContextsInv
<1> QED
  BY InitInv, <1>1, PTL DEF ContextsSpec

(* A request has its context to itself, and what it returned stays for as  *)
(* long as C++ code holds it (ScriptContextLock, RootedObject).            *)
THEOREM SafeRequests == ContextsSpec => []RequestsAreSafe
<1>1. ContextsInv => RequestsAreSafe
  <2> SUFFICES ASSUME ContextsInv
               PROVE  RequestsAreSafe
    OBVIOUS
  <2> USE DEF ContextsInv
  <2>1. ASSUME NEW t \in ScriptThread, Inside(t)
        PROVE  Runs(t) /\ thread[uses[t]] = t
    BY <2>1, ContextsAssumption
       DEF Inside, Runs, Alone, PlacesInv, RequestsInv, ScriptThread, Scripts
  <2>2. ContextsApart
    BY <2>1, RunApart DEF ContextsApart
  <2> QED
    BY <2>2 DEF HeapInv, RequestsAreSafe
<1> QED
  BY ContextsInvariant, <1>1, PTL

(* Every request that a collection waits for is of a thread that goes on.  *)
THEOREM CollectionsProceed == ContextsSpec => []CollectionsGoOn
<1>1. ContextsInv => CollectionsGoOn
  <2> SUFFICES ASSUME ContextsInv, NEW c \in Requested
               PROVE  \E t \in ScriptThread : uses[t] = c /\ Inside(t)
    BY DEF CollectionsGoOn
  <2>1. c \in 1 .. made /\ depth[c] > 0 /\ made \in Context /\ MaxContexts \in Nat
    BY ContextsAssumption DEF Requested, ContextsInv, ContextsTypeOK
  <2>2. c \in Context
    BY <2>1 DEF Context
  <2> QED
    BY <2>1, <2>2 DEF ContextsInv, RequestsInv
<1> QED
  BY ContextsInvariant, <1>1, PTL

-----------------------------------------------------------------------------
(* Metagames: what the file holds, when it is read and when its bans have  *)
(* got numbers.                                                            *)
AsRead == [g \in DOMAIN File |-> GetGeneration(File[g], g - 1)]
WithBans(metagame) ==
    [metagame EXCEPT !.bans = {SpeciesId[name] : name \in metagame.banNames \cap DOMAIN SpeciesId}]
AsBanned == [g \in DOMAIN AsRead |-> [i \in DOMAIN AsRead[g] |-> WithBans(AsRead[g][i])]]

(* Metagames know where in the list they are.                              *)
Numbered(s) ==
    /\ Len(s) \in Nat
    /\ \A g \in Indices(s) : Len(At(s, g)) \in Nat
    /\ \A g \in Indices(s) : \A i \in Indices(At(s, g)) :
           At(At(s, g), i).generation = g /\ At(At(s, g), i).idx = i
PlacesIn(s) == UNION {{<<g, i>> : i \in Indices(At(s, g))} : g \in Indices(s)}
MetagameAt(s, place) == At(At(s, place[1]), place[2])

Starting == {"start", "read", "banned"}
Serving == {"queues", "run"}
NothingYet ==
    /\ DOMAIN queues = {} /\ wanted = {} /\ offer = NoOffer /\ fights = NoFight
ReadInv ==
    /\ stage \in Starting \cup Serving
    /\ stage = "start" => generations = <<>>
    /\ stage = "read" => generations = AsRead
    /\ stage \in {"banned"} \cup Serving => generations = AsBanned
    /\ stage \in Starting => NothingYet
    /\ stage \in Serving => list = generations
    /\ stage = "run" => clauseList = ClauseNames
    /\ stage \in Serving =>
           ladders = {MetagameAt(generations, place).id : place \in PlacesIn(generations)}

(* Whoever is queued has a team that the metagame takes, and is in its     *)
(* ladder if it is rated.                                                  *)
Waits(entry, key) ==
    LET metagame == MetagameAt(generations, key)
    IN  /\ Fits(entry.team, metagame)
        /\ ValidateTeam(entry.team, metagame.clauses, metagame.bans)
        /\ key[3] => <<entry.client, metagame.id>> \in joined
QueuesInv ==
    \A key \in DOMAIN queues :
        /\ <<key[1], key[2]>> \in PlacesIn(generations)
        /\ \A k \in DOMAIN queues[key] : Waits(queues[key][k], key)
        /\ DOMAIN queues[key] = 1 .. Len(queues[key]) /\ Len(queues[key]) \in Nat
EmptyUntilRun ==
    stage = "queues" =>
        /\ wanted = {} /\ offer = NoOffer /\ fights = NoFight
        /\ \A key \in DOMAIN queues : queues[key] = <<>>

(* The terms of a challenge that was made, and the team it was accepted    *)
(* with.                                                                   *)
Made(terms) ==
    /\ terms \in Terms /\ terms.generation \in Indices(generations)
    /\ terms.teamLength >= 1
    /\ terms.metagame \in {-1} \cup Indices(At(generations, terms.generation))
Agreeable(terms, team) ==
    /\ Len(team) <= terms.teamLength
    /\ ValidateTeam(team, FetchClauses(terms), GetMetagameBans(terms.generation, terms.metagame))
OfferInv ==
    offer # NoOffer =>
        /\ stage = "run" /\ Made(offer.terms)
        /\ offer = [terms |-> offer.terms, team |-> offer.team]
        /\ offer.team # <<>> => Agreeable(offer.terms, offer.team)

(* What is so of the battle that was begun, before it counts and after.    *)
FightInv ==
    fights # NoFight =>
        /\ stage = "run" /\ PlayedAsAgreed
        /\ fights.rated =>
            /\ fights.agreed.metagame # -1 /\ fights.metagame = fights.agreed.metagame
            /\ fights.generation = fights.agreed.generation
            /\ <<fights.generation, fights.metagame>> \in PlacesIn(generations)
            /\ \A k \in 1 .. 2 : <<fights.players[k], LadderOf(fights)>> \in joined
        /\ posted # "" => fights.rated

(* GamesInv is inductive: from the file on, a metagame stands at the place *)
(* that it names, so that the place a battle remembers leads back to the   *)
(* rules its players were told; and whoever waits has been judged by the   *)
(* rules that the battle gets, which do not change while the server runs.  *)
GamesInv == ReadInv /\ QueuesInv /\ EmptyUntilRun /\ OfferInv /\ FightInv

LEMMA Listed ==
  ASSUME NEW n \in Nat, NEW f, DOMAIN f = 1 .. n, f = [k \in 1 .. n |-> f[k]]
  PROVE  Len(f) = n
<1> DEFINE S == {f[k] : k \in 1 .. n}
<1>1. f \in [1 .. n -> S]
  OBVIOUS
<1> HIDE DEF S
<1>2. f \in Seq(S)
  BY <1>1, SeqDef
<1> QED
  BY <1>2

(* Reading numbers the metagames, and putting in the bans changes none.    *)
LEMMA ReadNumbers ==
  ASSUME MetagamesAssumption
  PROVE  Numbered(AsRead)
<1>1. Len(File) \in Nat /\ DOMAIN File = 1 .. Len(File)
      /\ \A g \in 1 .. Len(File) : Len(File[g]) \in Nat /\ DOMAIN File[g] = 1 .. Len(File[g])
  BY DEF MetagamesAssumption
<1>2. DOMAIN AsRead = 1 .. Len(File) /\ AsRead = [g \in 1 .. Len(File) |-> AsRead[g]]
  BY <1>1 DEF AsRead
<1>3. Len(AsRead) = Len(File)
  BY <1>1, <1>2, Listed
<1>4. ASSUME NEW g \in Indices(AsRead)
      PROVE  /\ At(AsRead, g) =
                    [i \in 1 .. Len(File[g + 1]) |-> GetMetagame(File[g + 1][i], g, i - 1)]
             /\ Len(At(AsRead, g)) = Len(File[g + 1]) /\ Len(At(AsRead, g)) \in Nat
  <2>1. g \in Int /\ g + 1 \in 1 .. Len(File) /\ (g + 1) - 1 = g
    BY <1>1, <1>3 DEF Indices
  <2>2. AsRead[g + 1] = GetGeneration(File[g + 1], g)
    BY <1>1, <2>1 DEF AsRead
  <2>3. At(AsRead, g) = [i \in 1 .. Len(File[g + 1]) |-> GetMetagame(File[g + 1][i], g, i - 1)]
    BY <1>1, <2>1, <2>2 DEF At, GetGeneration
  <2> DEFINE f == At(AsRead, g)
  <2>4. DOMAIN f = 1 .. Len(File[g + 1]) /\ f = [k \in 1 .. Len(File[g + 1]) |-> f[k]]
    BY <2>3
  <2>5. Len(File[g + 1]) \in Nat
    BY <1>1, <2>1
  <2> HIDE DEF f
  <2>6. Len(f) = Len(File[g + 1])
    BY <2>4, <2>5, Listed
  <2> QED
    BY <2>3, <2>5, <2>6 DEF f
<1>5. ASSUME NEW g \in Indices(AsRead), NEW i \in Indices(At(AsRead, g))
      PROVE  At(At(AsRead, g), i).generation = g /\ At(At(AsRead, g), i).idx = i
  <2>1. i \in Int /\ i + 1 \in 1 .. Len(File[g + 1]) /\ (i + 1) - 1 = i
    <3>1. Len(At(AsRead, g)) = Len(File[g + 1]) /\ Len(At(AsRead, g)) \in Nat
      BY <1>4
    <3>2. i \in 0 .. Len(At(AsRead, g)) - 1
      BY DEF Indices
    <3> QED
      BY <3>1, <3>2
  <2> DEFINE f == At(AsRead, g)
  <2>2. f = [k \in 1 .. Len(File[g + 1]) |-> GetMetagame(File[g + 1][k], g, k - 1)]
    BY <1>4
  <2>3. At(f, i) = f[i + 1]
    BY DEF At
  <2> HIDE DEF f
  <2>4. f[i + 1] = GetMetagame(File[g + 1][i + 1], g, (i + 1) - 1)
    BY <2>1, <2>2
  <2>5. At(At(AsRead, g), i) = GetMetagame(File[g + 1][i + 1], g, i)
    BY <2>1, <2>3, <2>4 DEF f
  <2> QED
    BY <2>5 DEF GetMetagame
<1> QED
  BY <1>1, <1>3, <1>4, <1>5 DEF Numbered

LEMMA BansChangeNoNumber ==
  ASSUME MetagamesAssumption
  PROVE  Numbered(AsBanned)
<1>1. Numbered(AsRead)
  BY ReadNumbers
<1>2. Len(File) \in Nat /\ DOMAIN File = 1 .. Len(File)
      /\ \A g \in 1 .. Len(File) : Len(File[g]) \in Nat /\ DOMAIN File[g] = 1 .. Len(File[g])
  BY DEF MetagamesAssumption
<1>3. DOMAIN AsRead = 1 .. Len(File) /\ AsRead = [g \in 1 .. Len(File) |-> AsRead[g]]
      /\ \A g \in 1 .. Len(File) : AsRead[g] = GetGeneration(File[g], g - 1)
  BY <1>2 DEF AsRead
<1>4. DOMAIN AsBanned = 1 .. Len(File) /\ AsBanned = [g \in 1 .. Len(File) |-> AsBanned[g]]
      /\ \A g \in 1 .. Len(File) :
             AsBanned[g] = [i \in DOMAIN AsRead[g] |-> WithBans(AsRead[g][i])]
  BY <1>3 DEF AsBanned
<1>5. Len(AsRead) = Len(File) /\ Len(AsBanned) = Len(File)
  BY <1>2, <1>3, <1>4, Listed
<1>6. ASSUME NEW g \in 1 .. Len(File)
      PROVE  /\ Len(AsBanned[g]) = Len(File[g]) /\ Len(AsRead[g]) = Len(File[g])
             /\ Len(File[g]) \in Nat
             /\ \A i \in 1 .. Len(File[g]) :
                    /\ AsBanned[g][i] = WithBans(AsRead[g][i])
                    /\ AsRead[g][i] = GetMetagame(File[g][i], g - 1, i - 1)
  <2> DEFINE r == AsRead[g]
             b == AsBanned[g]
  <2>1. r = [i \in 1 .. Len(File[g]) |-> GetMetagame(File[g][i], g - 1, i - 1)]
    BY <1>2, <1>3 DEF GetGeneration
  <2>2. b = [i \in 1 .. Len(File[g]) |-> WithBans(r[i])]
    BY <1>4, <2>1
  <2> HIDE DEF r, b
  <2>3. DOMAIN r = 1 .. Len(File[g]) /\ r = [i \in 1 .. Len(File[g]) |-> r[i]]
        /\ DOMAIN b = 1 .. Len(File[g]) /\ b = [i \in 1 .. Len(File[g]) |-> b[i]]
    BY <2>1, <2>2
  <2>4. Len(r) = Len(File[g]) /\ Len(b) = Len(File[g])
    BY <1>2, <2>3, Listed
  <2> QED
    BY <1>2, <2>1, <2>2, <2>4 DEF r, b
<1>7. ASSUME NEW e, NEW g, NEW i
      PROVE  /\ WithBans(GetMetagame(e, g, i)).generation = g
             /\ WithBans(GetMetagame(e, g, i)).idx = i
  BY DEF WithBans, GetMetagame
<1>8. ASSUME NEW g \in Indices(AsBanned)
      PROVE  g + 1 \in 1 .. Len(File) /\ (g + 1) - 1 = g /\ At(AsBanned, g) = AsBanned[g + 1]
  BY <1>2, <1>5 DEF Indices, At
<1>9. ASSUME NEW g \in Indices(AsBanned), NEW i \in Indices(At(AsBanned, g))
      PROVE  At(At(AsBanned, g), i).generation = g /\ At(At(AsBanned, g), i).idx = i
  <2>1. i + 1 \in 1 .. Len(File[g + 1]) /\ (i + 1) - 1 = i
    BY <1>6, <1>8 DEF Indices
  <2>2. At(At(AsBanned, g), i) = WithBans(GetMetagame(File[g + 1][i + 1], g, i))
    BY <1>6, <1>8, <2>1 DEF At
  <2> QED
    BY <1>7, <2>2
<1> QED
  BY <1>2, <1>5, <1>6, <1>8, <1>9 DEF Numbered

LEMMA InitGames ==
  ASSUME MetagamesInit
  PROVE  GamesInv
<1> DOMAIN <<>> = {}
  OBVIOUS
<1>1. ReadInv /\ QueuesInv /\ EmptyUntilRun
  <2>1. NothingYet
    BY DEF MetagamesInit, NothingYet
  <2>2. ReadInv
    BY <2>1 DEF MetagamesInit, ReadInv, Starting, Serving
  <2>3. QueuesInv /\ EmptyUntilRun
    BY <2>1 DEF MetagamesInit, QueuesInv, EmptyUntilRun, NothingYet
  <2> QED
    BY <2>2, <2>3
<1>2. OfferInv /\ FightInv
  BY DEF MetagamesInit, OfferInv, FightInv
<1> QED
  BY <1>1, <1>2 DEF GamesInv

(* The steps of the start.                                                 *)
LEMMA FileRead ==
  ASSUME GamesInv, ReadMetagames
  PROVE  GamesInv'
<1>1. stage = "start" /\ stage' = "read" /\ NothingYet
  BY DEF GamesInv, ReadInv, Starting, ReadMetagames
<1>2. generations' = AsRead
  BY DEF ReadMetagames, AsRead
<1>3. NothingYet'
  BY <1>1 DEF NothingYet, ReadMetagames
<1>4. ReadInv'
  BY <1>1, <1>2, <1>3 DEF ReadInv, Starting, Serving
<1> QED
  BY <1>1, <1>3, <1>4 DEF GamesInv, QueuesInv, EmptyUntilRun, OfferInv, FightInv, NothingYet

LEMMA BansRead ==
  ASSUME GamesInv, InitialiseMetagames
  PROVE  GamesInv'
<1>1. stage = "read" /\ stage' = "banned" /\ NothingYet /\ generations = AsRead
  BY DEF GamesInv, ReadInv, Starting, InitialiseMetagames
<1>2. generations' = AsBanned
  BY <1>1 DEF InitialiseMetagames, AsBanned, WithBans
<1>3. NothingYet'
  BY <1>1 DEF NothingYet, InitialiseMetagames
<1>4. ReadInv'
  BY <1>1, <1>2, <1>3 DEF ReadInv, Starting, Serving
<1> QED
  BY <1>1, <1>3, <1>4 DEF GamesInv, QueuesInv, EmptyUntilRun, OfferInv, FightInv, NothingYet

LEMMA QueuesMade ==
  ASSUME GamesInv, InitialiseMatchmaking
  PROVE  GamesInv'
<1>1. stage = "banned" /\ stage' = "queues" /\ NothingYet /\ generations = AsBanned
  BY DEF GamesInv, ReadInv, Starting, InitialiseMatchmaking
<1>2. generations' = generations /\ list' = generations
  BY DEF InitialiseMatchmaking
<1>3. ladders' = {MetagameAt(generations, place).id : place \in PlacesIn(generations)}
  BY DEF InitialiseMatchmaking, MetagameAt, PlacesIn, Places
<1>4. ReadInv'
  BY <1>1, <1>2, <1>3 DEF ReadInv, Starting, Serving
<1>5. wanted' = {} /\ offer' = NoOffer /\ fights' = NoFight
  BY <1>1 DEF NothingYet, InitialiseMatchmaking
<1>6. queues' = [key \in {<<p[1], p[2], rated>> :
                              p \in PlacesIn(generations), rated \in BOOLEAN} |-> <<>>]
  BY DEF InitialiseMatchmaking, PlacesIn, Places
<1>7. ASSUME NEW key \in DOMAIN queues'
      PROVE  queues'[key] = <<>> /\ <<key[1], key[2]>> \in PlacesIn(generations)
  <2>1. PICK p \in PlacesIn(generations), rated \in BOOLEAN : key = <<p[1], p[2], rated>>
    BY <1>6
  <2>2. PICK g \in Indices(generations) : p \in {<<g, i>> : i \in Indices(At(generations, g))}
    BY DEF PlacesIn
  <2>3. PICK i \in Indices(At(generations, g)) : p = <<g, i>>
    BY <2>2
  <2>4. key[1] = g /\ key[2] = i
    BY <2>1, <2>3
  <2> QED
    BY <1>6, <2>3, <2>4
<1>8. QueuesInv'
  <2>1. DOMAIN <<>> = {} /\ 1 .. Len(<<>>) = {} /\ Len(<<>>) \in Nat
    OBVIOUS
  <2>2. ASSUME NEW key \in DOMAIN queues'
        PROVE  /\ <<key[1], key[2]>> \in PlacesIn(generations)'
               /\ \A k \in DOMAIN queues'[key] : FALSE
               /\ DOMAIN queues'[key] = 1 .. Len(queues'[key]) /\ Len(queues'[key]) \in Nat
    BY <1>2, <1>7, <2>1
  <2> QED
    BY <2>2 DEF QueuesInv
<1>9. EmptyUntilRun'
  BY <1>5, <1>7 DEF EmptyUntilRun
<1> QED
  BY <1>4, <1>5, <1>8, <1>9 DEF GamesInv, OfferInv, FightInv

LEMMA ClausesRead ==
  ASSUME GamesInv, InitialiseClauses
  PROVE  GamesInv'
<1>1. stage = "queues" /\ stage' = "run"
  BY DEF InitialiseClauses
<1>2. /\ generations' = generations /\ list' = list /\ ladders' = ladders /\ queues' = queues
      /\ joined' = joined /\ offer' = offer /\ fights' = fights
  BY DEF InitialiseClauses
<1>3. offer' = NoOffer /\ fights' = NoFight
  BY <1>1, <1>2 DEF GamesInv, EmptyUntilRun
<1>4. ReadInv'
  <2>1. clauseList' = ClauseNames
    BY DEF InitialiseClauses
  <2> QED
    BY <1>1, <1>2, <2>1 DEF GamesInv, ReadInv, Starting, Serving
<1>5. QueuesInv'
  BY <1>2 DEF GamesInv, QueuesInv, Waits
<1> QED
  BY <1>1, <1>3, <1>4, <1>5 DEF GamesInv, EmptyUntilRun, OfferInv, FightInv

(* While the server runs the rules stay, and whoever joined a ladder is in *)
(* it.                                                                     *)
LEMMA RulesStay ==
  ASSUME GamesInv, UNCHANGED rules, stage = "run"
  PROVE  ReadInv' /\ EmptyUntilRun'
<1>1. stage' = stage /\ generations' = generations /\ list' = list /\ ladders' = ladders
      /\ clauseList' = clauseList
  BY DEF rules
<1>2. ReadInv'
  BY <1>1 DEF GamesInv, ReadInv, Starting, Serving
<1> QED
  BY <1>1, <1>2 DEF EmptyUntilRun

LEMMA OnlyWhileRunning ==
  ASSUME GamesInv
  PROVE  /\ offer # NoOffer \/ fights # NoFight => stage = "run"
         /\ \A key \in DOMAIN queues : queues[key] # <<>> => stage = "run"
         /\ wanted # {} => stage = "run"
BY DEF GamesInv, ReadInv, EmptyUntilRun, NothingYet, Starting, Serving

LEMMA QueuesStay ==
  ASSUME QueuesInv, UNCHANGED <<generations, queues, joined>>
  PROVE  QueuesInv'
BY DEF QueuesInv, Waits

LEMMA OfferStays ==
  ASSUME OfferInv, UNCHANGED <<stage, generations, clauseList, offer>>
  PROVE  OfferInv'
BY DEF OfferInv, Made, Agreeable, FetchClauses, NamedClauses, MetagameClauses, GetMetagameBans

LEMMA PlayedStays ==
  ASSUME PlayedAsAgreed, UNCHANGED <<list, clauseList, ladders, joined, fights, posted>>
  PROVE  PlayedAsAgreed'
BY ZenonT(60) DEF PlayedAsAgreed

(* Queueing.                                                               *)
LEMMA Queueing ==
  ASSUME GamesInv, NEW c, NEW g, NEW i, NEW rated, NEW team, QueueClient(c, g, i, rated, team)
  PROVE  GamesInv'
<1> DEFINE key == <<g, i, rated>>
<1>1. /\ Idle /\ UNCHANGED rules /\ stage = "run"
      /\ offer' = offer /\ fights' = fights /\ posted' = posted
      /\ generations' = generations /\ stage' = stage
  BY DEF QueueClient, Idle, rules
<1>2. ReadInv' /\ EmptyUntilRun'
  BY <1>1, RulesStay
<1>3. OfferInv' /\ FightInv'
  BY <1>1 DEF Idle, OfferInv, FightInv
<1>4. QueuesInv'
  <2>1. CASE key \notin DOMAIN queues
    <3>1. queues' = queues /\ joined' = joined
      BY <2>1 DEF QueueClient
    <3> QED
      BY <1>1, <3>1 DEF GamesInv, QueuesInv, Waits
  <2>2. CASE key \in DOMAIN queues
    <3> DEFINE metagame == MetagameAt(generations, key)
               entry == [client |-> c, team |-> team]
    <3>1. metagame = At(At(generations, g), i)
      BY DEF MetagameAt
    <3>2. /\ Fits(team, metagame)
          /\ ValidateTeam(team, metagame.clauses, metagame.bans)
          /\ queues' = [queues EXCEPT ![key] = Append(@, entry)]
          /\ joined' = IF rated THEN joined \cup {<<c, metagame.id>>} ELSE joined
      BY <2>2, <3>1 DEF QueueClient
    <3> HIDE DEF metagame
    <3>3. joined \subseteq joined' /\ (rated => <<c, metagame.id>> \in joined')
      BY <3>2
    <3>4. Waits(entry, key)'
      BY <1>1, <3>2, <3>3 DEF Waits, metagame
    <3>5. \A k \in DOMAIN queues : \A e : Waits(e, k) => Waits(e, k)'
      BY <1>1, <3>3 DEF Waits
    <3> HIDE DEF entry
    <3>6. DOMAIN queues' = DOMAIN queues /\ queues'[key] = Append(queues[key], entry)
          /\ \A k \in DOMAIN queues : k # key => queues'[k] = queues[k]
      BY <2>2, <3>2
    <3>7. DOMAIN queues[key] = 1 .. Len(queues[key]) /\ Len(queues[key]) \in Nat
      BY <2>2 DEF GamesInv, QueuesInv
    <3>8. /\ Len(Append(queues[key], entry)) = Len(queues[key]) + 1
          /\ DOMAIN Append(queues[key], entry) = 1 .. Len(queues[key]) + 1
          /\ Append(queues[key], entry)[Len(queues[key]) + 1] = entry
          /\ \A k \in 1 .. Len(queues[key]) : Append(queues[key], entry)[k] = queues[key][k]
      BY <3>7 DEF Append
    <3>9. <<key[1], key[2]>> \in PlacesIn(generations)
      BY <2>2 DEF GamesInv, QueuesInv
    <3> HIDE DEF key
    <3>10. ASSUME NEW k \in DOMAIN queues', k # key
           PROVE  /\ <<k[1], k[2]>> \in PlacesIn(generations)'
                  /\ \A j \in DOMAIN queues'[k] : Waits(queues[k][j], k)'
                  /\ DOMAIN queues'[k] = 1 .. Len(queues'[k]) /\ Len(queues'[k]) \in Nat
      <4>1. /\ k \in DOMAIN queues /\ queues'[k] = queues[k]
            /\ PlacesIn(generations)' = PlacesIn(generations)
        BY <1>1, <3>6, <3>10
      <4>2. /\ <<k[1], k[2]>> \in PlacesIn(generations)
            /\ \A j \in DOMAIN queues[k] : Waits(queues[k][j], k)
            /\ DOMAIN queues[k] = 1 .. Len(queues[k]) /\ Len(queues[k]) \in Nat
        BY <4>1 DEF GamesInv, QueuesInv
      <4> QED
        BY <3>5, <4>1, <4>2
    <3>11. /\ <<key[1], key[2]>> \in PlacesIn(generations)'
           /\ \A j \in DOMAIN queues'[key] :
                  \/ queues'[key][j] = entry
                  \/ queues'[key][j] = queues[key][j] /\ Waits(queues[key][j], key)'
           /\ DOMAIN queues'[key] = 1 .. Len(queues'[key]) /\ Len(queues'[key]) \in Nat
      <4>1. PlacesIn(generations)' = PlacesIn(generations)
        BY <1>1
      <4>2. \A j \in DOMAIN queues[key] : Waits(queues[key][j], key)
        BY <2>2 DEF GamesInv, QueuesInv
      <4>3. \A j \in 1 .. Len(queues[key]) + 1 :
                j = Len(queues[key]) + 1 \/ j \in 1 .. Len(queues[key])
        BY <3>7
      <4> QED
        BY <2>2, <3>5, <3>6, <3>7, <3>8, <3>9, <4>1, <4>2, <4>3
    <3>12. \A k \in DOMAIN queues' : \A j \in DOMAIN queues'[k] : Waits(queues[k][j], k)'
      <4>1. ASSUME NEW k \in DOMAIN queues', NEW j \in DOMAIN queues'[k]
            PROVE  Waits(queues[k][j], k)'
        <5>1. CASE k # key
          BY <3>10, <5>1
        <5>2. CASE k = key
          BY <3>4, <3>11, <5>2 DEF Waits
        <5> QED
          BY <5>1, <5>2
      <4> QED
        BY <4>1
    <3> QED
      BY <3>10, <3>11, <3>12 DEF QueuesInv
  <2> QED
    BY <2>1, <2>2
<1> QED
  BY <1>2, <1>3, <1>4 DEF GamesInv

(* A battle of two who queued.                                             *)
LEMMA PlacesAreNumbered ==
  ASSUME MetagamesAssumption, GamesInv, NEW place, <<place[1], place[2]>> \in PlacesIn(generations)
  PROVE  /\ place[1] \in Nat /\ place[2] \in Nat
         /\ MetagameAt(generations, place).generation = place[1]
         /\ MetagameAt(generations, place).idx = place[2]
<1>1. PICK g \in Indices(generations) :
          <<place[1], place[2]>> \in {<<g, i>> : i \in Indices(At(generations, g))}
  BY DEF PlacesIn
<1>2. PICK i \in Indices(At(generations, g)) : <<place[1], place[2]>> = <<g, i>>
  BY <1>1
<1>3. place[1] = g /\ place[2] = i
  BY <1>2
<1>5. Numbered(generations)
  <2>1. stage \in {"banned"} \cup Serving \/ generations = <<>> \/ generations = AsRead
    BY DEF GamesInv, ReadInv, Starting
  <2>2. Numbered(AsRead) /\ Numbered(AsBanned)
    BY ReadNumbers, BansChangeNoNumber
  <2>3. generations # <<>>
    BY DEF Indices
  <2> QED
    BY <2>1, <2>2, <2>3 DEF GamesInv, ReadInv
<1>6. g \in Nat /\ i \in Nat
  BY <1>5 DEF Numbered, Indices
<1>7. MetagameAt(generations, place) = At(At(generations, g), i)
  BY <1>3 DEF MetagameAt
<1> QED
  BY <1>3, <1>5, <1>6, <1>7 DEF Numbered

LEMMA Matching ==
  ASSUME MetagamesAssumption, GamesInv, NEW key \in DOMAIN queues, StartMatches(key)
  PROVE  GamesInv'
<1> DEFINE metagame == MetagameAt(generations, key)
           q == queues[key]
<1>1. /\ stage = "run" /\ UNCHANGED rules /\ posted' = "" /\ offer' = offer /\ joined' = joined
      /\ generations' = generations /\ stage' = stage /\ list' = list /\ clauseList' = clauseList
      /\ queues' = [queues EXCEPT ![key] = <<>>]
  <2>1. Len(<<>>) = 0 /\ ~(0 > 1)
    OBVIOUS
  <2> QED
    BY <2>1, OnlyWhileRunning DEF StartMatches, rules
<1>2. /\ <<key[1], key[2]>> \in PlacesIn(generations)
      /\ \A k \in DOMAIN q : Waits(q[k], key)
      /\ DOMAIN q = 1 .. Len(q) /\ Len(q) \in Nat
  BY DEF GamesInv, QueuesInv
<1>3. /\ key[1] \in Nat /\ key[2] \in Nat /\ key[2] # -1
      /\ metagame.generation = key[1] /\ metagame.idx = key[2]
  BY <1>2, PlacesAreNumbered
<1>4. list = generations
  BY <1>1 DEF GamesInv, ReadInv, Serving
<1> DEFINE Chosen(order) ==
        [players |-> [k \in 1 .. 2 |-> q[order[k]].client],
         teams |-> [k \in 1 .. 2 |-> q[order[k]].team],
         generation |-> metagame.generation,
         partySize |-> metagame.partySize,
         teamLength |-> metagame.teamLength,
         clauses |-> metagame.clauses,
         timer |-> metagame.timer,
         metagame |-> metagame.idx,
         rated |-> key[3],
         agreed |-> AgreedBy(key[1], key[2])]
<1>5. /\ Len(q) > 1
      /\ \E order \in {<<1, 2>>, <<2, 1>>} : fights' = Chosen(order)
  <2>1. metagame = At(At(generations, key[1]), key[2])
    BY DEF MetagameAt
  <2> QED
    BY <2>1 DEF StartMatches
<1>6. PICK order \in {<<1, 2>>, <<2, 1>>} : fights' = Chosen(order)
  BY <1>5
<1>7. \A k \in 1 .. 2 : order[k] \in DOMAIN q
  BY <1>2, <1>5
<1>8. \A k \in 1 .. 2 : Waits(q[order[k]], key)
  BY <1>2, <1>7
<1>9. AgreedBy(key[1], key[2]) =
          [generation |-> key[1], metagame |-> key[2], partySize |-> metagame.partySize,
           teamLength |-> metagame.teamLength, clauses |-> {}, timer |-> Off]
  BY <1>4 DEF AgreedBy, MetagameAt
<1>10. /\ fights'.generation = key[1] /\ fights'.metagame = key[2]
       /\ fights'.partySize = metagame.partySize /\ fights'.teamLength = metagame.teamLength
       /\ fights'.clauses = metagame.clauses /\ fights'.timer = metagame.timer
       /\ fights'.rated = key[3]
       /\ \A k \in 1 .. 2 : fights'.teams[k] = q[order[k]].team
                             /\ fights'.players[k] = q[order[k]].client
  BY <1>3, <1>6
<1>11. /\ fights'.agreed.generation = key[1] /\ fights'.agreed.metagame = key[2]
       /\ fights'.agreed.partySize = metagame.partySize
       /\ fights'.agreed.teamLength = metagame.teamLength
  BY <1>6, <1>9
<1> HIDE DEF q
<1>12. At(At(list', key[1]), key[2]) = metagame
  BY <1>1, <1>4 DEF MetagameAt
<1>13. \A k \in 1 .. 2 :
           Allowed(fights'.teams[k], metagame.teamLength, metagame.clauses, metagame.bans)
  BY <1>8, <1>10 DEF Waits, Fits, ValidateTeam, Allowed
<1> HIDE DEF metagame
<1>14. PlayedAsAgreed'
  BY <1>1, <1>3, <1>10, <1>11, <1>12, <1>13 DEF PlayedAsAgreed
<1>15. FightInv'
  <2>1. LadderOf(fights)' = metagame.id
    BY <1>1, <1>4, <1>10, <1>12 DEF LadderOf
  <2>2. key[3] => \A k \in 1 .. 2 : <<fights'.players[k], metagame.id>> \in joined
    BY <1>8, <1>10 DEF Waits, metagame
  <2>3. PlacesIn(generations)' = PlacesIn(generations)
    BY <1>1
  <2> QED
    BY <1>1, <1>2, <1>3, <1>10, <1>11, <1>14, <2>1, <2>2, <2>3 DEF FightInv
<1>16. QueuesInv'
  <2>1. DOMAIN queues' = DOMAIN queues /\ queues'[key] = <<>>
        /\ \A k \in DOMAIN queues : k # key => queues'[k] = queues[k]
    BY <1>1
  <2>2. DOMAIN <<>> = {} /\ 1 .. Len(<<>>) = {} /\ Len(<<>>) \in Nat
    OBVIOUS
  <2>3. PlacesIn(generations)' = PlacesIn(generations)
    BY <1>1
  <2>4. ASSUME NEW k \in DOMAIN queues', k # key
        PROVE  /\ <<k[1], k[2]>> \in PlacesIn(generations)'
               /\ \A j \in DOMAIN queues'[k] : Waits(queues[k][j], k)'
               /\ DOMAIN queues'[k] = 1 .. Len(queues'[k]) /\ Len(queues'[k]) \in Nat
    <3>1. k \in DOMAIN queues /\ queues'[k] = queues[k]
      BY <2>1, <2>4
    <3> QED
      BY <1>1, <2>3, <3>1 DEF GamesInv, QueuesInv, Waits
  <2>5. /\ <<key[1], key[2]>> \in PlacesIn(generations)'
        /\ \A j \in DOMAIN queues'[key] : Waits(queues[key][j], key)'
        /\ DOMAIN queues'[key] = 1 .. Len(queues'[key]) /\ Len(queues'[key]) \in Nat
    BY <1>2, <2>1, <2>2, <2>3
  <2> QED
    BY <2>4, <2>5 DEF QueuesInv
<1>17. ReadInv' /\ EmptyUntilRun'
  BY <1>1, RulesStay
<1>18. OfferInv'
  BY <1>1, OfferStays DEF GamesInv
<1> QED
  BY <1>15, <1>16, <1>17, <1>18 DEF GamesInv

(* The thread that stops at a queue that is NULL touches nothing else.     *)
LEMMA Meeting ==
  ASSUME GamesInv, MeetNull
  PROVE  GamesInv'
<1>1. /\ UNCHANGED rules /\ stage = "run" /\ queues' = queues /\ joined' = joined
      /\ offer' = offer /\ fights' = fights /\ posted' = posted
  BY OnlyWhileRunning DEF MeetNull
<1>2. /\ stage' = stage /\ generations' = generations /\ list' = list
      /\ clauseList' = clauseList /\ ladders' = ladders
  BY <1>1 DEF rules
<1>3. ReadInv' /\ EmptyUntilRun'
  BY <1>1, RulesStay
<1>4. QueuesInv'
  BY <1>1, <1>2, QueuesStay DEF GamesInv
<1>5. OfferInv'
  BY <1>1, <1>2, OfferStays DEF GamesInv
<1>6. PlayedAsAgreed => PlayedAsAgreed'
  BY <1>1, <1>2, PlayedStays
<1>7. FightInv'
  BY <1>1, <1>2, <1>6 DEF GamesInv, FightInv, LadderOf
<1> QED
  BY <1>3, <1>4, <1>5, <1>7 DEF GamesInv

(* The ladder that a rated battle is posted to.                            *)
LEMMA Posting ==
  ASSUME GamesInv, InformResult
  PROVE  GamesInv'
<1>1. /\ UNCHANGED rules /\ stage = "run" /\ queues' = queues /\ joined' = joined
      /\ offer' = offer /\ fights' = fights /\ fights # NoFight /\ fights.rated
      /\ posted' = LadderOf(fights)
  BY OnlyWhileRunning DEF InformResult
<1>2. /\ stage' = stage /\ generations' = generations /\ list' = list
      /\ clauseList' = clauseList /\ ladders' = ladders
  BY <1>1 DEF rules
<1>3. ReadInv' /\ EmptyUntilRun'
  BY <1>1, RulesStay
<1>4. QueuesInv'
  BY <1>1, <1>2, QueuesStay DEF GamesInv
<1>5. OfferInv'
  BY <1>1, <1>2, OfferStays DEF GamesInv
<1>6. /\ fights.agreed.metagame # -1 /\ fights.metagame = fights.agreed.metagame
      /\ fights.generation = fights.agreed.generation
      /\ <<fights.generation, fights.metagame>> \in PlacesIn(generations)
      /\ \A k \in 1 .. 2 : <<fights.players[k], LadderOf(fights)>> \in joined
      /\ PlayedAsAgreed
  BY <1>1 DEF GamesInv, FightInv
<1>7. list = generations
      /\ ladders = {MetagameAt(generations, place).id : place \in PlacesIn(generations)}
  BY <1>1 DEF GamesInv, ReadInv, Serving
<1>8. LadderOf(fights) = MetagameAt(generations, <<fights.generation, fights.metagame>>).id
  BY DEF LadderOf, MetagameAt
<1>9. LadderOf(fights) \in ladders
  BY <1>6, <1>7, <1>8
<1>10. LadderOf(fights) = At(At(list, fights.agreed.generation), fights.agreed.metagame).id
  BY <1>6, <1>7 DEF LadderOf
<1>11. PlayedAsAgreed'
  BY <1>1, <1>2, <1>6, <1>9, <1>10 DEF PlayedAsAgreed
<1>12. LadderOf(fights)' = LadderOf(fights)
  BY <1>1, <1>2 DEF LadderOf
<1>13. FightInv'
  BY <1>1, <1>2, <1>6, <1>11, <1>12 DEF FightInv
<1> QED
  BY <1>3, <1>4, <1>5, <1>13 DEF GamesInv

(* Challenges.                                                             *)
LEMMA Challenging ==
  ASSUME MetagamesAssumption, GamesInv, NEW terms \in Terms, HandleChallenge(terms)
  PROVE  GamesInv'
<1>1. /\ UNCHANGED rules /\ stage = "run" /\ queues' = queues /\ joined' = joined
      /\ fights' = NoFight /\ offer' = [terms |-> terms, team |-> <<>>]
  BY Zenon DEF HandleChallenge, Idle, NoOffer
<1>2. stage' = stage /\ generations' = generations
  BY <1>1 DEF rules
<1>3. ReadInv' /\ EmptyUntilRun'
  BY <1>1, RulesStay
<1>4. QueuesInv'
  BY <1>1, <1>2, QueuesStay DEF GamesInv
<1>5. Numbered(generations)
  BY <1>1, BansChangeNoNumber DEF GamesInv, ReadInv, Serving
<1>6. Made(terms)
  <2>1. /\ terms.generation \in Nat /\ terms.metagame \in Int
        /\ terms.generation < Len(generations) /\ terms.teamLength >= 1
        /\ terms.metagame >= -1 /\ terms.metagame < Len(At(generations, terms.generation))
    <3>1. terms.generation \in Nat /\ terms.metagame \in Int
      BY DEF MetagamesAssumption
    <3>2. /\ terms.generation < Len(generations) /\ terms.teamLength >= 1
          /\ terms.metagame >= -1 /\ terms.metagame < Len(At(generations, terms.generation))
      BY Zenon DEF HandleChallenge
    <3> QED
      BY <3>1, <3>2, Zenon
  <2>2. terms.generation \in Indices(generations)
    BY <1>5, <2>1 DEF Numbered, Indices
  <2>3. Len(At(generations, terms.generation)) \in Nat
    BY <1>5, <2>2 DEF Numbered
  <2>4. terms.metagame \in {-1} \cup Indices(At(generations, terms.generation))
    BY <2>1, <2>3 DEF Indices
  <2> QED
    BY <2>1, <2>2, <2>4, Zenon DEF Made
<1>7. Made(terms)'
  BY <1>2, <1>6 DEF Made
<1>8. OfferInv'
  BY <1>1, <1>2, <1>7 DEF OfferInv
<1>9. FightInv'
  BY <1>1 DEF FightInv
<1> QED
  BY <1>3, <1>4, <1>8, <1>9, ZenonT(30) DEF GamesInv

(* What the terms come to is what the list and the clauses that clients    *)
(* have been told make of them.                                            *)
LEMMA TermsComeTo ==
  ASSUME MetagamesAssumption, GamesInv, stage = "run", NEW terms, Made(terms)
  PROVE  /\ terms.metagame = -1 =>
                /\ FetchClauses(terms) =
                       {At(clauseList, b) : b \in terms.clauses \cap Indices(clauseList)}
                /\ GetMetagameBans(terms.generation, terms.metagame) = {}
                /\ TimerFor(terms) = terms.timer
         /\ terms.metagame # -1 =>
                LET told == At(At(list, terms.generation), terms.metagame)
                IN  /\ FetchClauses(terms) = told.clauses
                    /\ GetMetagameBans(terms.generation, terms.metagame) = told.bans
                    /\ TimerFor(terms) = told.timer
<1>1. /\ list = generations /\ clauseList = ClauseNames
      /\ Len(ClauseNames) \in Nat
      /\ terms.clauses \subseteq Nat
      /\ terms.metagame # -1 => terms.timer = Off
      /\ terms.metagame = -1 \/ terms.metagame \in Nat
  <2>1. Numbered(generations)
    BY BansChangeNoNumber DEF GamesInv, ReadInv, Serving
  <2>2. terms.metagame = -1 \/ terms.metagame \in Nat
    BY <2>1 DEF Made, Numbered, Indices
  <2> QED
    BY <2>2 DEF GamesInv, ReadInv, Serving, Made, MetagamesAssumption
<1>2. CASE terms.metagame = -1
  <2>1. {x \in terms.clauses : x < Len(clauseList)} = terms.clauses \cap Indices(clauseList)
    BY <1>1 DEF Indices
  <2>2. FetchClauses(terms) =
            {At(clauseList, b) : b \in terms.clauses \cap Indices(clauseList)}
    BY <1>2, <2>1 DEF FetchClauses, NamedClauses
  <2>3. GetMetagameBans(terms.generation, terms.metagame) = {} /\ TimerFor(terms) = terms.timer
    BY <1>2 DEF GetMetagameBans, TimerFor
  <2> QED
    BY <1>2, <2>2, <2>3
<1>3. CASE terms.metagame # -1
  <2> DEFINE told == At(At(list, terms.generation), terms.metagame)
  <2>1. told = At(At(generations, terms.generation), terms.metagame)
    BY <1>1
  <2>2. terms.timer = Off /\ terms.metagame >= 0 /\ ~(terms.metagame < 0)
    BY <1>1, <1>3
  <2> HIDE DEF told
  <2>3. FetchClauses(terms) = told.clauses
    BY <1>3, <2>1 DEF FetchClauses, MetagameClauses
  <2>4. GetMetagameBans(terms.generation, terms.metagame) = told.bans
    BY <2>1, <2>2 DEF GetMetagameBans
  <2>5. TimerFor(terms) = told.timer
    BY <2>1, <2>2 DEF TimerFor
  <2> QED
    BY <1>3, <2>3, <2>4, <2>5 DEF told
<1> QED
  BY <1>2, <1>3

(* A team is cut to the length of the challenge before it is judged.       *)
LEMMA CutFits ==
  ASSUME MetagamesAssumption, Made(offer.terms), NEW team \in Teams
  PROVE  Len(CutTeam(team)) <= offer.terms.teamLength
<1>1. team \in Seq(Nat) /\ Len(team) \in Nat
  BY DEF MetagamesAssumption
<1>2. offer.terms.teamLength \in Int /\ offer.terms.teamLength >= 1
  BY DEF MetagamesAssumption, Made
<1> DEFINE n == IF Len(team) > offer.terms.teamLength THEN offer.terms.teamLength ELSE Len(team)
<1>3. n \in 0 .. Len(team) /\ n <= offer.terms.teamLength
  BY <1>1, <1>2
<1>4. CutTeam(team) = SubSeq(team, 1, n)
  BY DEF CutTeam
<1> HIDE DEF n
<1>5. Len(SubSeq(team, 1, n)) = n
  BY <1>1, <1>3, SubSeqProperties
<1> QED
  BY <1>3, <1>4, <1>5

LEMMA CutIsAgreeable ==
  ASSUME MetagamesAssumption, Made(offer.terms), NEW team \in Teams, Passes(team)
  PROVE  Agreeable(offer.terms, CutTeam(team))
BY CutFits DEF Passes, Agreeable

LEMMA Accepting ==
  ASSUME MetagamesAssumption, GamesInv, NEW team \in Teams, AcceptWith(team)
  PROVE  GamesInv'
<1>1. /\ UNCHANGED rules /\ queues' = queues /\ joined' = joined
      /\ fights' = fights /\ posted' = posted /\ offer # NoOffer
      /\ offer' = [offer EXCEPT !.team = CutTeam(team)] /\ Passes(team)
  BY DEF AcceptWith
<1>2. /\ stage' = stage /\ generations' = generations /\ list' = list
      /\ clauseList' = clauseList /\ ladders' = ladders
  BY <1>1 DEF rules
<1>3. /\ stage = "run" /\ Made(offer.terms)
      /\ offer = [terms |-> offer.terms, team |-> offer.team]
  BY <1>1 DEF GamesInv, OfferInv
<1>4. ReadInv' /\ EmptyUntilRun'
  BY <1>1, <1>3, RulesStay
<1>5. QueuesInv'
  BY <1>1, <1>2, QueuesStay DEF GamesInv
<1>6. Agreeable(offer.terms, CutTeam(team))
  BY <1>1, <1>3, CutIsAgreeable
<1>7. offer' = [terms |-> offer.terms, team |-> CutTeam(team)]
  BY <1>1, <1>3
<1>8. ASSUME NEW terms, NEW cut
      PROVE  /\ Made(terms)' <=> Made(terms)
             /\ Agreeable(terms, cut)' <=> Agreeable(terms, cut)
  BY <1>2 DEF Made, Agreeable, FetchClauses, NamedClauses, MetagameClauses, GetMetagameBans
<1>9. OfferInv'
  <2>1. offer'.terms = offer.terms /\ offer'.team = CutTeam(team)
        /\ offer' = [terms |-> offer'.terms, team |-> offer'.team]
    BY <1>7
  <2>2. Made(offer.terms)' /\ Agreeable(offer.terms, offer.team)'
    BY <1>3, <1>6, <1>8, <2>1 DEF Made, Agreeable
  <2> QED
    BY <1>2, <1>3, <2>1, <2>2 DEF OfferInv
<1>10. PlayedAsAgreed => PlayedAsAgreed'
  BY <1>1, <1>2, PlayedStays
<1>11. FightInv'
  BY <1>1, <1>2, <1>10 DEF GamesInv, FightInv, LadderOf
<1> QED
  BY <1>4, <1>5, <1>9, <1>11, Zenon DEF GamesInv

LEMMA Beginning ==
  ASSUME MetagamesAssumption, GamesInv, NEW team \in Teams, BeginWith(team)
  PROVE  GamesInv'
<1> DEFINE terms == offer.terms
           told == At(At(list, terms.generation), terms.metagame)
           cut == CutTeam(team)
<1>1. /\ UNCHANGED rules /\ queues' = queues /\ joined' = joined
      /\ posted' = "" /\ offer # NoOffer /\ offer.team # <<>>
      /\ offer' = NoOffer /\ Passes(team)
      /\ fights' = [players |-> <<Host, Guest>>,
                    teams |-> <<cut, offer.team>>,
                    generation |-> terms.generation,
                    partySize |-> terms.partySize,
                    teamLength |-> terms.teamLength,
                    clauses |-> FetchClauses(terms),
                    timer |-> TimerFor(terms),
                    metagame |-> -1,
                    rated |-> FALSE,
                    agreed |-> terms]
  BY DEF BeginWith
<1>2. /\ stage' = stage /\ generations' = generations /\ list' = list
      /\ clauseList' = clauseList /\ ladders' = ladders
  BY <1>1 DEF rules
<1>3. stage = "run" /\ Made(terms) /\ Agreeable(terms, offer.team)
  BY <1>1 DEF GamesInv, OfferInv
<1>4. ReadInv' /\ EmptyUntilRun'
  BY <1>1, <1>3, RulesStay
<1>5. QueuesInv'
  BY <1>1, <1>2, QueuesStay DEF GamesInv
<1>6. OfferInv'
  BY <1>1 DEF OfferInv
<1>7. Agreeable(terms, cut)
  BY <1>1, <1>3, CutIsAgreeable
<1> HIDE DEF terms, cut
<1>8. /\ fights'.generation = terms.generation /\ fights'.partySize = terms.partySize
      /\ fights'.teamLength = terms.teamLength /\ fights'.clauses = FetchClauses(terms)
      /\ fights'.timer = TimerFor(terms) /\ fights'.rated = FALSE /\ fights'.agreed = terms
      /\ fights'.teams[1] = cut /\ fights'.teams[2] = offer.team
  BY <1>1
<1>9. /\ Allowed(cut, terms.teamLength, FetchClauses(terms),
                 GetMetagameBans(terms.generation, terms.metagame))
      /\ Allowed(offer.team, terms.teamLength, FetchClauses(terms),
                 GetMetagameBans(terms.generation, terms.metagame))
  BY <1>3, <1>7 DEF Agreeable, ValidateTeam, Allowed
<1>10. \A k \in 1 .. 2 :
           Allowed(fights'.teams[k], terms.teamLength, FetchClauses(terms),
                   GetMetagameBans(terms.generation, terms.metagame))
  BY <1>8, <1>9
<1> DEFINE named == {At(clauseList, b) : b \in terms.clauses \cap Indices(clauseList)}
<1>11. /\ terms.metagame = -1 =>
              /\ FetchClauses(terms) = named
              /\ GetMetagameBans(terms.generation, terms.metagame) = {}
              /\ TimerFor(terms) = terms.timer
       /\ terms.metagame # -1 =>
              /\ FetchClauses(terms) = told.clauses
              /\ GetMetagameBans(terms.generation, terms.metagame) = told.bans
              /\ TimerFor(terms) = told.timer
  BY <1>3, TermsComeTo
<1>12. /\ At(At(list', terms.generation), terms.metagame) = told
       /\ {At(clauseList', b) : b \in terms.clauses \cap Indices(clauseList')} = named
  BY <1>2
<1> HIDE DEF told, named
<1>13. PlayedAsAgreed'
  BY <1>1, <1>8, <1>10, <1>11, <1>12 DEF PlayedAsAgreed
<1>14. FightInv'
  BY <1>1, <1>2, <1>3, <1>8, <1>13 DEF FightInv
<1> QED
  BY <1>4, <1>5, <1>6, <1>14, Zenon DEF GamesInv

(* Every step of the server keeps what is so of its rules, its queues, the *)
(* challenge and the battle.                                               *)
THEOREM GamesInvariant == MetagamesSpec => []GamesInv
<1> USE MetagamesAssumption
<1>1. MetagamesInit => GamesInv
  BY InitGames
<1>2. GamesInv /\ [MetagamesNext]_gameVars => GamesInv'
  <2> SUFFICES ASSUME GamesInv, [MetagamesNext]_gameVars
               PROVE  GamesInv'
    OBVIOUS
  <2>1. CASE ReadMetagames \/ InitialiseMetagames \/ InitialiseMatchmaking \/ InitialiseClauses
    BY <2>1, FileRead, BansRead, QueuesMade, ClausesRead
  <2>2. CASE \E c \in {Host, Guest}, g \in 0 .. Len(generations), i \in 0 .. 1,
                rated \in BOOLEAN, team \in Teams : QueueClient(c, g, i, rated, team)
    BY <2>2, Queueing
  <2>3. CASE \E key \in DOMAIN queues : StartMatches(key)
    BY <2>3, Matching
  <2>4. CASE MeetNull \/ InformResult
    BY <2>4, Meeting, Posting
  <2>5. CASE \E terms \in Terms : HandleChallenge(terms)
    BY <2>5, Challenging
  <2>6. CASE \E team \in Teams : AcceptWith(team) \/ BeginWith(team)
    BY <2>6, Accepting, Beginning
  <2>7. CASE UNCHANGED gameVars
    <3>1. /\ stage' = stage /\ generations' = generations /\ list' = list
          /\ clauseList' = clauseList /\ ladders' = ladders /\ queues' = queues
          /\ wanted' = wanted /\ joined' = joined /\ offer' = offer /\ fights' = fights
          /\ posted' = posted
      BY <2>7 DEF gameVars
    <3>2. ReadInv' /\ EmptyUntilRun'
      BY <3>1 DEF GamesInv, ReadInv, EmptyUntilRun, NothingYet, Starting, Serving
    <3>3. QueuesInv' /\ OfferInv'
      BY <3>1, QueuesStay, OfferStays DEF GamesInv
    <3>4. PlayedAsAgreed => PlayedAsAgreed'
      BY <3>1, PlayedStays
    <3>5. FightInv'
      BY <3>1, <3>4 DEF GamesInv, FightInv, LadderOf
    <3> QED
      BY <3>2, <3>3, <3>5, Zenon DEF GamesInv
  <2> QED
    BY <2>1, <2>2, <2>3, <2>4, <2>5, <2>6, <2>7, Zenon DEF MetagamesNext
<1> QED
  BY <1>1, <1>2, PTL DEF MetagamesSpec

(* A battle is played by the rules that its players agreed to, and a rated *)
(* one counts for the ladder of its metagame, whatever the metagames are.  *)
THEOREM PlayedAsAgreedHolds == MetagamesSpec => []PlayedAsAgreed
<1>1. GamesInv => PlayedAsAgreed
  BY DEF GamesInv, FightInv, PlayedAsAgreed
<1> QED
  BY <1>1, GamesInvariant, PTL

-----------------------------------------------------------------------------
(* Channels: bans, for every number of clients, flags and modes.           *)

LeavesSoon(c) == \E t \in Thread : pc[t] = "parting" /\ job[t].target = c

(* The strengthening: nobody is banned while he enters, unless the one who *)
(* banned him is about to make him leave, which he cannot do before the    *)
(* channel's mutex is given back; and who was not found online when he was *)
(* banned is not, unless he logs in late.                                  *)
BanInv ==
    /\ DOMAIN pc = Thread /\ DOMAIN job = Thread /\ DOMAIN bans = Client
    /\ inside \subseteq Client
    /\ \A c \in Client : pc[c] \in {"unbanning", "entering"} => upgrade = c
    /\ \A c \in Client : pc[c] = "off" => c \in Late
    /\ \A s \in Client :
            pc[s] = "banningOffline" => job[s].target \in Late \/ job[s].target \notin online
    /\ \A c \in Client \ Late :
            /\ c \in online /\ bans[c] # None /\ c \notin expired
            /\ c \in inside \/ pc[c] = "entering"
            => LeavesSoon(c)

LEMMA InitBan == Init => BanInv
  BY DEF Init, BanInv, LeavesSoon, NoJob, Thread

LEMMA NextBan == BanInv /\ [Next]_vars => BanInv'
<1> SUFFICES ASSUME BanInv, [Next]_vars
             PROVE  BanInv'
  OBVIOUS
<1>n. /\ None \notin Thread
      /\ Client \subseteq Thread
  BY ChannelsAssumption DEF Thread
<1> USE <1>n DEF BanInv
<1>1. ASSUME NEW c \in Client, LogIn(c)
      PROVE  BanInv'
  <2>1. c \in Late
    BY <1>1 DEF LogIn, Goes
  <2>2. \A d \in Client \ Late : LeavesSoon(d) => LeavesSoon(d)'
    BY <1>1 DEF LogIn, Goes, LeavesSoon
  <2> QED
    BY <1>1, <2>1, <2>2 DEF LogIn, Goes, registry, channel, locks
<1>2. ASSUME NEW c \in Client, BeginJoin(c)
      PROVE  BanInv'
  <2>1. \A d \in Client : LeavesSoon(d) => LeavesSoon(d)'
    BY <1>2 DEF BeginJoin, Begins, Goes, LeavesSoon
  <2> QED
    BY <1>2, <2>1 DEF BeginJoin, Begins, Goes, registry, channel
<1>3. ASSUME NEW c \in Client, RemoveBan(c)
      PROVE  BanInv'
  <2>1. \A d \in Client : LeavesSoon(d) => LeavesSoon(d)'
    BY <1>3 DEF RemoveBan, Goes, LeavesSoon
  <2> QED
    BY <1>3, <2>1 DEF RemoveBan, Goes, channel, locks
<1>4. ASSUME NEW c \in Client, Enter(c)
      PROVE  BanInv'
  <2>1. \A d \in Client : LeavesSoon(d) => LeavesSoon(d)'
    BY <1>4 DEF Enter, Goes, LeavesSoon
  <2> QED
    BY <1>4, <2>1 DEF Enter, Goes, registry
<1>5. ASSUME NEW c \in Client, List(c)
      PROVE  BanInv'
  <2>1. \A d \in Client : LeavesSoon(d) => LeavesSoon(d)'
    BY <1>5 DEF List, Ends, Goes, LeavesSoon
  <2> QED
    BY <1>5, <2>1 DEF List, Ends, Goes, registry, channel, locks
<1>6. ASSUME NEW c \in Client, NEW t \in Thread,
             BeginPart(c) \/ Disconnect(t, c)
      PROVE  BanInv'
  <2>1. \A d \in Client : LeavesSoon(d) => LeavesSoon(d)'
    BY <1>6 DEF BeginPart, Disconnect, Begins, Goes, LeavesSoon
  <2> QED
    BY <1>6, <2>1 DEF BeginPart, Disconnect, Begins, Goes, registry, channel, locks
<1>7. ASSUME NEW t \in Thread, Part(t)
      PROVE  BanInv'
  <2>1. \A d \in Client : d # job[t].target /\ LeavesSoon(d) => LeavesSoon(d)'
    BY <1>7 DEF Part, Goes, LeavesSoon
  <2>2. \A d \in Client : pc'[d] # "entering"
    BY <1>7 DEF Part, Goes
  <2> QED
    BY <1>7, <2>1, <2>2 DEF Part, Goes, registry, locks
<1>8. ASSUME NEW t \in Thread, Unlist(t) \/ Clear(t) \/ Erase(t)
      PROVE  BanInv'
  <2>1. \A d \in Client : LeavesSoon(d) => LeavesSoon(d)'
    BY <1>8 DEF Unlist, Clear, Erase, Ends, Goes, LeavesSoon
  <2> QED
    BY <1>8, <2>1 DEF Unlist, Clear, Erase, Ends, Goes, registry, channel, locks
<1>9. ASSUME NEW s \in Client, NEW u \in Client,
             \/ \E mode \in Modes \cap {"a", "o", "v", "b"}, on \in BOOLEAN :
                    SetUserMode(s, u, mode, on)
             \/ \E mode \in Modes, on \in BOOLEAN : SetChannelMode(s, mode, on)
      PROVE  BanInv'
  <2>1. \A d \in Client : LeavesSoon(d) => LeavesSoon(d)'
    BY <1>9 DEF SetUserMode, SetChannelMode, Begins, Goes, LeavesSoon
  <2> QED
    BY <1>9, <2>1 DEF SetUserMode, SetChannelMode, Begins, Goes, registry, channel, locks
<1>10. ASSUME NEW s \in Client, NEW u \in Client, Kick(s, u) \/ Ban(s, u) \/ Unban(s, u)
       PROVE  BanInv'
  <2>1. \A d \in Client : LeavesSoon(d) => LeavesSoon(d)'
    BY <1>10 DEF Kick, Ban, Unban, Begins, Goes, LeavesSoon
  <2> QED
    BY <1>10, <2>1 DEF Kick, Ban, Unban, Begins, Goes, registry, channel, locks
<1>11. ASSUME NEW s \in Client, WriteFlags(s) \/ TargetLeft(s) \/ CommitFlags(s)
       PROVE  BanInv'
  <2>1. \A d \in Client : LeavesSoon(d) => LeavesSoon(d)'
    BY <1>11 DEF WriteFlags, TargetLeft, CommitFlags, Ends, Goes, LeavesSoon
  <2> QED
    BY <1>11, <2>1 DEF WriteFlags, TargetLeft, CommitFlags, Ends, Goes, registry, channel, locks
<1>12. ASSUME NEW s \in Client, WriteModes(s) \/ CommitModes(s) \/ CommitUnban(s)
       PROVE  BanInv'
  <2>1. \A d \in Client : LeavesSoon(d) => LeavesSoon(d)'
    BY <1>12 DEF WriteModes, CommitModes, CommitUnban, Ends, Goes, LeavesSoon
  <2> QED
    BY <1>12, <2>1 DEF WriteModes, CommitModes, CommitUnban, Ends, Goes, registry, channel, locks
<1>13. ASSUME NEW s \in Client, CommitBan(s)
       PROVE  BanInv'
  <2>1. \A d \in Client : LeavesSoon(d) => LeavesSoon(d)'
    BY <1>13 DEF CommitBan, Ends, Goes, LeavesSoon
  <2>2. pc[s] = "banning" => pc'[s] = "parting" /\ job' = job
    BY <1>13 DEF CommitBan, Ends, Goes
  <2>3. pc[s] = "banning" => LeavesSoon(job[s].target)'
    BY <2>2 DEF LeavesSoon
  <2>4. pc[s] = "banning" \/ pc[s] = "banningOffline"
    BY <1>13 DEF CommitBan, Ends, Goes
  <2> QED
    BY <1>13, <2>1, <2>3, <2>4 DEF CommitBan, Ends, Goes, registry, channel, locks
<1>14. ASSUME NEW u \in Client, Expire(u)
       PROVE  BanInv'
  <2>1. \A d \in Client : LeavesSoon(d) => LeavesSoon(d)'
    BY <1>14 DEF Expire, LeavesSoon
  <2> QED
    BY <1>14, <2>1 DEF Expire, channel, locks
<1>15. CASE UNCHANGED vars
  BY <1>15 DEF vars, LeavesSoon
<1> QED
  BY <1>1, <1>2, <1>3, <1>4, <1>5, <1>6, <1>7, <1>8, <1>9, <1>10, <1>11, <1>12, <1>13, <1>14,
     <1>15 DEF Next, Membership, Moderation

(* Whoever has been online since before he was banned is not in the        *)
(* channel, or is about to leave (handleBanMessage, Channel::join).        *)
THEOREM BansHold == Spec => []BannedAreOut
<1>1. BanInv => BannedAreOut
  BY ChannelsAssumption DEF BanInv, BannedAreOut, LeavesSoon
<1> QED
  BY InitBan, NextBan, <1>1, PTL DEF Spec

-----------------------------------------------------------------------------
(* Channels: what is known of the members, for every number of clients.    *)

(* Where the threads are, and with whom.                                   *)
JobsInv ==
    /\ DOMAIN pc = Thread /\ DOMAIN job = Thread
    /\ DOMAIN userFlags = Client /\ DOMAIN flags = Client
    /\ DOMAIN held = Client
    /\ inside \subseteq Client /\ listed \subseteq Client
    /\ online \subseteq Client
    /\ \A t \in Thread :
            pc[t] \in {"parting", "unlisting", "erasing", "writing", "committing",
                       "banning", "banningOffline", "unbanningOther"}
            => job[t].target \in Client

(* Whoever disconnects a client keeps its mutex until its list is clear,   *)
(* and a worker disconnects none but its own client.                       *)
CrewInv ==
    /\ pc[Sweeper] \in {"idle", "parting", "unlisting", "erasing"}
    /\ pc[Sweeper] \in {"parting", "unlisting"} => job[Sweeper].leaves
    /\ \A t \in Thread : pc[t] \in {"parting", "unlisting"} /\ job[t].leaves =>
            held[job[t].target] = t /\ (t # Sweeper => job[t].target = t)
    /\ \A s \in Client : pc[s] = "banning" => ~job[s].leaves
    /\ \A c \in Client : pc[c] = "off" => c \notin online

(* A flag that no mode gives or takes is where it was at first, in the     *)
(* registry, in the channel, and in what is read and written of the two.   *)
Kept == Flag \ {ModeFlag[m] : m \in Modes}
KeptFlag(f) ==
    /\ \A c \in Client : f \in userFlags[c] <=> f \in InitFlags[c]
    /\ \A c \in inside : f \in flags[c] <=> f \in InitFlags[c]
    /\ \A c \in Client : pc[c] \in {"unbanning", "entering"} =>
            (f \in job[c].set <=> f \in InitFlags[c])
    /\ \A s \in Client : pc[s] \in {"writing", "committing"} =>
            (f \in job[s].set <=> f \in InitFlags[job[s].target])

(* Where a client is whom nobody can kick: it is taken out of the channel  *)
(* by its own worker or by Sweeper, who finds it either listed and inside, *)
(* or on its way in and not yet listed, and then waits for no one.         *)
Joins(c) == pc[c] \in {"unbanning", "entering", "listing"}
Over(c) == pc[c] \in {"off", "erasing", "gone"}
Quits(c) == pc[c] = "unlisting" /\ job[c].target = c
SweeperParts(c) == pc[Sweeper] = "parting" /\ job[Sweeper].target = c
SweeperUnlists(c) == pc[Sweeper] = "unlisting" /\ job[Sweeper].target = c
Undisturbed(c) ==
    /\ \A s \in Client : pc[s] \in {"parting", "unlisting"} /\ job[s].target = c => s = c
    /\ \A s \in Client : pc[s] = "banning" => job[s].target # c
    /\ pc[c] \in {"unbanning", "entering"} \/ Quits(c) => c \notin inside
    /\ pc[c] = "listing" => c \in inside
    /\ Over(c) => c \notin inside /\ c \notin listed
    /\ SweeperParts(c) => c \in listed /\ ~Joins(c) /\ (~Quits(c) => c \in inside)
    /\ SweeperUnlists(c) => (c \in inside <=> pc[c] = "listing")
    /\ Joins(c) /\ ~SweeperUnlists(c) => c \notin listed
    /\ ~Joins(c) /\ ~Quits(c) /\ ~SweeperUnlists(c) => (c \in inside <=> c \in listed)

(* What one operator writes is what he commits next, for who is about to   *)
(* enter has read the registry, and nobody enters or leaves in between.    *)
Committing(c) == \E s \in Client : pc[s] = "committing" /\ job[s].target = c
Registered ==
    /\ \A s \in Client : pc[s] \in {"writing", "committing", "changing", "changed"}
            => "op" \in InitFlags[s]
    /\ \A c \in Client : pc[c] \in {"unbanning", "entering"}
            => c \notin inside /\ upgrade = c /\ job[c].set = userFlags[c]
    /\ \A s \in Client : pc[s] = "committing"
            => /\ s \in readers
               /\ job[s].target \in inside
               /\ flags[job[s].target] = job[s].set
    /\ \A s \in Client : pc[s] = "changed" => modes = job[s].set
    /\ \A c \in inside : flags[c] = userFlags[c] \/ Committing(c)
    /\ modes = channelFlags \/ \E s \in Client : pc[s] = "changed"

MembersInv ==
    /\ JobsInv /\ CrewInv
    /\ \A f \in Kept : KeptFlag(f)
    /\ "a" \notin Modes =>
            \A c \in Client : "protected" \in InitFlags[c] => Undisturbed(c)
    /\ OperatesAlone => Registered

-----------------------------------------------------------------------------
LEMMA NextJobs ==
  ASSUME JobsInv, [Next]_vars
  PROVE  JobsInv'
<1>n. None \notin Thread /\ Client \subseteq Thread /\ Sweeper \in Thread \ Client
  BY ChannelsAssumption DEF Thread
<1> USE <1>n DEF JobsInv, Begins, Goes, Ends, NoJob, channel, locks, registry
<1>1. ASSUME NEW c \in Client, LogIn(c)  PROVE JobsInv'
  BY <1>1 DEF LogIn
<1>2. ASSUME NEW c \in Client, BeginJoin(c)  PROVE JobsInv'
  BY <1>2 DEF BeginJoin
<1>3. ASSUME NEW c \in Client, RemoveBan(c)  PROVE JobsInv'
  BY <1>3 DEF RemoveBan
<1>4. ASSUME NEW c \in Client, Enter(c)  PROVE JobsInv'
  BY <1>4 DEF Enter
<1>5. ASSUME NEW c \in Client, List(c)  PROVE JobsInv'
  BY <1>5 DEF List
<1>6. ASSUME NEW c \in Client, BeginPart(c)  PROVE JobsInv'
  BY <1>6 DEF BeginPart
<1>7. ASSUME NEW t \in Thread, NEW c \in Client,
             Disconnect(t, c)
      PROVE  JobsInv'
  BY <1>7 DEF Disconnect
<1>8. ASSUME NEW t \in Thread, Part(t)  PROVE JobsInv'
  BY <1>8 DEF Part
<1>9. ASSUME NEW t \in Thread, Unlist(t)  PROVE JobsInv'
  BY <1>9 DEF Unlist
<1>10. ASSUME NEW t \in Thread, Clear(t)  PROVE JobsInv'
  BY <1>10 DEF Clear
<1>11. ASSUME NEW t \in Thread, Erase(t)  PROVE JobsInv'
  BY <1>11 DEF Erase
<1>12. ASSUME NEW s \in Client, NEW u \in Client, NEW mode \in Modes, NEW on \in BOOLEAN,
             SetUserMode(s, u, mode, on)
      PROVE  JobsInv'
  BY <1>12 DEF SetUserMode
<1>13. ASSUME NEW s \in Client, NEW mode \in Modes, NEW on \in BOOLEAN,
             SetChannelMode(s, mode, on)
      PROVE  JobsInv'
  BY <1>13 DEF SetChannelMode
<1>14. ASSUME NEW s \in Client, NEW u \in Client, Kick(s, u)  PROVE JobsInv'
  BY <1>14 DEF Kick
<1>15. ASSUME NEW s \in Client, NEW u \in Client, Ban(s, u)  PROVE JobsInv'
  BY <1>15 DEF Ban
<1>16. ASSUME NEW s \in Client, NEW u \in Client, Unban(s, u)  PROVE JobsInv'
  BY <1>16 DEF Unban
<1>17. ASSUME NEW s \in Client, WriteFlags(s)  PROVE JobsInv'
  BY <1>17 DEF WriteFlags
<1>18. ASSUME NEW s \in Client, TargetLeft(s)  PROVE JobsInv'
  BY <1>18 DEF TargetLeft
<1>19. ASSUME NEW s \in Client, CommitFlags(s)  PROVE JobsInv'
  BY <1>19 DEF CommitFlags
<1>20. ASSUME NEW s \in Client, WriteModes(s)  PROVE JobsInv'
  BY <1>20 DEF WriteModes
<1>21. ASSUME NEW s \in Client, CommitModes(s)  PROVE JobsInv'
  BY <1>21 DEF CommitModes
<1>22. ASSUME NEW s \in Client, CommitBan(s)  PROVE JobsInv'
  BY <1>22 DEF CommitBan
<1>23. ASSUME NEW s \in Client, CommitUnban(s)  PROVE JobsInv'
  BY <1>23 DEF CommitUnban
<1>24. ASSUME NEW u \in Client, Expire(u)  PROVE JobsInv'
  BY <1>24 DEF Expire
<1>25. CASE UNCHANGED vars
  BY <1>25 DEF vars
<1> HIDE DEF Begins, Goes, Ends, NoJob, channel, locks, registry
<1> QED
  BY <1>1, <1>2, <1>3, <1>4, <1>5, <1>6, <1>7, <1>8, <1>9, <1>10, <1>11,
     <1>12, <1>13, <1>14, <1>15, <1>16, <1>17, <1>18, <1>19, <1>20, <1>21,
     <1>22, <1>23, <1>24, <1>25 DEF Next, Membership, Moderation


LEMMA NextCrew ==
  ASSUME JobsInv, CrewInv, [Next]_vars
  PROVE  CrewInv'
<1>n. None \notin Thread /\ Client \subseteq Thread /\ Sweeper \in Thread \ Client
  BY ChannelsAssumption DEF Thread
<1> USE <1>n DEF JobsInv, CrewInv, Begins, Goes, Ends, NoJob, channel, locks,
                 registry
<1>1. ASSUME NEW c \in Client, LogIn(c)  PROVE CrewInv'
  BY <1>1 DEF LogIn
<1>2. ASSUME NEW c \in Client, BeginJoin(c)  PROVE CrewInv'
  BY <1>2 DEF BeginJoin
<1>3. ASSUME NEW c \in Client, RemoveBan(c)  PROVE CrewInv'
  BY <1>3 DEF RemoveBan
<1>4. ASSUME NEW c \in Client, Enter(c)  PROVE CrewInv'
  BY <1>4 DEF Enter
<1>5. ASSUME NEW c \in Client, List(c)  PROVE CrewInv'
  BY <1>5 DEF List
<1>6. ASSUME NEW c \in Client, BeginPart(c)  PROVE CrewInv'
  BY <1>6 DEF BeginPart
<1>7. ASSUME NEW t \in Thread, NEW c \in Client,
             Disconnect(t, c)
      PROVE  CrewInv'
  BY <1>7 DEF Disconnect
<1>8. ASSUME NEW t \in Thread, Part(t)  PROVE CrewInv'
  BY <1>8 DEF Part
<1>9. ASSUME NEW t \in Thread, Unlist(t)  PROVE CrewInv'
  BY <1>9 DEF Unlist
<1>10. ASSUME NEW t \in Thread, Clear(t)  PROVE CrewInv'
  BY <1>10 DEF Clear
<1>11. ASSUME NEW t \in Thread, Erase(t)  PROVE CrewInv'
  BY <1>11 DEF Erase
<1>12. ASSUME NEW s \in Client, NEW u \in Client, NEW mode \in Modes, NEW on \in BOOLEAN,
             SetUserMode(s, u, mode, on)
      PROVE  CrewInv'
  BY <1>12 DEF SetUserMode
<1>13. ASSUME NEW s \in Client, NEW mode \in Modes, NEW on \in BOOLEAN,
             SetChannelMode(s, mode, on)
      PROVE  CrewInv'
  BY <1>13 DEF SetChannelMode
<1>14. ASSUME NEW s \in Client, NEW u \in Client, Kick(s, u)  PROVE CrewInv'
  BY <1>14 DEF Kick
<1>15. ASSUME NEW s \in Client, NEW u \in Client, Ban(s, u)  PROVE CrewInv'
  BY <1>15 DEF Ban
<1>16. ASSUME NEW s \in Client, NEW u \in Client, Unban(s, u)  PROVE CrewInv'
  BY <1>16 DEF Unban
<1>17. ASSUME NEW s \in Client, WriteFlags(s)  PROVE CrewInv'
  BY <1>17 DEF WriteFlags
<1>18. ASSUME NEW s \in Client, TargetLeft(s)  PROVE CrewInv'
  BY <1>18 DEF TargetLeft
<1>19. ASSUME NEW s \in Client, CommitFlags(s)  PROVE CrewInv'
  BY <1>19 DEF CommitFlags
<1>20. ASSUME NEW s \in Client, WriteModes(s)  PROVE CrewInv'
  BY <1>20 DEF WriteModes
<1>21. ASSUME NEW s \in Client, CommitModes(s)  PROVE CrewInv'
  BY <1>21 DEF CommitModes
<1>22. ASSUME NEW s \in Client, CommitBan(s)  PROVE CrewInv'
  BY <1>22 DEF CommitBan
<1>23. ASSUME NEW s \in Client, CommitUnban(s)  PROVE CrewInv'
  BY <1>23 DEF CommitUnban
<1>24. ASSUME NEW u \in Client, Expire(u)  PROVE CrewInv'
  BY <1>24 DEF Expire
<1>25. CASE UNCHANGED vars
  BY <1>25 DEF vars
<1> HIDE DEF Begins, Goes, Ends, NoJob, channel, locks, registry
<1> QED
  BY <1>1, <1>2, <1>3, <1>4, <1>5, <1>6, <1>7, <1>8, <1>9, <1>10, <1>11,
     <1>12, <1>13, <1>14, <1>15, <1>16, <1>17, <1>18, <1>19, <1>20, <1>21,
     <1>22, <1>23, <1>24, <1>25 DEF Next, Membership, Moderation


LEMMA NextKept ==
  ASSUME NEW f \in Kept, JobsInv, CrewInv, KeptFlag(f), [Next]_vars
  PROVE  KeptFlag(f)'
<1>n. None \notin Thread /\ Client \subseteq Thread /\ Sweeper \in Thread \ Client
  BY ChannelsAssumption DEF Thread
<1> USE <1>n DEF JobsInv, CrewInv, KeptFlag, GetUserFlags, With, Kept, Begins,
                 Goes, Ends, NoJob, channel, locks, registry
<1>1. ASSUME NEW c \in Client, LogIn(c)  PROVE KeptFlag(f)'
  BY <1>1 DEF LogIn
<1>2. ASSUME NEW c \in Client, BeginJoin(c)  PROVE KeptFlag(f)'
  BY <1>2 DEF BeginJoin
<1>3. ASSUME NEW c \in Client, RemoveBan(c)  PROVE KeptFlag(f)'
  BY <1>3 DEF RemoveBan
<1>4. ASSUME NEW c \in Client, Enter(c)  PROVE KeptFlag(f)'
  BY <1>4 DEF Enter
<1>5. ASSUME NEW c \in Client, List(c)  PROVE KeptFlag(f)'
  BY <1>5 DEF List
<1>6. ASSUME NEW c \in Client, BeginPart(c)  PROVE KeptFlag(f)'
  BY <1>6 DEF BeginPart
<1>7. ASSUME NEW t \in Thread, NEW c \in Client,
             Disconnect(t, c)
      PROVE  KeptFlag(f)'
  BY <1>7 DEF Disconnect
<1>8. ASSUME NEW t \in Thread, Part(t)  PROVE KeptFlag(f)'
  BY <1>8 DEF Part
<1>9. ASSUME NEW t \in Thread, Unlist(t)  PROVE KeptFlag(f)'
  BY <1>9 DEF Unlist
<1>10. ASSUME NEW t \in Thread, Clear(t)  PROVE KeptFlag(f)'
  BY <1>10 DEF Clear
<1>11. ASSUME NEW t \in Thread, Erase(t)  PROVE KeptFlag(f)'
  BY <1>11 DEF Erase
<1>12. ASSUME NEW s \in Client, NEW u \in Client, NEW mode \in Modes, NEW on \in BOOLEAN,
             SetUserMode(s, u, mode, on)
      PROVE  KeptFlag(f)'
  BY <1>12 DEF SetUserMode
<1>13. ASSUME NEW s \in Client, NEW mode \in Modes, NEW on \in BOOLEAN,
             SetChannelMode(s, mode, on)
      PROVE  KeptFlag(f)'
  BY <1>13 DEF SetChannelMode
<1>14. ASSUME NEW s \in Client, NEW u \in Client,
             Kick(s, u)
      PROVE  KeptFlag(f)'
  BY <1>14 DEF Kick
<1>15. ASSUME NEW s \in Client, NEW u \in Client, Ban(s, u)  PROVE KeptFlag(f)'
  BY <1>15 DEF Ban
<1>16. ASSUME NEW s \in Client, NEW u \in Client,
             Unban(s, u)
      PROVE  KeptFlag(f)'
  BY <1>16 DEF Unban
<1>17. ASSUME NEW s \in Client, WriteFlags(s)  PROVE KeptFlag(f)'
  BY <1>17 DEF WriteFlags
<1>18. ASSUME NEW s \in Client, TargetLeft(s)  PROVE KeptFlag(f)'
  BY <1>18 DEF TargetLeft
<1>19. ASSUME NEW s \in Client, CommitFlags(s)  PROVE KeptFlag(f)'
  BY <1>19 DEF CommitFlags
<1>20. ASSUME NEW s \in Client, WriteModes(s)  PROVE KeptFlag(f)'
  BY <1>20 DEF WriteModes
<1>21. ASSUME NEW s \in Client, CommitModes(s)  PROVE KeptFlag(f)'
  BY <1>21 DEF CommitModes
<1>22. ASSUME NEW s \in Client, CommitBan(s)  PROVE KeptFlag(f)'
  BY <1>22 DEF CommitBan
<1>23. ASSUME NEW s \in Client, CommitUnban(s)  PROVE KeptFlag(f)'
  BY <1>23 DEF CommitUnban
<1>24. ASSUME NEW u \in Client, Expire(u)  PROVE KeptFlag(f)'
  BY <1>24 DEF Expire
<1>25. CASE UNCHANGED vars
  BY <1>25 DEF vars
<1> HIDE DEF Begins, Goes, Ends, NoJob, channel, locks, registry
<1> QED
  BY <1>1, <1>2, <1>3, <1>4, <1>5, <1>6, <1>7, <1>8, <1>9, <1>10, <1>11,
     <1>12, <1>13, <1>14, <1>15, <1>16, <1>17, <1>18, <1>19, <1>20, <1>21,
     <1>22, <1>23, <1>24, <1>25 DEF Next, Membership, Moderation


LEMMA NextUndisturbed ==
  ASSUME NEW c \in Client, JobsInv, CrewInv, "protected" \in userFlags[c],
         Undisturbed(c), [Next]_vars
  PROVE  Undisturbed(c)'
<1>n. None \notin Thread /\ Client \subseteq Thread /\ Sweeper \in Thread \ Client
  BY ChannelsAssumption DEF Thread
<1> USE <1>n DEF Undisturbed, Quits, Joins, Over, SweeperParts,
                 SweeperUnlists, JobsInv, CrewInv, Authority, GetUserFlags,
                 Begins, Goes, Ends, NoJob, channel, locks, registry
<1>1. ASSUME NEW e \in Client, LogIn(e)  PROVE Undisturbed(c)'
  BY <1>1 DEF LogIn
<1>2. ASSUME NEW e \in Client, BeginJoin(e)  PROVE Undisturbed(c)'
  BY <1>2 DEF BeginJoin
<1>3. ASSUME NEW e \in Client, RemoveBan(e)  PROVE Undisturbed(c)'
  BY <1>3 DEF RemoveBan
<1>4. ASSUME NEW e \in Client, Enter(e)  PROVE Undisturbed(c)'
  BY <1>4 DEF Enter
<1>5. ASSUME NEW e \in Client, List(e)  PROVE Undisturbed(c)'
  BY <1>5 DEF List
<1>6. ASSUME NEW e \in Client, BeginPart(e)  PROVE Undisturbed(c)'
  BY <1>6 DEF BeginPart
<1>7. ASSUME NEW t \in Thread, NEW e \in Client,
             Disconnect(t, e)
      PROVE  Undisturbed(c)'
  BY <1>7 DEF Disconnect
<1>8. ASSUME NEW t \in Thread, Part(t)  PROVE Undisturbed(c)'
  <2>1. CASE job[t].target # c
    BY <1>8, <2>1 DEF Part
  <2>2. CASE job[t].target = c /\ t = c
    BY <1>8, <2>2 DEF Part
  <2>3. CASE job[t].target = c /\ t = Sweeper
    BY <1>8, <2>3 DEF Part
  <2> QED
    BY <1>8, <2>1, <2>2, <2>3 DEF Part, Thread
<1>9. ASSUME NEW t \in Thread, Unlist(t)  PROVE Undisturbed(c)'
  <2>1. CASE job[t].target # c
    BY <1>9, <2>1 DEF Unlist
  <2>2. CASE job[t].target = c /\ t = c
    BY <1>9, <2>2 DEF Unlist
  <2>3. t # Sweeper
    BY <1>9 DEF Unlist
  <2> QED
    BY <1>9, <2>1, <2>2, <2>3 DEF Unlist, Thread
<1>10. ASSUME NEW t \in Thread, Clear(t)  PROVE Undisturbed(c)'
  BY <1>10 DEF Clear
<1>11. ASSUME NEW t \in Thread, Erase(t)  PROVE Undisturbed(c)'
  BY <1>11 DEF Erase
<1>12. ASSUME NEW s \in Client, NEW u \in Client, NEW mode \in Modes, NEW on \in BOOLEAN,
             SetUserMode(s, u, mode, on)
      PROVE  Undisturbed(c)'
  BY <1>12 DEF SetUserMode
<1>13. ASSUME NEW s \in Client, NEW mode \in Modes, NEW on \in BOOLEAN,
             SetChannelMode(s, mode, on)
      PROVE  Undisturbed(c)'
  BY <1>13 DEF SetChannelMode
<1>14. ASSUME NEW s \in Client, NEW u \in Client,
             Kick(s, u)
      PROVE  Undisturbed(c)'
  BY <1>14 DEF Kick
<1>15. ASSUME NEW s \in Client, NEW u \in Client,
             Ban(s, u)
      PROVE  Undisturbed(c)'
  BY <1>15 DEF Ban
<1>16. ASSUME NEW s \in Client, NEW u \in Client,
             Unban(s, u)
      PROVE  Undisturbed(c)'
  BY <1>16 DEF Unban
<1>17. ASSUME NEW s \in Client, WriteFlags(s)  PROVE Undisturbed(c)'
  BY <1>17 DEF WriteFlags
<1>18. ASSUME NEW s \in Client, TargetLeft(s)  PROVE Undisturbed(c)'
  BY <1>18 DEF TargetLeft
<1>19. ASSUME NEW s \in Client, CommitFlags(s)  PROVE Undisturbed(c)'
  BY <1>19 DEF CommitFlags
<1>20. ASSUME NEW s \in Client, WriteModes(s)  PROVE Undisturbed(c)'
  BY <1>20 DEF WriteModes
<1>21. ASSUME NEW s \in Client, CommitModes(s)  PROVE Undisturbed(c)'
  BY <1>21 DEF CommitModes
<1>22. ASSUME NEW s \in Client, CommitBan(s)  PROVE Undisturbed(c)'
  BY <1>22 DEF CommitBan
<1>23. ASSUME NEW s \in Client, CommitUnban(s)  PROVE Undisturbed(c)'
  BY <1>23 DEF CommitUnban
<1>24. ASSUME NEW u \in Client, Expire(u)  PROVE Undisturbed(c)'
  BY <1>24 DEF Expire
<1>25. CASE UNCHANGED vars
  BY <1>25 DEF vars
<1> HIDE DEF Begins, Goes, Ends, NoJob, channel, locks, registry
<1> QED
  BY <1>1, <1>2, <1>3, <1>4, <1>5, <1>6, <1>7, <1>8, <1>9, <1>10, <1>11,
     <1>12, <1>13, <1>14, <1>15, <1>16, <1>17, <1>18, <1>19, <1>20, <1>21,
     <1>22, <1>23, <1>24, <1>25 DEF Next, Membership, Moderation


LEMMA NextRegistered ==
  ASSUME OperatesAlone, JobsInv, CrewInv, KeptFlag("op"), Registered,
         [Next]_vars
  PROVE  Registered'
<1>n. None \notin Thread /\ Client \subseteq Thread /\ Sweeper \in Thread \ Client
  BY ChannelsAssumption DEF Thread
<1> USE <1>n DEF Registered, Committing, JobsInv, CrewInv, KeptFlag, StatusOf,
                 GetUserFlags, May, OperatesAlone, Begins, Goes, Ends, NoJob,
                 channel, locks, registry
<1>1. ASSUME NEW c \in Client, LogIn(c)  PROVE Registered'
  BY <1>1 DEF LogIn
<1>2. ASSUME NEW c \in Client, BeginJoin(c)  PROVE Registered'
  BY <1>2 DEF BeginJoin
<1>3. ASSUME NEW c \in Client, RemoveBan(c)  PROVE Registered'
  BY <1>3 DEF RemoveBan
<1>4. ASSUME NEW c \in Client, Enter(c)  PROVE Registered'
  BY <1>4 DEF Enter
<1>5. ASSUME NEW c \in Client, List(c)  PROVE Registered'
  BY <1>5 DEF List
<1>6. ASSUME NEW c \in Client, BeginPart(c)  PROVE Registered'
  BY <1>6 DEF BeginPart
<1>7. ASSUME NEW t \in Thread, NEW c \in Client,
             Disconnect(t, c)
      PROVE  Registered'
  BY <1>7 DEF Disconnect
<1>8. ASSUME NEW t \in Thread, Part(t)  PROVE Registered'
  BY <1>8 DEF Part
<1>9. ASSUME NEW t \in Thread, Unlist(t)  PROVE Registered'
  BY <1>9 DEF Unlist
<1>10. ASSUME NEW t \in Thread, Clear(t)  PROVE Registered'
  BY <1>10 DEF Clear
<1>11. ASSUME NEW t \in Thread, Erase(t)  PROVE Registered'
  BY <1>11 DEF Erase
<1>12. ASSUME NEW s \in Client, NEW u \in Client, NEW mode \in Modes, NEW on \in BOOLEAN,
             SetUserMode(s, u, mode, on)
      PROVE  Registered'
  BY <1>12 DEF SetUserMode
<1>13. ASSUME NEW s \in Client, NEW mode \in Modes, NEW on \in BOOLEAN,
             SetChannelMode(s, mode, on)
      PROVE  Registered'
  BY <1>13 DEF SetChannelMode
<1>14. ASSUME NEW s \in Client, NEW u \in Client, Kick(s, u)  PROVE Registered'
  BY <1>14 DEF Kick
<1>15. ASSUME NEW s \in Client, NEW u \in Client, Ban(s, u)  PROVE Registered'
  BY <1>15 DEF Ban
<1>16. ASSUME NEW s \in Client, NEW u \in Client,
             Unban(s, u)
      PROVE  Registered'
  BY <1>16 DEF Unban
<1>17. ASSUME NEW s \in Client, WriteFlags(s)  PROVE Registered'
  BY <1>17 DEF WriteFlags
<1>18. ASSUME NEW s \in Client, TargetLeft(s)  PROVE Registered'
  BY <1>18 DEF TargetLeft
<1>19. ASSUME NEW s \in Client, CommitFlags(s)  PROVE Registered'
  BY <1>19 DEF CommitFlags
<1>20. ASSUME NEW s \in Client, WriteModes(s)  PROVE Registered'
  BY <1>20 DEF WriteModes
<1>21. ASSUME NEW s \in Client, CommitModes(s)  PROVE Registered'
  BY <1>21 DEF CommitModes
<1>22. ASSUME NEW s \in Client, CommitBan(s)  PROVE Registered'
  BY <1>22 DEF CommitBan
<1>23. ASSUME NEW s \in Client, CommitUnban(s)  PROVE Registered'
  BY <1>23 DEF CommitUnban
<1>24. ASSUME NEW u \in Client, Expire(u)  PROVE Registered'
  BY <1>24 DEF Expire
<1>25. CASE UNCHANGED vars
  BY <1>25 DEF vars
<1> HIDE DEF Begins, Goes, Ends, NoJob, channel, locks, registry
<1> QED
  BY <1>1, <1>2, <1>3, <1>4, <1>5, <1>6, <1>7, <1>8, <1>9, <1>10, <1>11,
     <1>12, <1>13, <1>14, <1>15, <1>16, <1>17, <1>18, <1>19, <1>20, <1>21,
     <1>22, <1>23, <1>24, <1>25 DEF Next, Membership, Moderation


LEMMA KeptFlags ==
  /\ "a" \notin Modes => "protected" \in Kept
  /\ OperatesAlone => "op" \in Kept
<1>1. Modes \subseteq {"a", "o", "v", "b", "m", "i"}
  BY ChannelsAssumption DEF ModeFlag
<1>2. ASSUME NEW m \in Modes
      PROVE  /\ ModeFlag[m] = "protected" => m = "a"
             /\ ModeFlag[m] = "op" => m = "o"
  BY <1>1 DEF ModeFlag
<1> QED
  BY <1>2 DEF Kept, Flag, OperatesAlone

LEMMA InitMembers == Init => MembersInv
<1> SUFFICES ASSUME Init PROVE MembersInv
  OBVIOUS
<1>n. Client \subseteq Thread /\ Sweeper \in Thread \ Client
  BY ChannelsAssumption DEF Thread
<1>1. JobsInv /\ CrewInv
  BY <1>n, ChannelsAssumption DEF Init, JobsInv, CrewInv, NoJob
<1>2. \A f \in Kept : KeptFlag(f)
  BY <1>n DEF Init, KeptFlag
<1>3. \A c \in Client : Undisturbed(c)
  BY <1>n, ChannelsAssumption DEF Init, NoJob, Undisturbed, Quits, Joins, Over,
     SweeperParts, SweeperUnlists
<1>4. Registered
  BY <1>n DEF Init, Registered, Committing
<1> QED
  BY <1>1, <1>2, <1>3, <1>4 DEF MembersInv

LEMMA NextMembers == MembersInv /\ [Next]_vars => MembersInv'
<1> SUFFICES ASSUME MembersInv, [Next]_vars PROVE MembersInv'
  OBVIOUS
<1>1. JobsInv' /\ CrewInv'
  BY NextJobs, NextCrew DEF MembersInv
<1>2. ASSUME NEW f \in Kept PROVE KeptFlag(f)'
  BY NextKept DEF MembersInv
<1>3. ASSUME "a" \notin Modes, NEW c \in Client, "protected" \in InitFlags[c]
      PROVE  Undisturbed(c)'
  <2>1. KeptFlag("protected")
    BY <1>3, KeptFlags DEF MembersInv
  <2>2. "protected" \in userFlags[c]
    BY <1>3, <2>1 DEF KeptFlag
  <2> QED
    BY <1>3, <2>2, NextUndisturbed DEF MembersInv
<1>4. ASSUME OperatesAlone PROVE Registered'
  BY <1>4, KeptFlags, NextRegistered DEF MembersInv
<1>5. OperatesAlone' <=> OperatesAlone
  BY DEF OperatesAlone
<1>6. \A f \in Kept' : KeptFlag(f)'
  BY <1>2 DEF Kept
<1> QED
  BY <1>1, <1>3, <1>4, <1>5, <1>6 DEF MembersInv

(* What the channel knows of its members is known for all time by the      *)
(* invariant above: the threads, the flags, the lists and the registry.    *)
THEOREM MembersInvariant == Spec => []MembersInv
<1> QED
  BY InitMembers, NextMembers, PTL DEF Spec

(* With one operator, the flags of the members and the modes (setMode,     *)
(* setStatusFlags, setChannelFlags) are those of the registry unless one   *)
(* is being committed; and whoever cannot be kicked is in the channel if   *)
(* and only if the channel is in his list, and never after he has gone,    *)
(* however joining, leaving and the two removals interleave.               *)
THEOREM MembersKnown == Spec => []MembersAgree
<1>n. Client \subseteq Thread /\ Sweeper \in Thread \ Client
  BY ChannelsAssumption DEF Thread
<1>1. MembersInv => RegistryAgrees
  BY <1>n DEF MembersInv, RegistryAgrees, Registered, Committing
<1>2. ASSUME MembersInv, "a" \notin Modes, NEW c \in Client,
             "protected" \in userFlags[c], Settled(c)
      PROVE  (c \in inside <=> c \in listed) /\ (pc[c] = "gone" => c \notin inside)
  <2>1. "protected" \in InitFlags[c]
    BY <1>2, KeptFlags DEF MembersInv, KeptFlag
  <2>2. Undisturbed(c)
    BY <1>2, <2>1 DEF MembersInv
  <2> QED
    BY <1>2, <1>n, <2>2 DEF Undisturbed, Settled, Joins, Over, Quits, SweeperUnlists
<1>3. MembersInv => MembersAgree
  BY <1>1, <1>2 DEF MembersAgree, ListsAgree
<1> QED
  BY <1>3, MembersInvariant, PTL

-----------------------------------------------------------------------------
(* Rooms: for every number of users, threads, rooms and identifiers.       *)

Leavers == {"forfeit", "count", "finalise"}
Beginnings == {"acquire", "acquireNew", "join", "list", "publish", "insertFirst", "insertSecond"}
Errands == {"rest", "visit", "part", "parted"} \cup Beginnings \cup Leavers
Task == [does : Errands, room : Room \cup {Nobody}, user : User \cup {Nobody},
         fight : (User \X User) \cup {<<>>}, left : SUBSET Room]

RoomsTypeOK ==
    /\ current \in Nat /\ released \in Seq(0 .. MaxId)
    /\ idOf \in [Room -> (0 .. MaxId) \cup {NoId}]
    /\ fought \subseteq Room
    /\ playersOf \in [Room -> (User \X User) \cup {<<Nobody, Nobody>>}]
    /\ inRoom \in [Room -> SUBSET User]
    /\ public \subseteq Room
    /\ roomsOf \in [User -> SUBSET Room] /\ battlesOf \in [User -> SUBSET Room]
    /\ present \subseteq User
    /\ task \in [Threads -> Task]
    /\ begun \in Nat

(* Identifiers in use and those given back are different, are none of the  *)
(* database's, and have all been drawn.                                    *)
IdsInv ==
    /\ \A r \in Living : idOf[r] \in 0 .. MaxId /\ idOf[r] < current /\ idOf[r] \notin Reserved
    /\ \A r, s \in Living : idOf[r] = idOf[s] => r = s
    /\ \A i \in 1 .. Len(released) :
        /\ released[i] < current /\ released[i] \notin Reserved
        /\ \A r \in Living : idOf[r] /= released[i]
        /\ \A j \in 1 .. Len(released) : released[i] = released[j] => i = j

(* What thread t begins the battle of, once that has a room.               *)
Opened(t, r) == task[t].room = r /\ task[t].fight /= <<>>

(* What is referred to exists.                                             *)
ExistInv ==
    /\ \A t \in Threads : task[t].room \in Living \cup {Nobody}
    /\ \A t \in Threads : task[t].left \subseteq Living
    /\ public \subseteq Living
    /\ \A u \in User : roomsOf[u] \subseteq Living

(* A battle is begun by one thread, which has its room once it has the id. *)
BeginInv ==
    /\ \A t \in Threads : task[t].fight /= <<>> => task[t].does \in Beginnings
    /\ \A t \in Threads : task[t].fight = <<>> =>
          task[t].does = "list" \/ task[t].does \notin Beginnings
    /\ \A t \in Threads :
          task[t].room /= Nobody => task[t].does \notin {"acquire", "acquireNew"}
BusyInv ==
    /\ \A t \in Threads : task[t].does /= "rest" => task[t].user \in User
    /\ \A t \in Threads :
          task[t].does \notin {"rest", "acquire", "acquireNew"} => task[t].room \in Room
    /\ \A t \in Threads :
          task[t].does \in {"acquire", "acquireNew"} => task[t].user = task[t].fight[1]
BegunOnce == \A t, s \in Threads, r \in Room : Opened(t, r) /\ Opened(s, r) => s = t

(* Whose battles are whose: those that are fought, but for those that are  *)
(* just begun.                                                             *)
FoughtExist ==
    /\ fought \subseteq Living
    /\ \A r \in Living : playersOf[r] \in User \X User
KnownWhileFought ==
    \A r \in Room : ~Monitored(r) => \A u \in User :
        r \in battlesOf[u] <=> r \in fought /\ \E i \in 1 .. 2 : playersOf[r][i] = u
NewlyKnown ==
    \A r \in Room, t \in Threads : Opened(t, r) =>
        /\ r \in fought /\ playersOf[r] = task[t].fight
        /\ \A u \in User :
              r \in battlesOf[u] <=> task[t].does = "insertSecond" /\ u = task[t].fight[1]

(* Whoever leaves a room last is about to find that out; and a battle that *)
(* is just begun keeps him from it.                                        *)
Attended(r) ==
    inRoom[r] = {} => \E t \in Threads : task[t].room = r /\ task[t].does \in Leavers
PublicAttended == \A r \in public : Attended(r)
NewAttended ==
    \A r \in Room, t \in Threads : Opened(t, r) =>
        \/ task[t].does = "join" /\ task[t].user = task[t].fight[1]
        \/ Attended(r)
NewKept ==
    \A r \in Room, t, s \in Threads : Opened(t, r) /\ task[s].room = r =>
        task[s].does \notin {"count", "finalise"}

RoomsInv ==
    /\ RoomsTypeOK /\ IdsInv /\ ExistInv /\ BeginInv /\ BusyInv /\ BegunOnce
    /\ FoughtExist /\ KnownWhileFought /\ NewlyKnown
    /\ PublicAttended /\ NewAttended /\ NewKept
-----------------------------------------------------------------------------
LEMMA StepThreads ==
    /\ \A t \in DOMAIN Fights : t \in Threads /\ \A f \in Fights[t] : f \in User \X User
    /\ \A u \in User : u \in Threads
    /\ Remover \in Threads /\ Visitors \subseteq User /\ Kicked \subseteq User
  BY RoomsAssumption DEF Threads

(* A room that is made anew was none, so that nothing refers to it.        *)
LEMMA CreatedIsNew ==
    ASSUME NEW t \in Threads, NEW number \in 0 .. MaxId, Create(t, number), RoomsTypeOK
    PROVE  \E r \in Room \ Living :
              /\ idOf' = [idOf EXCEPT ![r] = number]
              /\ fought' = fought \cup {r}
              /\ playersOf' = [playersOf EXCEPT ![r] = task[t].fight]
              /\ task' = [task EXCEPT ![t].does = "join", ![t].room = r]
              /\ Living' = Living \cup {r}
<1> DEFINE r == CHOOSE x \in Room : x \notin Living
<1>1. r \in Room \ Living
  BY DEF Create, Living
<1>2. /\ idOf' = [idOf EXCEPT ![r] = number]
      /\ fought' = fought \cup {r}
      /\ playersOf' = [playersOf EXCEPT ![r] = task[t].fight]
      /\ task' = [task EXCEPT ![t].does = "join", ![t].room = r]
  BY DEF Create
<1>3. Living' = Living \cup {r}
  BY <1>1, <1>2, RoomsAssumption DEF Living, RoomsTypeOK
<1> QED
  BY <1>1, <1>2, <1>3

(* What is drawn anew has not been drawn before.                           *)
LEMMA FreshIsNew ==
    ASSUME current \in Nat, NEW number \in current .. MaxId, number \notin Reserved
    PROVE  /\ Fresh \in current .. MaxId /\ Fresh \notin Reserved
           /\ Fresh \in 0 .. MaxId
<1> DEFINE Drawable == {x \in current .. MaxId : x \notin Reserved}
<1>1. PICK least \in Drawable : \A x \in Drawable : <<x, least>> \notin OpToRel(<, Nat)
  <2>1. Drawable \subseteq Nat /\ Drawable /= {}
    BY RoomsAssumption
  <2> QED
    BY <2>1, NatLessThanWellFounded, WFMin
<1>2. \A k \in current .. least - 1 : k \in Reserved
  <2>1. ASSUME NEW k \in current .. least - 1, k \notin Reserved
        PROVE  FALSE
    <3>1. k \in Drawable /\ k \in Nat /\ least \in Nat /\ k < least
      BY <2>1, RoomsAssumption
    <3> QED
      BY <3>1, <1>1 DEF OpToRel
  <2> QED
    BY <2>1
<1>3. /\ Fresh \in current .. MaxId /\ Fresh \notin Reserved
  BY <1>1, <1>2 DEF Fresh
<1> QED
  BY <1>3, RoomsAssumption

-----------------------------------------------------------------------------
(* What the steps do to the task of a thread.                              *)
Becomes(t, does, room, user, two, left) ==
    /\ task' \in [Threads -> Task]
    /\ task'[t].does = does /\ task'[t].room = room /\ task'[t].user = user
    /\ task'[t].fight = two /\ task'[t].left = left
    /\ \A s \in Threads \ {t} : task'[s] = task[s]

LEMMA RestIsTask == Rest \in Task
  BY DEF Rest, Task, Errands

LEMMA TaskFields ==
    ASSUME RoomsTypeOK, NEW t \in Threads
    PROVE  /\ task[t].does \in Errands /\ task[t].room \in Room \cup {Nobody}
           /\ task[t].user \in User \cup {Nobody} /\ task[t].left \in SUBSET Room
           /\ task[t].fight \in (User \X User) \cup {<<>>}
  BY DEF RoomsTypeOK, Task

LEMMA BecomesTask ==
    ASSUME RoomsTypeOK, NEW t \in Threads, NEW k \in Task, task' = [task EXCEPT ![t] = k]
    PROVE  Becomes(t, k.does, k.room, k.user, k.fight, k.left)
  BY DEF Becomes, RoomsTypeOK

LEMMA TurnsBecomes ==
    ASSUME RoomsTypeOK, NEW t \in Threads, NEW from, NEW to \in Errands, Turns(t, from, to)
    PROVE  /\ task[t].does = from
           /\ Becomes(t, to, task[t].room, task[t].user, task[t].fight, task[t].left)
<1> DEFINE k == [task[t] EXCEPT !.does = to]
<1>1. k \in Task /\ task' = [task EXCEPT ![t] = k]
  BY DEF Turns, RoomsTypeOK, Task
<1>2. Becomes(t, k.does, k.room, k.user, k.fight, k.left)
  BY <1>1, BecomesTask
<1> QED
  BY <1>2 DEF Turns, RoomsTypeOK, Task

LEMMA StopsBecomes ==
    ASSUME RoomsTypeOK, NEW t \in Threads, NEW from, Stops(t, from)
    PROVE  /\ task[t].does = from
           /\ Becomes(t, "rest", Nobody, Nobody, <<>>, {})
  BY RestIsTask, BecomesTask DEF Stops, Rest

LEMMA BeginsBecomes ==
    ASSUME RoomsTypeOK, NEW t \in Threads, NEW does \in Errands, NEW r \in Room, NEW u \in User,
           NEW left \in SUBSET Room, task[t] = Rest,
           task' = [task EXCEPT ![t] = [Rest EXCEPT !.does = does, !.room = r, !.user = u,
                                                    !.left = left]]
    PROVE  /\ task[t].does = "rest" /\ task[t].fight = <<>>
           /\ Becomes(t, does, r, u, <<>>, left)
<1> DEFINE k == [Rest EXCEPT !.does = does, !.room = r, !.user = u, !.left = left]
<1>1. k \in Task
  BY RestIsTask DEF Task
<1>2. Becomes(t, k.does, k.room, k.user, k.fight, k.left)
  BY <1>1, BecomesTask
<1> QED
  BY <1>2 DEF Rest

LEMMA ErrandBecomes ==
    ASSUME RoomsTypeOK, NEW t \in Threads, NEW does \in Errands, NEW r \in Room, NEW u \in User,
           task[t] = Rest,
           task' = [task EXCEPT ![t] = [Rest EXCEPT !.does = does, !.room = r, !.user = u]]
    PROVE  /\ task[t].does = "rest" /\ task[t].fight = <<>>
           /\ Becomes(t, does, r, u, <<>>, {})
<1> DEFINE k == [Rest EXCEPT !.does = does, !.room = r, !.user = u]
<1>1. k \in Task
  BY RestIsTask DEF Task
<1>2. Becomes(t, k.does, k.room, k.user, k.fight, k.left)
  BY <1>1, BecomesTask
<1> QED
  BY <1>2 DEF Rest

LEMMA IdsKept == IdsInv /\ UNCHANGED <<current, released, idOf>> => IdsInv'
  BY DEF IdsInv, Living

(* Battles are begun by the same threads, and known to nobody else.        *)
SameBegins ==
    \A t \in Threads, r \in Room :
        /\ Opened(t, r)' <=> Opened(t, r)
        /\ Opened(t, r) => /\ task'[t].fight = task[t].fight
                           /\ task'[t].does = "insertSecond" <=> task[t].does = "insertSecond"

LEMMA BattlesKept ==
    ASSUME BegunOnce, FoughtExist, KnownWhileFought, NewlyKnown, SameBegins,
           UNCHANGED <<idOf, fought, playersOf, battlesOf>>
    PROVE  BegunOnce' /\ FoughtExist' /\ KnownWhileFought' /\ NewlyKnown'
<1>1. BegunOnce'
  BY DEF SameBegins, BegunOnce
<1>2. FoughtExist'
  BY DEF FoughtExist, Living
<1>3. \A r \in Room : Monitored(r)' <=> Monitored(r)
  BY DEF SameBegins, Opened, Monitored
<1>4. KnownWhileFought'
  BY <1>3 DEF KnownWhileFought
<1>5. NewlyKnown'
  <2>1. ASSUME NEW r \in Room, NEW t \in Threads, Opened(t, r)'
        PROVE  Opened(t, r) /\ task'[t].fight = task[t].fight
               /\ (task'[t].does = "insertSecond" <=> task[t].does = "insertSecond")
    BY <2>1 DEF SameBegins
  <2>2. ASSUME NEW r \in Room, NEW t \in Threads, Opened(t, r)'
        PROVE  /\ r \in fought' /\ playersOf'[r] = task'[t].fight
               /\ \A u \in User :
                     r \in battlesOf'[u] <=> task'[t].does = "insertSecond" /\ u = task'[t].fight[1]
    <3>1. /\ r \in fought /\ playersOf[r] = task[t].fight
          /\ \A u \in User :
                r \in battlesOf[u] <=> task[t].does = "insertSecond" /\ u = task[t].fight[1]
      BY <2>1, <2>2 DEF NewlyKnown
    <3> QED
      BY <2>1, <2>2, <3>1
  <2> QED
    BY <2>2 DEF NewlyKnown
<1> QED
  BY <1>1, <1>2, <1>4, <1>5

(* A thread that leaves a room goes on leaving it.                         *)
LEMMA AttendedKept ==
    ASSUME NEW r, NEW t \in Threads, NEW does, NEW room, NEW user, NEW two, NEW left,
           Becomes(t, does, room, user, two, left),
           inRoom'[r] = {} => inRoom[r] = {},
           task[t].does \in Leavers /\ task[t].room = r => does \in Leavers /\ room = r,
           Attended(r)
    PROVE  Attended(r)'
<1> SUFFICES ASSUME inRoom'[r] = {}
             PROVE  \E s \in Threads : task'[s].room = r /\ task'[s].does \in Leavers
  BY DEF Attended
<1>1. PICK s \in Threads : task[s].room = r /\ task[s].does \in Leavers
  BY DEF Attended
<1>2. task'[s].room = r /\ task'[s].does \in Leavers
  BY <1>1 DEF Becomes
<1> QED
  BY <1>2

(* Whoever goes on with the room it has, but not to count who is in it.    *)
LEMMA KeptStays ==
    ASSUME NewKept, NEW t \in Threads, NEW does, NEW user, NEW left,
           does \in {"acquireNew", "list", "insertFirst", "insertSecond", "parted"},
           Becomes(t, does, task[t].room, user, task[t].fight, left)
    PROVE  NewKept'
<1> SUFFICES ASSUME NEW x \in Room, NEW s \in Threads, NEW q \in Threads,
                    Opened(s, x)', task'[q].room = x
             PROVE  task'[q].does \notin {"count", "finalise"}
  BY DEF NewKept
<1>1. Opened(s, x)
  BY DEF Opened, Becomes
<1>2. CASE q = t
  BY <1>2 DEF Becomes
<1>3. CASE q # t
  <2>1. task'[q] = task[q]
    BY <1>3 DEF Becomes
  <2> QED
    BY <1>1, <2>1 DEF NewKept
<1> QED
  BY <1>2, <1>3

LEMMA FindNoneReleasedKeeps ==
    ASSUME RoomsInv, NEW t \in Threads, FindNoneReleased(t)
    PROVE  RoomsInv'
<1> USE DEF RoomsInv
<1>1. /\ task[t].does = "acquire"
      /\ Becomes(t, "acquireNew", task[t].room, task[t].user, task[t].fight, task[t].left)
  BY TurnsBecomes DEF FindNoneReleased, Errands, Beginnings, Leavers
<1>2. UNCHANGED <<current, released, idOf, fought, playersOf, inRoom, public, roomsOf, battlesOf, present, begun>>
  BY DEF FindNoneReleased, vendor, here, battleState, lists
<1>3. RoomsTypeOK'
  BY <1>1, <1>2 DEF RoomsTypeOK, BusyInv, Becomes
<1>4. IdsInv'
  BY <1>2, IdsKept
<1>5. ExistInv'
  BY <1>1, <1>2 DEF ExistInv, BusyInv, Becomes, Living
<1>6. BeginInv'
  BY <1>1 DEF BeginInv, Becomes, Beginnings
<1>b. BusyInv'
  BY <1>1 DEF BusyInv, Becomes
<1>7. SameBegins
  BY <1>1 DEF SameBegins, BeginInv, Opened, Becomes, Beginnings
<1>8. BegunOnce' /\ FoughtExist' /\ KnownWhileFought' /\ NewlyKnown'
  BY <1>2, <1>7, BattlesKept
<1>a. \A x \in Room : Attended(x) => Attended(x)'
  BY <1>1, <1>2, AttendedKept DEF Leavers
<1>9. PublicAttended'
  BY <1>2, <1>a DEF PublicAttended, RoomsTypeOK
<1>10. NewAttended'
  BY <1>1, <1>a DEF NewAttended, Opened, Becomes
<1>11. NewKept'
  BY <1>1, KeptStays
<1> QED
  BY <1>3, <1>4, <1>5, <1>6, <1>7, <1>8, <1>9, <1>10, <1>11, <1>b

LEMMA StartJoinKeeps ==
    ASSUME RoomsInv, NEW t \in Threads, StartJoin(t)
    PROVE  RoomsInv'
<1> USE DEF RoomsInv
<1>1. /\ task[t].does = "join"
      /\ Becomes(t, "list", task[t].room, task[t].user, task[t].fight, task[t].left)
  BY TurnsBecomes DEF StartJoin, Errands, Beginnings, Leavers
<1>2. UNCHANGED <<current, released, idOf, fought, playersOf, public, roomsOf, battlesOf, present, begun>>
  BY DEF StartJoin, vendor, here, battleState, lists
<1>e. inRoom' = [inRoom EXCEPT ![task[t].room] = @ \cup {task[t].user}]
  BY DEF StartJoin
<1>3. RoomsTypeOK'
  BY <1>1, <1>2, <1>e DEF RoomsTypeOK, BusyInv, Becomes
<1>4. IdsInv'
  BY <1>2, IdsKept
<1>5. ExistInv'
  BY <1>1, <1>2, <1>e DEF ExistInv, BusyInv, Becomes, Living
<1>6. BeginInv'
  BY <1>1 DEF BeginInv, Becomes, Beginnings
<1>b. BusyInv'
  BY <1>1 DEF BusyInv, Becomes
<1>7. SameBegins
  BY <1>1 DEF SameBegins, BeginInv, Opened, Becomes, Beginnings
<1>8. BegunOnce' /\ FoughtExist' /\ KnownWhileFought' /\ NewlyKnown'
  BY <1>2, <1>7, BattlesKept
<1>a. \A x \in Room : Attended(x) => Attended(x)'
  BY <1>1, <1>2, <1>e, AttendedKept DEF Leavers
<1>9. PublicAttended'
  BY <1>2, <1>a, <1>e DEF PublicAttended, RoomsTypeOK
<1>10. NewAttended'
  <2>1. Attended(task[t].room)'
    <3>1. task[t].room \in Room /\ task[t].user \in inRoom'[task[t].room]
      BY <1>1, <1>e DEF RoomsTypeOK, BusyInv
    <3>2. inRoom'[task[t].room] /= {}
      BY <3>1
    <3> QED
      BY <1>1, <3>2 DEF Attended, Becomes
  <2> QED
    BY <1>1, <1>a, <2>1 DEF NewAttended, Opened, Becomes
<1>11. NewKept'
  BY <1>1, KeptStays
<1> QED
  BY <1>3, <1>4, <1>5, <1>6, <1>7, <1>8, <1>9, <1>10, <1>11, <1>b

LEMMA AddChannelKeeps ==
    ASSUME RoomsInv, NEW t \in Threads, AddChannel(t)
    PROVE  RoomsInv'
<1> USE DEF RoomsInv
<1>1. /\ task[t].does = "publish"
      /\ Becomes(t, "insertFirst", task[t].room, task[t].user, task[t].fight, task[t].left)
  BY TurnsBecomes DEF AddChannel, Errands, Beginnings, Leavers
<1>2. UNCHANGED <<current, released, idOf, fought, playersOf, inRoom, roomsOf, battlesOf, present, begun>>
  BY DEF AddChannel, vendor, here, battleState, lists
<1>e. public' = public \cup {task[t].room}
  BY DEF AddChannel
<1>3. RoomsTypeOK'
  BY <1>1, <1>2, <1>e DEF RoomsTypeOK, BusyInv, Becomes
<1>4. IdsInv'
  BY <1>2, IdsKept
<1>5. ExistInv'
  <2>1. task[t].room \in Living
    BY <1>1, RoomsAssumption DEF ExistInv, BusyInv
  <2> QED
    BY <1>1, <1>2, <1>e, <2>1 DEF ExistInv, Becomes, Living
<1>6. BeginInv'
  BY <1>1 DEF BeginInv, Becomes, Beginnings
<1>b. BusyInv'
  BY <1>1 DEF BusyInv, Becomes
<1>7. SameBegins
  BY <1>1 DEF SameBegins, BeginInv, Opened, Becomes, Beginnings
<1>8. BegunOnce' /\ FoughtExist' /\ KnownWhileFought' /\ NewlyKnown'
  BY <1>2, <1>7, BattlesKept
<1>a. \A x \in Room : Attended(x) => Attended(x)'
  BY <1>1, <1>2, <1>e, AttendedKept DEF Leavers
<1>9. PublicAttended'
  <2>1. Attended(task[t].room)
    BY <1>1 DEF NewAttended, BeginInv, BusyInv, Opened, Beginnings
  <2> QED
    BY <1>1, <1>2, <1>a, <1>e, <2>1 DEF PublicAttended, RoomsTypeOK, BusyInv
<1>10. NewAttended'
  BY <1>1, <1>a DEF NewAttended, Opened, Becomes
<1>11. NewKept'
  BY <1>1, KeptStays
<1> QED
  BY <1>3, <1>4, <1>5, <1>6, <1>7, <1>8, <1>9, <1>10, <1>11, <1>b

LEMMA HandleFinaliseKeeps ==
    ASSUME RoomsInv, NEW t \in Threads, HandleFinalise(t)
    PROVE  RoomsInv'
<1> USE DEF RoomsInv
<1>1. /\ task[t].does = "finalise"
      /\ Becomes(t, "parted", task[t].room, task[t].user, task[t].fight, task[t].left)
  BY TurnsBecomes DEF HandleFinalise, Errands, Beginnings, Leavers
<1>2. UNCHANGED <<current, released, idOf, fought, playersOf, inRoom, roomsOf, battlesOf, present, begun>>
  BY DEF HandleFinalise, vendor, here, battleState, lists
<1>e. public' = public \ {task[t].room}
  BY DEF HandleFinalise
<1>3. RoomsTypeOK'
  BY <1>1, <1>2, <1>e DEF RoomsTypeOK, BusyInv, Becomes
<1>4. IdsInv'
  BY <1>2, IdsKept
<1>5. ExistInv'
  BY <1>1, <1>2, <1>e DEF ExistInv, BusyInv, Becomes, Living
<1>6. BeginInv'
  BY <1>1 DEF BeginInv, Becomes, Beginnings
<1>b. BusyInv'
  BY <1>1 DEF BusyInv, Becomes
<1>7. SameBegins
  BY <1>1 DEF SameBegins, BeginInv, Opened, Becomes, Beginnings
<1>8. BegunOnce' /\ FoughtExist' /\ KnownWhileFought' /\ NewlyKnown'
  BY <1>2, <1>7, BattlesKept
<1>a. \A x \in Room \ {task[t].room} : Attended(x) => Attended(x)'
  BY <1>1, <1>2, <1>e, AttendedKept DEF Leavers
<1>9. PublicAttended'
  BY <1>2, <1>a, <1>e DEF PublicAttended, RoomsTypeOK
<1>10. NewAttended'
  <2>1. \A s \in Threads, x \in Room : Opened(s, x)' => Opened(s, x) /\ x /= task[t].room
    BY <1>1 DEF NewKept, Opened, Becomes
  <2> QED
    BY <1>1, <1>a, <2>1 DEF NewAttended, Opened, Becomes
<1>11. NewKept'
  BY <1>1, KeptStays
<1> QED
  BY <1>3, <1>4, <1>5, <1>6, <1>7, <1>8, <1>9, <1>10, <1>11, <1>b

LEMMA InsertFirstKeeps ==
    ASSUME RoomsInv, NEW t \in Threads, InsertFirst(t)
    PROVE  RoomsInv'
<1> USE DEF RoomsInv
<1>1. /\ task[t].does = "insertFirst"
      /\ Becomes(t, "insertSecond", task[t].room, task[t].user, task[t].fight, task[t].left)
  BY TurnsBecomes DEF InsertFirst, Errands, Beginnings, Leavers
<1>2. UNCHANGED <<current, released, idOf, fought, playersOf, inRoom, public, roomsOf, present, begun>>
  BY DEF InsertFirst, vendor, here, battleState, lists
<1>e. battlesOf' = [battlesOf EXCEPT ![task[t].fight[1]] = @ \cup {task[t].room}]
  BY DEF InsertFirst
<1>3. RoomsTypeOK'
  BY <1>1, <1>2, <1>e DEF RoomsTypeOK, BusyInv, Becomes
<1>4. IdsInv'
  BY <1>2, IdsKept
<1>5. ExistInv'
  BY <1>1, <1>2, <1>e DEF ExistInv, BusyInv, Becomes, Living
<1>6. BeginInv'
  BY <1>1 DEF BeginInv, Becomes, Beginnings
<1>b. BusyInv'
  BY <1>1 DEF BusyInv, Becomes
<1>7. BegunOnce' /\ FoughtExist'
  <2>1. \A s \in Threads, x \in Room : Opened(s, x)' => Opened(s, x)
    BY <1>1 DEF Opened, Becomes
  <2>2. BegunOnce'
    BY <2>1 DEF BegunOnce
  <2>3. FoughtExist'
    BY <1>2 DEF FoughtExist, Living
  <2> QED
    BY <2>2, <2>3
<1>8. KnownWhileFought' /\ NewlyKnown'
  <2>1. /\ Opened(t, task[t].room) /\ task[t].room \in Room
        /\ task[t].fight \in User \X User
    BY <1>1, TaskFields DEF BeginInv, BusyInv, Opened, Beginnings
  <2>2. \A s \in Threads, x \in Room : Opened(s, x)' <=> Opened(s, x)
    BY <1>1 DEF Opened, Becomes
  <2>3. \A x \in Room, u \in User :
           x \in battlesOf'[u] <=> \/ x \in battlesOf[u]
                                   \/ x = task[t].room /\ u = task[t].fight[1]
    BY <1>e, <2>1 DEF RoomsTypeOK
  <2>4. KnownWhileFought'
    <3> SUFFICES ASSUME NEW x \in Room, ~Monitored(x)', NEW u \in User
                 PROVE  x \in battlesOf'[u] <=>
                            x \in fought /\ \E i \in 1 .. 2 : playersOf[x][i] = u
      BY <1>2 DEF KnownWhileFought
    <3>1. ~Monitored(x) /\ x /= task[t].room
      BY <2>1, <2>2 DEF Monitored, Opened
    <3> QED
      BY <2>3, <3>1 DEF KnownWhileFought
  <2>5. NewlyKnown'
    <3> SUFFICES ASSUME NEW x \in Room, NEW s \in Threads, Opened(s, x)'
                 PROVE  /\ x \in fought /\ playersOf[x] = task'[s].fight
                        /\ \A u \in User : x \in battlesOf'[u] <=>
                              task'[s].does = "insertSecond" /\ u = task'[s].fight[1]
      BY <1>2 DEF NewlyKnown
    <3>1. /\ x \in fought /\ playersOf[x] = task[s].fight
          /\ \A u \in User :
                x \in battlesOf[u] <=> task[s].does = "insertSecond" /\ u = task[s].fight[1]
      BY <2>2 DEF NewlyKnown
    <3>2. CASE s = t
      BY <1>1, <2>1, <2>2, <2>3, <3>1, <3>2 DEF Becomes, Opened
    <3>3. CASE s /= t
      <4>1. x /= task[t].room /\ task'[s] = task[s]
        BY <1>1, <2>1, <2>2, <3>3 DEF BegunOnce, Becomes
      <4> QED
        BY <2>3, <3>1, <4>1
    <3> QED
      BY <3>2, <3>3
  <2> QED
    BY <2>4, <2>5
<1>a. \A x \in Room : Attended(x) => Attended(x)'
  BY <1>1, <1>2, <1>e, AttendedKept DEF Leavers
<1>9. PublicAttended'
  BY <1>2, <1>a, <1>e DEF PublicAttended, RoomsTypeOK
<1>10. NewAttended'
  BY <1>1, <1>a DEF NewAttended, Opened, Becomes
<1>11. NewKept'
  BY <1>1, KeptStays
<1> QED
  BY <1>3, <1>4, <1>5, <1>6, <1>7, <1>8, <1>9, <1>10, <1>11, <1>b

LEMMA InsertSecondKeeps ==
    ASSUME RoomsInv, NEW t \in Threads, InsertSecond(t)
    PROVE  RoomsInv'
<1> USE DEF RoomsInv
<1>1. /\ task[t].does = "insertSecond"
      /\ Becomes(t, "rest", Nobody, Nobody, <<>>, {})
  BY StopsBecomes DEF InsertSecond
<1>2. UNCHANGED <<current, released, idOf, fought, playersOf, inRoom, public, roomsOf, present, begun>>
  BY DEF InsertSecond, vendor, here, battleState, lists
<1>e. battlesOf' = [battlesOf EXCEPT ![task[t].fight[2]] = @ \cup {task[t].room}]
  BY DEF InsertSecond
<1>3. RoomsTypeOK'
  BY <1>1, <1>2, <1>e DEF RoomsTypeOK, BusyInv, Becomes
<1>4. IdsInv'
  BY <1>2, IdsKept
<1>5. ExistInv'
  BY <1>1, <1>2, <1>e DEF ExistInv, BusyInv, Becomes, Living
<1>6. BeginInv'
  BY <1>1 DEF BeginInv, Becomes, Beginnings
<1>b. BusyInv'
  BY <1>1 DEF BusyInv, Becomes
<1>7. BegunOnce' /\ FoughtExist'
  <2>1. \A s \in Threads, x \in Room : Opened(s, x)' => Opened(s, x)
    BY <1>1 DEF Opened, Becomes
  <2>2. BegunOnce'
    BY <2>1 DEF BegunOnce
  <2>3. FoughtExist'
    BY <1>2 DEF FoughtExist, Living
  <2> QED
    BY <2>2, <2>3
<1>8. KnownWhileFought' /\ NewlyKnown'
  <2>1. /\ Opened(t, task[t].room) /\ task[t].room \in Room
        /\ task[t].fight \in User \X User
    BY <1>1, TaskFields DEF BeginInv, BusyInv, Opened, Beginnings
  <2>2. \A s \in Threads, x \in Room : Opened(s, x)' <=> Opened(s, x) /\ s /= t
    BY <1>1, RoomsAssumption DEF Opened, Becomes
  <2>3. \A x \in Room, u \in User :
           x \in battlesOf'[u] <=> \/ x \in battlesOf[u]
                                   \/ x = task[t].room /\ u = task[t].fight[2]
    BY <1>e, <2>1 DEF RoomsTypeOK
  <2>4. KnownWhileFought'
    <3> SUFFICES ASSUME NEW x \in Room, ~Monitored(x)', NEW u \in User
                 PROVE  x \in battlesOf'[u] <=>
                            x \in fought /\ \E i \in 1 .. 2 : playersOf[x][i] = u
      BY <1>2 DEF KnownWhileFought
    <3>1. CASE x = task[t].room
      <4>1. /\ x \in fought /\ playersOf[x] = task[t].fight
            /\ x \in battlesOf[u] <=> u = task[t].fight[1]
        BY <1>1, <2>1, <3>1 DEF NewlyKnown
      <4> QED
        BY <2>1, <2>3, <3>1, <4>1
    <3>2. CASE x /= task[t].room
      <4>1. ~Monitored(x)
        BY <2>2, <3>2 DEF Monitored, Opened
      <4> QED
        BY <2>3, <3>2, <4>1 DEF KnownWhileFought
    <3> QED
      BY <3>1, <3>2
  <2>5. NewlyKnown'
    <3> SUFFICES ASSUME NEW x \in Room, NEW s \in Threads, Opened(s, x)'
                 PROVE  /\ x \in fought /\ playersOf[x] = task'[s].fight
                        /\ \A u \in User : x \in battlesOf'[u] <=>
                              task'[s].does = "insertSecond" /\ u = task'[s].fight[1]
      BY <1>2 DEF NewlyKnown
    <3>0. Opened(s, x)
      BY <2>2
    <3>1. /\ x \in fought /\ playersOf[x] = task[s].fight
          /\ \A u \in User :
                x \in battlesOf[u] <=> task[s].does = "insertSecond" /\ u = task[s].fight[1]
      BY <3>0 DEF NewlyKnown
    <3>2. x /= task[t].room /\ task'[s] = task[s]
      BY <1>1, <2>1, <2>2 DEF BegunOnce, Becomes
    <3> QED
      BY <2>3, <3>1, <3>2
  <2> QED
    BY <2>4, <2>5
<1>a. \A x \in Room : Attended(x) => Attended(x)'
  BY <1>1, <1>2, <1>e, AttendedKept DEF Leavers
<1>9. PublicAttended'
  BY <1>2, <1>a, <1>e DEF PublicAttended, RoomsTypeOK
<1>10. NewAttended'
  BY <1>1, <1>a DEF NewAttended, Opened, Becomes
<1>11. NewKept'
  BY <1>1 DEF NewKept, Opened, Becomes
<1> QED
  BY <1>3, <1>4, <1>5, <1>6, <1>7, <1>8, <1>9, <1>10, <1>11, <1>b

LEMMA VisitorListKeeps ==
    ASSUME RoomsInv, NEW t \in User, VisitorList(t)
    PROVE  RoomsInv'
<1> USE DEF RoomsInv
<1>1. /\ task[t].does = "list" /\ task[t].fight = <<>> /\ t \in Threads
      /\ Becomes(t, "rest", Nobody, Nobody, <<>>, {})
  BY StopsBecomes, StepThreads DEF VisitorList
<1>2. UNCHANGED <<current, released, idOf, fought, playersOf, inRoom, public, battlesOf, present, begun>>
  BY DEF VisitorList, vendor, here, battleState, lists
<1>e. roomsOf' = [roomsOf EXCEPT ![t] = @ \cup {task[t].room}]
  BY DEF VisitorList
<1>3. RoomsTypeOK'
  BY <1>1, <1>2, <1>e DEF RoomsTypeOK, BusyInv, Becomes
<1>4. IdsInv'
  BY <1>2, IdsKept
<1>5. ExistInv'
  <2>1. task[t].room \in Living
    BY <1>1, RoomsAssumption DEF ExistInv, BusyInv
  <2>2. \A u \in User : roomsOf'[u] \subseteq roomsOf[u] \cup {task[t].room}
    BY <1>e DEF RoomsTypeOK
  <2> QED
    BY <1>1, <1>2, <2>1, <2>2 DEF ExistInv, Becomes, Living
<1>6. BeginInv'
  BY <1>1 DEF BeginInv, Becomes, Beginnings
<1>b. BusyInv'
  BY <1>1 DEF BusyInv, Becomes
<1>7. SameBegins
  BY <1>1 DEF SameBegins, BeginInv, Opened, Becomes, Beginnings
<1>8. BegunOnce' /\ FoughtExist' /\ KnownWhileFought' /\ NewlyKnown'
  BY <1>2, <1>7, BattlesKept
<1>a. \A x \in Room : Attended(x) => Attended(x)'
  BY <1>1, <1>2, <1>e, AttendedKept DEF Leavers
<1>9. PublicAttended'
  BY <1>2, <1>a, <1>e DEF PublicAttended, RoomsTypeOK
<1>10. NewAttended'
  BY <1>1, <1>a DEF NewAttended, Opened, Becomes
<1>11. NewKept'
  BY <1>1 DEF NewKept, Opened, Becomes
<1> QED
  BY <1>3, <1>4, <1>5, <1>6, <1>7, <1>8, <1>9, <1>10, <1>11, <1>b

LEMMA BeginVisitKeeps ==
    ASSUME RoomsInv, NEW t \in User, NEW r \in Room, BeginVisit(t, r)
    PROVE  RoomsInv'
<1> USE DEF RoomsInv
<1>1. /\ task[t].does = "rest" /\ task[t].fight = <<>> /\ t \in Threads
      /\ Becomes(t, "visit", r, t, <<>>, {})
  BY ErrandBecomes, StepThreads DEF BeginVisit, Errands
<1>2. UNCHANGED <<current, released, idOf, fought, playersOf, inRoom, public, roomsOf, battlesOf, present, begun>>
  BY DEF BeginVisit, vendor, here, battleState, lists
<1>3. RoomsTypeOK'
  BY <1>1, <1>2 DEF RoomsTypeOK, BusyInv, Becomes
<1>4. IdsInv'
  BY <1>2, IdsKept
<1>5. ExistInv'
  BY <1>1, <1>2 DEF ExistInv, BeginVisit, Becomes, Living
<1>6. BeginInv'
  BY <1>1 DEF BeginInv, Becomes, Beginnings
<1>b. BusyInv'
  BY <1>1 DEF BusyInv, Becomes
<1>7. SameBegins
  BY <1>1 DEF SameBegins, BeginInv, Opened, Becomes, Beginnings
<1>8. BegunOnce' /\ FoughtExist' /\ KnownWhileFought' /\ NewlyKnown'
  BY <1>2, <1>7, BattlesKept
<1>a. \A x \in Room : Attended(x) => Attended(x)'
  BY <1>1, <1>2, AttendedKept DEF Leavers
<1>9. PublicAttended'
  BY <1>2, <1>a DEF PublicAttended, RoomsTypeOK
<1>10. NewAttended'
  BY <1>1, <1>a DEF NewAttended, Opened, Becomes
<1>11. NewKept'
  BY <1>1 DEF NewKept, Opened, Becomes
<1> QED
  BY <1>3, <1>4, <1>5, <1>6, <1>7, <1>8, <1>9, <1>10, <1>11, <1>b

LEMMA BeginPartRoomKeeps ==
    ASSUME RoomsInv, NEW t \in Threads, NEW u \in User, NEW r \in Room, BeginPartRoom(t, u, r)
    PROVE  RoomsInv'
<1> USE DEF RoomsInv
<1>1. /\ task[t].does = "rest" /\ task[t].fight = <<>>
      /\ Becomes(t, "part", r, u, <<>>, {})
  BY ErrandBecomes DEF BeginPartRoom, Errands
<1>2. UNCHANGED <<current, released, idOf, fought, playersOf, inRoom, public, roomsOf, battlesOf, present, begun>>
  BY DEF BeginPartRoom, vendor, here, battleState, lists
<1>3. RoomsTypeOK'
  BY <1>1, <1>2 DEF RoomsTypeOK, BusyInv, Becomes
<1>4. IdsInv'
  BY <1>2, IdsKept
<1>5. ExistInv'
  BY <1>1, <1>2 DEF ExistInv, BeginPartRoom, Becomes, Living
<1>6. BeginInv'
  BY <1>1 DEF BeginInv, Becomes, Beginnings
<1>b. BusyInv'
  BY <1>1 DEF BusyInv, Becomes
<1>7. SameBegins
  BY <1>1 DEF SameBegins, BeginInv, Opened, Becomes, Beginnings
<1>8. BegunOnce' /\ FoughtExist' /\ KnownWhileFought' /\ NewlyKnown'
  BY <1>2, <1>7, BattlesKept
<1>a. \A x \in Room : Attended(x) => Attended(x)'
  BY <1>1, <1>2, AttendedKept DEF Leavers
<1>9. PublicAttended'
  BY <1>2, <1>a DEF PublicAttended, RoomsTypeOK
<1>10. NewAttended'
  BY <1>1, <1>a DEF NewAttended, Opened, Becomes
<1>11. NewKept'
  BY <1>1 DEF NewKept, Opened, Becomes
<1> QED
  BY <1>3, <1>4, <1>5, <1>6, <1>7, <1>8, <1>9, <1>10, <1>11, <1>b

LEMMA BeginDisconnectKeeps ==
    ASSUME RoomsInv, NEW t \in Threads, NEW u \in User, BeginDisconnect(t, u)
    PROVE  RoomsInv'
<1> USE DEF RoomsInv
<1>1. PICK r \in roomsOf[u] :
      /\ task[t].does = "rest" /\ task[t].fight = <<>>
      /\ Becomes(t, "part", r, u, <<>>, roomsOf[u])
  <2>1. PICK r \in roomsOf[u] :
           task' = [task EXCEPT ![t] =
              [Rest EXCEPT !.does = "part", !.room = r, !.user = u, !.left = roomsOf[u]]]
    BY DEF BeginDisconnect
  <2>2. r \in Room /\ roomsOf[u] \in SUBSET Room /\ "part" \in Errands
    BY DEF RoomsTypeOK, Errands
  <2>3. task[t] = Rest
    BY DEF BeginDisconnect
  <2> QED
    BY <2>1, <2>2, <2>3, BeginsBecomes
<1>2. UNCHANGED <<current, released, idOf, fought, playersOf, inRoom, public, roomsOf, battlesOf, present, begun>>
  BY DEF BeginDisconnect, vendor, here, battleState, lists
<1>3. RoomsTypeOK'
  BY <1>1, <1>2 DEF RoomsTypeOK, BusyInv, Becomes
<1>4. IdsInv'
  BY <1>2, IdsKept
<1>5. ExistInv'
  BY <1>1, <1>2 DEF ExistInv, BusyInv, Becomes, Living
<1>6. BeginInv'
  BY <1>1 DEF BeginInv, Becomes, Beginnings
<1>b. BusyInv'
  BY <1>1 DEF BusyInv, Becomes, RoomsTypeOK
<1>7. SameBegins
  BY <1>1 DEF SameBegins, BeginInv, Opened, Becomes, Beginnings
<1>8. BegunOnce' /\ FoughtExist' /\ KnownWhileFought' /\ NewlyKnown'
  BY <1>2, <1>7, BattlesKept
<1>a. \A x \in Room : Attended(x) => Attended(x)'
  BY <1>1, <1>2, AttendedKept DEF Leavers
<1>9. PublicAttended'
  BY <1>2, <1>a DEF PublicAttended, RoomsTypeOK
<1>10. NewAttended'
  BY <1>1, <1>a DEF NewAttended, Opened, Becomes
<1>11. NewKept'
  BY <1>1 DEF NewKept, Opened, Becomes
<1> QED
  BY <1>3, <1>4, <1>5, <1>6, <1>7, <1>8, <1>9, <1>10, <1>11, <1>b

LEMMA BeginStartKeeps ==
    ASSUME RoomsInv, NEW t \in Threads, NEW f \in User \X User, BeginStart(t, f)
    PROVE  RoomsInv'
<1> USE DEF RoomsInv
<1>1. /\ task[t].does = "rest" /\ task[t].fight = <<>>
      /\ Becomes(t, "acquire", Nobody, f[1], f, {})
      /\ f /= <<>> /\ f[1] \in User /\ Nobody \notin Room
  <2> DEFINE k == [Rest EXCEPT !.does = "acquire", !.user = f[1], !.fight = f]
  <2>1. k \in Task
    BY RestIsTask DEF Task, Errands, Beginnings
  <2>2. Becomes(t, k.does, k.room, k.user, k.fight, k.left)
    BY <2>1, BecomesTask DEF BeginStart
  <2> QED
    BY <2>2, RoomsAssumption DEF BeginStart, Rest
<1>2. UNCHANGED <<current, released, idOf, fought, playersOf, inRoom, public, roomsOf, battlesOf, present>>
  BY DEF BeginStart, vendor, here, battleState, lists
<1>e. begun' = begun + 1
  BY DEF BeginStart
<1>3. RoomsTypeOK'
  <2>1. begun' \in Nat
    BY <1>e DEF RoomsTypeOK
  <2> QED
    BY <1>1, <1>2, <2>1 DEF RoomsTypeOK, Becomes
<1>4. IdsInv'
  BY <1>2, IdsKept
<1>5. ExistInv'
  BY <1>1, <1>2, <1>e DEF ExistInv, BusyInv, Becomes, Living
<1>6. BeginInv'
  BY <1>1 DEF BeginInv, Becomes, Beginnings
<1>b. BusyInv'
  BY <1>1 DEF BusyInv, Becomes
<1>7. SameBegins
  BY <1>1 DEF SameBegins, BeginInv, Opened, Becomes, Beginnings
<1>8. BegunOnce' /\ FoughtExist' /\ KnownWhileFought' /\ NewlyKnown'
  BY <1>2, <1>7, BattlesKept
<1>a. \A x \in Room : Attended(x) => Attended(x)'
  BY <1>1, <1>2, <1>e, AttendedKept DEF Leavers
<1>9. PublicAttended'
  BY <1>2, <1>a, <1>e DEF PublicAttended, RoomsTypeOK
<1>10. NewAttended'
  BY <1>1, <1>a DEF NewAttended, Opened, Becomes
<1>11. NewKept'
  BY <1>1 DEF NewKept, Opened, Becomes
<1> QED
  BY <1>3, <1>4, <1>5, <1>6, <1>7, <1>8, <1>9, <1>10, <1>11, <1>b

LEMMA CountPopulationKeeps ==
    ASSUME RoomsInv, NEW t \in Threads, CountPopulation(t)
    PROVE  RoomsInv'
<1> USE DEF RoomsInv
<1>1. PICK to \in {"finalise", "parted"} :
      /\ task[t].does = "count" /\ (to = "parted" => inRoom[task[t].room] /= {})
      /\ Becomes(t, to, task[t].room, task[t].user, task[t].fight, task[t].left)
  <2>1. CASE inRoom[task[t].room] = {}
    BY <2>1, TurnsBecomes DEF CountPopulation, Errands, Leavers
  <2>2. CASE inRoom[task[t].room] /= {}
    BY <2>2, TurnsBecomes DEF CountPopulation, Errands
  <2> QED
    BY <2>1, <2>2
<1>2. UNCHANGED <<current, released, idOf, fought, playersOf, inRoom, public, roomsOf, battlesOf, present, begun>>
  BY DEF CountPopulation, vendor, here, battleState, lists
<1>3. RoomsTypeOK'
  BY <1>1, <1>2 DEF RoomsTypeOK, BusyInv, Becomes
<1>4. IdsInv'
  BY <1>2, IdsKept
<1>5. ExistInv'
  BY <1>1, <1>2 DEF ExistInv, BusyInv, Becomes, Living
<1>6. BeginInv'
  BY <1>1 DEF BeginInv, Becomes, Beginnings
<1>b. BusyInv'
  BY <1>1 DEF BusyInv, Becomes
<1>7. SameBegins
  BY <1>1 DEF SameBegins, BeginInv, Opened, Becomes, Beginnings
<1>8. BegunOnce' /\ FoughtExist' /\ KnownWhileFought' /\ NewlyKnown'
  BY <1>2, <1>7, BattlesKept
<1>a. \A x \in Room : Attended(x) => Attended(x)'
  <2> SUFFICES ASSUME NEW x \in Room, Attended(x)
               PROVE  Attended(x)'
    OBVIOUS
  <2>1. CASE to = "parted" /\ x = task[t].room
    BY <1>1, <1>2, <2>1 DEF Attended
  <2>2. CASE to = "finalise" \/ x /= task[t].room
    BY <1>1, <1>2, <2>2, AttendedKept DEF Leavers
  <2> QED
    BY <2>1, <2>2
<1>9. PublicAttended'
  BY <1>2, <1>a DEF PublicAttended, RoomsTypeOK
<1>10. NewAttended'
  BY <1>1, <1>a DEF NewAttended, Opened, Becomes
<1>11. NewKept'
  BY <1>1 DEF NewKept, Opened, Becomes
<1> QED
  BY <1>3, <1>4, <1>5, <1>6, <1>7, <1>8, <1>9, <1>10, <1>11, <1>b

LEMMA PartRoomKeeps ==
    ASSUME RoomsInv, NEW t \in Threads, PartRoom(t)
    PROVE  RoomsInv'
<1> USE DEF RoomsInv
<1>1. PICK to \in {"forfeit", "parted"} :
      /\ task[t].does = "part"
      /\ to = "forfeit" <=> task[t].user \in inRoom[task[t].room]
      /\ Becomes(t, to, task[t].room, task[t].user, task[t].fight, task[t].left)
  <2>1. CASE task[t].user \in inRoom[task[t].room]
    BY <2>1, TurnsBecomes DEF PartRoom, Errands, Leavers
  <2>2. CASE task[t].user \notin inRoom[task[t].room]
    BY <2>2, TurnsBecomes DEF PartRoom, Errands
  <2> QED
    BY <2>1, <2>2
<1>2. UNCHANGED <<current, released, idOf, fought, playersOf, public, roomsOf, battlesOf, present, begun>>
  BY DEF PartRoom, vendor, here, battleState, lists
<1>e. inRoom' = [inRoom EXCEPT ![task[t].room] = @ \ {task[t].user}]
  BY DEF PartRoom
<1>3. RoomsTypeOK'
  BY <1>1, <1>2, <1>e DEF RoomsTypeOK, BusyInv, Becomes
<1>4. IdsInv'
  BY <1>2, IdsKept
<1>5. ExistInv'
  BY <1>1, <1>2, <1>e DEF ExistInv, BusyInv, Becomes, Living
<1>6. BeginInv'
  BY <1>1 DEF BeginInv, Becomes, Beginnings
<1>b. BusyInv'
  BY <1>1 DEF BusyInv, Becomes
<1>7. SameBegins
  BY <1>1 DEF SameBegins, BeginInv, Opened, Becomes, Beginnings
<1>8. BegunOnce' /\ FoughtExist' /\ KnownWhileFought' /\ NewlyKnown'
  BY <1>2, <1>7, BattlesKept
<1>a. \A x \in Room : Attended(x) => Attended(x)'
  <2> SUFFICES ASSUME NEW x \in Room, Attended(x)
               PROVE  Attended(x)'
    OBVIOUS
  <2>1. CASE to = "forfeit" /\ x = task[t].room
    BY <1>1, <2>1 DEF Attended, Becomes, Leavers
  <2>2. CASE to = "parted" \/ x /= task[t].room
    <3>1. inRoom'[x] = inRoom[x]
      BY <1>1, <1>e, <2>2 DEF RoomsTypeOK, BusyInv
    <3> QED
      BY <1>1, <3>1, AttendedKept DEF Leavers
  <2> QED
    BY <1>1, <2>1, <2>2
<1>9. PublicAttended'
  BY <1>2, <1>a, <1>e DEF PublicAttended, RoomsTypeOK
<1>10. NewAttended'
  BY <1>1, <1>a DEF NewAttended, Opened, Becomes
<1>11. NewKept'
  BY <1>1 DEF NewKept, Opened, Becomes
<1> QED
  BY <1>3, <1>4, <1>5, <1>6, <1>7, <1>8, <1>9, <1>10, <1>11, <1>b

LEMMA StartListKeeps ==
    ASSUME RoomsInv, NEW t \in Threads, StartList(t)
    PROVE  RoomsInv'
<1> USE DEF RoomsInv
<1>1. PICK to \in {"join", "publish"}, u \in User :
      /\ task[t].does = "list" /\ task[t].fight /= <<>>
      /\ to = "join" => u = task[t].fight[2]
      /\ Becomes(t, to, task[t].room, u, task[t].fight, task[t].left)
  <2>1. CASE task[t].user = task[t].fight[1]
    <3> DEFINE k == [task[t] EXCEPT !.user = task[t].fight[2], !.does = "join"]
    <3>1. task[t].fight \in User \X User /\ task[t].fight[2] \in User
      BY TaskFields DEF StartList
    <3>2. task[t] \in Task
      BY DEF RoomsTypeOK
    <3>3. k \in Task
      BY <3>1, <3>2 DEF Task, Errands, Beginnings
    <3>4. task' = [task EXCEPT ![t] = k]
      BY <2>1 DEF StartList, RoomsTypeOK
    <3>5. Becomes(t, k.does, k.room, k.user, k.fight, k.left)
      BY <3>3, <3>4, BecomesTask
    <3> QED
      BY <3>1, <3>2, <3>5 DEF StartList, Task
  <2>2. CASE task[t].user /= task[t].fight[1]
    <3>1. Turns(t, "list", "publish")
      BY <2>2 DEF StartList, Turns
    <3> QED
      BY <3>1, TurnsBecomes DEF StartList, BusyInv, Errands, Beginnings
  <2> QED
    BY <2>1, <2>2
<1>2. UNCHANGED <<current, released, idOf, fought, playersOf, inRoom, public, battlesOf, present, begun>>
  BY DEF StartList, vendor, here, battleState, lists
<1>e. roomsOf' = [roomsOf EXCEPT ![task[t].user] = @ \cup {task[t].room}]
  BY DEF StartList
<1>3. RoomsTypeOK'
  BY <1>1, <1>2, <1>e DEF RoomsTypeOK, BusyInv, Becomes
<1>4. IdsInv'
  BY <1>2, IdsKept
<1>5. ExistInv'
  <2>1. task[t].room \in Living
    BY <1>1, RoomsAssumption DEF ExistInv, BusyInv
  <2>2. \A v \in User : roomsOf'[v] \subseteq roomsOf[v] \cup {task[t].room}
    BY <1>e DEF RoomsTypeOK
  <2> QED
    BY <1>1, <1>2, <2>1, <2>2 DEF ExistInv, Becomes, Living
<1>6. BeginInv'
  BY <1>1 DEF BeginInv, Becomes, Beginnings
<1>b. BusyInv'
  BY <1>1 DEF BusyInv, Becomes
<1>7. SameBegins
  BY <1>1 DEF SameBegins, BeginInv, Opened, Becomes, Beginnings
<1>8. BegunOnce' /\ FoughtExist' /\ KnownWhileFought' /\ NewlyKnown'
  BY <1>2, <1>7, BattlesKept
<1>a. \A x \in Room : Attended(x) => Attended(x)'
  BY <1>1, <1>2, <1>e, AttendedKept DEF Leavers
<1>9. PublicAttended'
  BY <1>2, <1>a, <1>e DEF PublicAttended, RoomsTypeOK
<1>10. NewAttended'
  <2>1. Attended(task[t].room) \/ ~Opened(t, task[t].room)
    BY <1>1 DEF NewAttended, BusyInv
  <2> QED
    BY <1>1, <1>a, <2>1 DEF NewAttended, Opened, Becomes
<1>11. NewKept'
  BY <1>1 DEF NewKept, Opened, Becomes
<1> QED
  BY <1>3, <1>4, <1>5, <1>6, <1>7, <1>8, <1>9, <1>10, <1>11, <1>b

LEMMA VisitInKeeps ==
    ASSUME RoomsInv, NEW t \in User, Visit(t),
           task[t].room \in fought /\ t \notin inRoom[task[t].room]
    PROVE  RoomsInv'
<1> USE DEF RoomsInv
<1>1. /\ task[t].does = "visit" /\ t \in Threads
      /\ Becomes(t, "list", task[t].room, task[t].user, task[t].fight, task[t].left)
  BY TurnsBecomes, StepThreads DEF Visit, Errands, Beginnings
<1>2. UNCHANGED <<current, released, idOf, fought, playersOf, public, roomsOf, battlesOf, present, begun>>
  BY DEF Visit, vendor, here, battleState, lists
<1>e. inRoom' = [inRoom EXCEPT ![task[t].room] = @ \cup {t}]
  BY DEF Visit
<1>3. RoomsTypeOK'
  BY <1>1, <1>2, <1>e DEF RoomsTypeOK, BusyInv, Becomes
<1>4. IdsInv'
  BY <1>2, IdsKept
<1>5. ExistInv'
  BY <1>1, <1>2, <1>e DEF ExistInv, BusyInv, Becomes, Living
<1>6. BeginInv'
  BY <1>1 DEF BeginInv, Becomes, Beginnings
<1>b. BusyInv'
  BY <1>1 DEF BusyInv, Becomes
<1>7. SameBegins
  BY <1>1 DEF SameBegins, BeginInv, Opened, Becomes, Beginnings
<1>8. BegunOnce' /\ FoughtExist' /\ KnownWhileFought' /\ NewlyKnown'
  BY <1>2, <1>7, BattlesKept
<1>a. \A x \in Room : Attended(x) => Attended(x)'
  BY <1>1, <1>2, <1>e, AttendedKept DEF Leavers
<1>9. PublicAttended'
  BY <1>2, <1>a, <1>e DEF PublicAttended, RoomsTypeOK
<1>10. NewAttended'
  BY <1>1, <1>a DEF NewAttended, Opened, Becomes
<1>11. NewKept'
  BY <1>1, KeptStays
<1> QED
  BY <1>3, <1>4, <1>5, <1>6, <1>7, <1>8, <1>9, <1>10, <1>11, <1>b

LEMMA VisitOutKeeps ==
    ASSUME RoomsInv, NEW t \in User, Visit(t),
           ~(task[t].room \in fought /\ t \notin inRoom[task[t].room])
    PROVE  RoomsInv'
<1> USE DEF RoomsInv
<1>1. /\ task[t].does = "visit" /\ t \in Threads
      /\ Becomes(t, "rest", Nobody, Nobody, <<>>, {})
  BY StopsBecomes, StepThreads DEF Visit
<1>2. UNCHANGED <<current, released, idOf, fought, playersOf, inRoom, public, roomsOf, battlesOf, present, begun>>
  BY DEF Visit, vendor, here, battleState, lists
<1>3. RoomsTypeOK'
  BY <1>1, <1>2 DEF RoomsTypeOK, BusyInv, Becomes
<1>4. IdsInv'
  BY <1>2, IdsKept
<1>5. ExistInv'
  BY <1>1, <1>2 DEF ExistInv, BusyInv, Becomes, Living
<1>6. BeginInv'
  BY <1>1 DEF BeginInv, Becomes, Beginnings
<1>b. BusyInv'
  BY <1>1 DEF BusyInv, Becomes
<1>7. SameBegins
  BY <1>1 DEF SameBegins, BeginInv, Opened, Becomes, Beginnings
<1>8. BegunOnce' /\ FoughtExist' /\ KnownWhileFought' /\ NewlyKnown'
  BY <1>2, <1>7, BattlesKept
<1>a. \A x \in Room : Attended(x) => Attended(x)'
  BY <1>1, <1>2, AttendedKept DEF Leavers
<1>9. PublicAttended'
  BY <1>2, <1>a DEF PublicAttended, RoomsTypeOK
<1>10. NewAttended'
  BY <1>1, <1>a DEF NewAttended, Opened, Becomes
<1>11. NewKept'
  BY <1>1 DEF NewKept, Opened, Becomes
<1> QED
  BY <1>3, <1>4, <1>5, <1>6, <1>7, <1>8, <1>9, <1>10, <1>11, <1>b

LEMMA PartedOneKeeps ==
    ASSUME RoomsInv, NEW t \in Threads, Parted(t), task[t].left = {}
    PROVE  RoomsInv'
<1> USE DEF RoomsInv
<1>1. /\ task[t].does = "parted" /\ task[t].user \in User
      /\ Becomes(t, "rest", Nobody, Nobody, <<>>, {})
  BY StopsBecomes DEF Parted, BusyInv
<1>2. UNCHANGED <<current, released, idOf, fought, playersOf, inRoom, public, battlesOf, present, begun>>
  BY DEF Parted, vendor, here, battleState, lists
<1>e. roomsOf' = [roomsOf EXCEPT ![task[t].user] = @ \ {task[t].room}]
  BY DEF Parted
<1>3. RoomsTypeOK'
  BY <1>1, <1>2, <1>e DEF RoomsTypeOK, BusyInv, Becomes
<1>4. IdsInv'
  BY <1>2, IdsKept
<1>5. ExistInv'
  <2>1. \A u \in User : roomsOf'[u] \subseteq roomsOf[u]
    BY <1>1, <1>e DEF RoomsTypeOK
  <2> QED
    BY <1>1, <1>2, <2>1 DEF ExistInv, Becomes, Living
<1>6. BeginInv'
  BY <1>1 DEF BeginInv, Becomes, Beginnings
<1>b. BusyInv'
  BY <1>1 DEF BusyInv, Becomes
<1>7. SameBegins
  BY <1>1 DEF SameBegins, BeginInv, Opened, Becomes, Beginnings
<1>8. BegunOnce' /\ FoughtExist' /\ KnownWhileFought' /\ NewlyKnown'
  BY <1>2, <1>7, BattlesKept
<1>a. \A x \in Room : Attended(x) => Attended(x)'
  BY <1>1, <1>2, <1>e, AttendedKept DEF Leavers
<1>9. PublicAttended'
  BY <1>2, <1>a, <1>e DEF PublicAttended, RoomsTypeOK
<1>10. NewAttended'
  BY <1>1, <1>a DEF NewAttended, Opened, Becomes
<1>11. NewKept'
  BY <1>1 DEF NewKept, Opened, Becomes
<1> QED
  BY <1>3, <1>4, <1>5, <1>6, <1>7, <1>8, <1>9, <1>10, <1>11, <1>b

LEMMA PartedLastKeeps ==
    ASSUME RoomsInv, NEW t \in Threads, Parted(t),
           task[t].left /= {}, task[t].left \ {task[t].room} = {}
    PROVE  RoomsInv'
<1> USE DEF RoomsInv
<1>1. /\ task[t].does = "parted" /\ task[t].user \in User
      /\ Becomes(t, "rest", Nobody, Nobody, <<>>, {})
  BY StopsBecomes DEF Parted, BusyInv
<1>2. UNCHANGED <<current, released, idOf, fought, playersOf, inRoom, public, battlesOf, begun>>
  BY DEF Parted, vendor, here, battleState, lists
<1>e. /\ roomsOf' = [roomsOf EXCEPT ![task[t].user] = {}]
      /\ present' = present \ {task[t].user}
  BY DEF Parted
<1>3. RoomsTypeOK'
  BY <1>1, <1>2, <1>e DEF RoomsTypeOK, BusyInv, Becomes
<1>4. IdsInv'
  BY <1>2, IdsKept
<1>5. ExistInv'
  <2>1. \A u \in User : roomsOf'[u] \subseteq roomsOf[u]
    BY <1>1, <1>e DEF RoomsTypeOK
  <2> QED
    BY <1>1, <1>2, <2>1 DEF ExistInv, Becomes, Living
<1>6. BeginInv'
  BY <1>1 DEF BeginInv, Becomes, Beginnings
<1>b. BusyInv'
  BY <1>1 DEF BusyInv, Becomes
<1>7. SameBegins
  BY <1>1 DEF SameBegins, BeginInv, Opened, Becomes, Beginnings
<1>8. BegunOnce' /\ FoughtExist' /\ KnownWhileFought' /\ NewlyKnown'
  BY <1>2, <1>7, BattlesKept
<1>a. \A x \in Room : Attended(x) => Attended(x)'
  BY <1>1, <1>2, <1>e, AttendedKept DEF Leavers
<1>9. PublicAttended'
  BY <1>2, <1>a, <1>e DEF PublicAttended, RoomsTypeOK
<1>10. NewAttended'
  BY <1>1, <1>a DEF NewAttended, Opened, Becomes
<1>11. NewKept'
  BY <1>1 DEF NewKept, Opened, Becomes
<1> QED
  BY <1>3, <1>4, <1>5, <1>6, <1>7, <1>8, <1>9, <1>10, <1>11, <1>b

LEMMA PartedNextKeeps ==
    ASSUME RoomsInv, NEW t \in Threads, Parted(t),
           task[t].left /= {}, task[t].left \ {task[t].room} /= {}
    PROVE  RoomsInv'
<1> USE DEF RoomsInv
<1>1. PICK y \in task[t].left \ {task[t].room} :
      /\ task[t].does = "parted" /\ task[t].fight = <<>>
      /\ Becomes(t, "part", y, task[t].user, task[t].fight, task[t].left \ {task[t].room})
  <2> DEFINE rest == task[t].left \ {task[t].room}
  <2>1. PICK x \in rest :
           task' = [task EXCEPT ![t].does = "part", ![t].room = x, ![t].left = rest]
    BY DEF Parted
  <2> DEFINE k == [task[t] EXCEPT !.does = "part", !.room = x, !.left = rest]
  <2>2. task[t] \in Task /\ rest \in SUBSET Room
    BY TaskFields DEF RoomsTypeOK
  <2>3. k \in Task
    BY <2>2 DEF Task, Errands
  <2>4. task' = [task EXCEPT ![t] = k]
    BY <2>1 DEF RoomsTypeOK
  <2>5. Becomes(t, k.does, k.room, k.user, k.fight, k.left)
    BY <2>3, <2>4, BecomesTask
  <2>6. task[t].does = "parted" /\ task[t].fight = <<>>
    BY DEF Parted, BeginInv, Beginnings
  <2> QED
    BY <2>2, <2>5, <2>6 DEF Task
<1>2. UNCHANGED <<current, released, idOf, fought, playersOf, inRoom, public, roomsOf, battlesOf, present, begun>>
  BY DEF Parted, vendor, here, battleState, lists
<1>3. RoomsTypeOK'
  BY <1>1, <1>2 DEF RoomsTypeOK, BusyInv, Becomes
<1>4. IdsInv'
  BY <1>2, IdsKept
<1>5. ExistInv'
  BY <1>1, <1>2 DEF ExistInv, BusyInv, Becomes, Living
<1>6. BeginInv'
  BY <1>1 DEF BeginInv, Becomes, Beginnings
<1>b. BusyInv'
  BY <1>1 DEF BusyInv, Becomes, ExistInv, Living
<1>7. SameBegins
  BY <1>1 DEF SameBegins, BeginInv, Opened, Becomes, Beginnings
<1>8. BegunOnce' /\ FoughtExist' /\ KnownWhileFought' /\ NewlyKnown'
  BY <1>2, <1>7, BattlesKept
<1>a. \A x \in Room : Attended(x) => Attended(x)'
  BY <1>1, <1>2, AttendedKept DEF Leavers
<1>9. PublicAttended'
  BY <1>2, <1>a DEF PublicAttended, RoomsTypeOK
<1>10. NewAttended'
  BY <1>1, <1>a DEF NewAttended, Opened, Becomes
<1>11. NewKept'
  BY <1>1 DEF NewKept, Opened, Becomes
<1> QED
  BY <1>3, <1>4, <1>5, <1>6, <1>7, <1>8, <1>9, <1>10, <1>11, <1>b

(* A battle that is begun by nobody any more ends: nobody knows it then.    *)
LEMMA BattleEnds ==
    ASSUME RoomsTypeOK, BegunOnce, FoughtExist, KnownWhileFought, NewlyKnown, SameBegins,
           NEW r \in Room, r \in fought, ~Monitored(r), EndBattle(r),
           UNCHANGED <<idOf, playersOf>>
    PROVE  /\ fought' \subseteq Room /\ battlesOf' \in [User -> SUBSET Room]
           /\ BegunOnce' /\ FoughtExist' /\ KnownWhileFought' /\ NewlyKnown'
<1>1. fought' = fought \ {r} /\ playersOf[r] \in User \X User
  BY DEF EndBattle, FoughtExist
<1>2. \A u \in User : battlesOf'[u] = IF \E i \in 1 .. 2 : playersOf[r][i] = u
                                      THEN battlesOf[u] \ {r} ELSE battlesOf[u]
  BY DEF EndBattle
<1>3. battlesOf' \in [User -> SUBSET Room]
  BY DEF EndBattle, RoomsTypeOK
<1>4. BegunOnce' /\ FoughtExist'
  BY <1>1 DEF SameBegins, BegunOnce, FoughtExist, Living
<1>5. \A u \in User : r \notin battlesOf'[u]
  <2>1. \A u \in User : r \in battlesOf[u] <=> \E i \in 1 .. 2 : playersOf[r][i] = u
    BY DEF KnownWhileFought
  <2> QED
    BY <1>2, <2>1, ZenonT(60)
<1>6. \A u \in User, x \in Room \ {r} : x \in battlesOf'[u] <=> x \in battlesOf[u]
  BY <1>2
<1>7. \A x \in Room : Monitored(x)' <=> Monitored(x)
  BY DEF SameBegins, Opened, Monitored
<1>8. KnownWhileFought'
  <2> SUFFICES ASSUME NEW x \in Room, ~Monitored(x)', NEW u \in User
               PROVE  x \in battlesOf'[u] <=>
                          x \in fought' /\ \E i \in 1 .. 2 : playersOf[x][i] = u
    BY DEF KnownWhileFought
  <2>1. CASE x = r
    BY <1>1, <1>5, <2>1
  <2>2. CASE x /= r
    BY <1>1, <1>6, <1>7, <2>2 DEF KnownWhileFought
  <2> QED
    BY <2>1, <2>2
<1>9. NewlyKnown'
  <2> SUFFICES ASSUME NEW x \in Room, NEW s \in Threads, Opened(s, x)'
               PROVE  /\ x \in fought' /\ playersOf[x] = task'[s].fight
                      /\ \A u \in User : x \in battlesOf'[u] <=>
                            task'[s].does = "insertSecond" /\ u = task'[s].fight[1]
    BY DEF NewlyKnown
  <2>1. /\ Opened(s, x) /\ task'[s].fight = task[s].fight
        /\ task'[s].does = "insertSecond" <=> task[s].does = "insertSecond"
    BY DEF SameBegins
  <2>2. x /= r
    BY <2>1 DEF Opened, Monitored
  <2>3. /\ x \in fought /\ playersOf[x] = task[s].fight
        /\ \A u \in User :
              x \in battlesOf[u] <=> task[s].does = "insertSecond" /\ u = task[s].fight[1]
    BY <2>1 DEF NewlyKnown
  <2> QED
    BY <1>1, <1>6, <2>1, <2>2, <2>3
<1> QED
  BY <1>1, <1>3, <1>4, <1>8, <1>9 DEF RoomsTypeOK

LEMMA HandlePartKeeps ==
    ASSUME RoomsInv, NEW t \in Threads, HandlePart(t)
    PROVE  RoomsInv'
<1> USE DEF RoomsInv
<1>1. /\ task[t].does = "forfeit"
      /\ Becomes(t, "count", task[t].room, task[t].user, task[t].fight, task[t].left)
  BY TurnsBecomes DEF HandlePart, Errands, Leavers
<1>2. UNCHANGED <<current, released, idOf, playersOf, inRoom, public, roomsOf, present, begun>>
  BY DEF HandlePart, vendor, here, battleState, lists
<1>7. SameBegins
  BY <1>1 DEF SameBegins, BeginInv, Opened, Becomes, Beginnings
<1>8. /\ fought' \subseteq Room /\ battlesOf' \in [User -> SUBSET Room]
      /\ BegunOnce' /\ FoughtExist' /\ KnownWhileFought' /\ NewlyKnown'
  <2>0. task[t].room \in Room /\ ~Monitored(task[t].room)
    BY <1>1 DEF BusyInv, HandlePart
  <2>1. CASE EndBattle(task[t].room) /\ task[t].room \in fought
    BY <1>2, <1>7, <2>0, <2>1, BattleEnds
  <2>2. CASE UNCHANGED <<fought, battlesOf>>
    BY <1>2, <1>7, <2>2, BattlesKept DEF RoomsTypeOK
  <2> QED
    BY <2>1, <2>2 DEF HandlePart
<1>3. RoomsTypeOK'
  <2>1. fought' \subseteq Room /\ battlesOf' \in [User -> SUBSET Room]
    BY <1>8 DEF RoomsTypeOK
  <2> QED
    BY <1>1, <1>2, <2>1 DEF RoomsTypeOK, Becomes
<1>4. IdsInv'
  BY <1>2, IdsKept
<1>5. ExistInv'
  BY <1>1, <1>2 DEF ExistInv, BusyInv, Becomes, Living
<1>6. BeginInv'
  BY <1>1 DEF BeginInv, Becomes, Beginnings
<1>b. BusyInv'
  BY <1>1 DEF BusyInv, Becomes
<1>a. \A x \in Room : Attended(x) => Attended(x)'
  BY <1>1, <1>2, AttendedKept DEF Leavers
<1>9. PublicAttended'
  BY <1>2, <1>a DEF PublicAttended, RoomsTypeOK
<1>10. NewAttended'
  BY <1>1, <1>a DEF NewAttended, Opened, Becomes
<1>11. NewKept'
  <2>1. \A s \in Threads : ~Opened(s, task[t].room)
    BY DEF HandlePart, Monitored, Opened
  <2> QED
    BY <1>1, <2>1 DEF NewKept, Opened, Becomes
<1> QED
  BY <1>3, <1>4, <1>5, <1>6, <1>7, <1>8, <1>9, <1>10, <1>11, <1>b

(* Where only a battle or the list of those who are there changes.         *)
LEMMA InformVictoryOfKeeps ==
    ASSUME RoomsInv, NEW r \in Room, InformVictoryOf(r)
    PROVE  RoomsInv'
<1> USE DEF RoomsInv
<1>1. UNCHANGED <<current, released, idOf, playersOf, inRoom, public, roomsOf, present, begun,
                  task>>
  BY DEF InformVictoryOf, vendor, here, lists
<1>2. SameBegins
  BY <1>1 DEF SameBegins, Opened
<1>3. /\ fought' \subseteq Room /\ battlesOf' \in [User -> SUBSET Room]
      /\ BegunOnce' /\ FoughtExist' /\ KnownWhileFought' /\ NewlyKnown'
  BY <1>1, <1>2, BattleEnds DEF InformVictoryOf
<1>4. RoomsTypeOK'
  BY <1>1, <1>3 DEF RoomsTypeOK
<1>5. IdsInv' /\ ExistInv' /\ BeginInv' /\ BusyInv'
  BY <1>1, IdsKept DEF ExistInv, BeginInv, BusyInv, Living
<1>6. PublicAttended' /\ NewAttended' /\ NewKept'
  BY <1>1 DEF PublicAttended, NewAttended, NewKept, Attended, Opened
<1> QED
  BY <1>3, <1>4, <1>5, <1>6

LEMMA BeginDisconnectNowhereKeeps ==
    ASSUME RoomsInv,
           \/ \E t \in Threads, u \in User : BeginDisconnectNowhere(t, u)
           \/ UNCHANGED roomVars
    PROVE  RoomsInv'
<1> USE DEF RoomsInv
<1>1. UNCHANGED <<current, released, idOf, fought, playersOf, inRoom, public, roomsOf, battlesOf,
                  begun, task>> /\ present' \subseteq present
  BY DEF BeginDisconnectNowhere, vendor, battleState, lists, roomVars
<1>2. SameBegins
  BY <1>1 DEF SameBegins, Opened
<1>3. BegunOnce' /\ FoughtExist' /\ KnownWhileFought' /\ NewlyKnown'
  BY <1>1, <1>2, BattlesKept
<1>4. RoomsTypeOK'
  BY <1>1 DEF RoomsTypeOK
<1>5. IdsInv' /\ ExistInv' /\ BeginInv' /\ BusyInv'
  BY <1>1, IdsKept DEF ExistInv, BeginInv, BusyInv, Living
<1>6. PublicAttended' /\ NewAttended' /\ NewKept'
  BY <1>1 DEF PublicAttended, NewAttended, NewKept, Attended, Opened
<1> QED
  BY <1>3, <1>4, <1>5, <1>6

(* A battle is begun with a room that nothing refers to.                   *)
LEMMA CreateKeeps ==
    ASSUME RoomsInv, NEW t \in Threads, NEW number \in 0 .. MaxId, Create(t, number),
           task[t].does \in {"acquire", "acquireNew"},
           current' \in Nat, released' \in Seq(0 .. MaxId), IdsInv'
    PROVE  RoomsInv'
<1> USE DEF RoomsInv
<1>1. PICK r \in Room \ Living :
         /\ idOf' = [idOf EXCEPT ![r] = number]
         /\ fought' = fought \cup {r}
         /\ playersOf' = [playersOf EXCEPT ![r] = task[t].fight]
         /\ task' = [task EXCEPT ![t].does = "join", ![t].room = r]
         /\ Living' = Living \cup {r}
  BY CreatedIsNew
<1>2. UNCHANGED <<inRoom, public, roomsOf, battlesOf, present, begun>>
  BY DEF Create, lists, here
<1>3. Becomes(t, "join", r, task[t].user, task[t].fight, task[t].left)
  <2> DEFINE k == [task[t] EXCEPT !.does = "join", !.room = r]
  <2>1. task[t] \in Task
    BY DEF RoomsTypeOK
  <2>2. k \in Task
    BY <2>1 DEF Task, Errands, Beginnings
  <2>3. task' = [task EXCEPT ![t] = k]
    BY <1>1 DEF RoomsTypeOK
  <2>4. Becomes(t, k.does, k.room, k.user, k.fight, k.left)
    BY <2>2, <2>3, BecomesTask
  <2> QED
    BY <2>1, <2>4 DEF Task
<1>4. /\ task[t].fight \in User \X User /\ task[t].fight /= <<>>
      /\ task[t].user = task[t].fight[1] /\ task[t].user \in User /\ task[t].room = Nobody
  <2>1. task[t].fight /= <<>> /\ task[t].room = Nobody
    BY DEF BeginInv, Beginnings
  <2> QED
    BY <2>1, TaskFields DEF BusyInv
<1>5. r \in Room /\ r /= Nobody /\ \A s \in Threads : task[s].room /= r
  BY <1>1, RoomsAssumption DEF ExistInv
<1>6. \A s \in Threads, x \in Room : Opened(s, x)' <=> (s = t /\ x = r) \/ (s /= t /\ Opened(s, x))
  <2>1. task'[t].room = r /\ task'[t].fight /= <<>>
    BY <1>3, <1>4 DEF Becomes
  <2>2. \A s \in Threads \ {t} : task'[s] = task[s]
    BY <1>3 DEF Becomes
  <2>3. \A x \in Room : Opened(t, x)' <=> x = r
    BY <2>1 DEF Opened
  <2>4. \A s \in Threads \ {t}, x \in Room : Opened(s, x)' <=> Opened(s, x)
    BY <2>2 DEF Opened
  <2> QED
    BY <2>3, <2>4
<1>7. RoomsTypeOK'
  BY <1>1, <1>2, <1>3, <1>4 DEF RoomsTypeOK, Becomes
<1>8. ExistInv'
  <2>1. Living' = Living \cup {r}
    BY <1>1
  <2>2. \A s \in Threads : task'[s].room \in Living' \cup {Nobody} /\ task'[s].left \subseteq Living'
    <3>1. ASSUME NEW s \in Threads
          PROVE  task'[s].room \in Living' \cup {Nobody} /\ task'[s].left \subseteq Living'
      <4>1. task[s].room \in Living \cup {Nobody} /\ task[s].left \subseteq Living
        BY DEF ExistInv
      <4>2. CASE s = t
        BY <1>3, <2>1, <4>1, <4>2 DEF Becomes
      <4>3. CASE s /= t
        BY <1>3, <2>1, <4>1, <4>3 DEF Becomes
      <4> QED
        BY <4>2, <4>3
    <3> QED
      BY <3>1
  <2>3. public' \subseteq Living' /\ \A u \in User : roomsOf'[u] \subseteq Living'
    BY <1>2, <2>1 DEF ExistInv
  <2> QED
    BY <2>2, <2>3 DEF ExistInv
<1>9. BeginInv' /\ BusyInv'
  BY <1>3, <1>4, <1>5 DEF BeginInv, BusyInv, Becomes, Beginnings
<1>10. BegunOnce'
  <2>1. \A s \in Threads : ~Opened(s, r)
    BY <1>5 DEF Opened
  <2> QED
    <3> SUFFICES ASSUME NEW s \in Threads, NEW q \in Threads, NEW x \in Room,
                        Opened(s, x)', Opened(q, x)'
                 PROVE  s = q
      BY DEF BegunOnce
    <3>1. CASE x = r
      BY <1>6, <2>1, <3>1
    <3>2. CASE x /= r
      BY <1>6, <3>2 DEF BegunOnce
    <3> QED
      BY <3>1, <3>2
<1>11. FoughtExist'
  <2>1. \A x \in Living : x \in Room /\ x /= r /\ playersOf'[x] = playersOf[x]
    BY <1>1 DEF RoomsTypeOK, Living
  <2>2. playersOf'[r] = task[t].fight
    BY <1>1 DEF RoomsTypeOK
  <2> QED
    BY <1>1, <1>4, <2>1, <2>2 DEF FoughtExist
<1>12. \A u \in User : r \notin battlesOf[u]
  BY <1>1, <1>5 DEF KnownWhileFought, FoughtExist, Monitored
<1>13. KnownWhileFought'
  <2> SUFFICES ASSUME NEW x \in Room, ~Monitored(x)', NEW u \in User
               PROVE  x \in battlesOf'[u] <=>
                          x \in fought' /\ \E i \in 1 .. 2 : playersOf'[x][i] = u
    BY DEF KnownWhileFought
  <2>1. x /= r
    BY <1>3, <1>4 DEF Monitored, Becomes
  <2>2. ~Monitored(x)
    <3>1. \A s \in Threads : s /= t => ~Opened(s, x)
      BY <1>6 DEF Monitored, Opened
    <3> QED
      BY <1>4, <1>5, <3>1, RoomsAssumption DEF Monitored, Opened
  <2> QED
    BY <1>1, <1>2, <2>1, <2>2 DEF KnownWhileFought, RoomsTypeOK
<1>14. NewlyKnown'
  <2> SUFFICES ASSUME NEW x \in Room, NEW s \in Threads, Opened(s, x)'
               PROVE  /\ x \in fought' /\ playersOf'[x] = task'[s].fight
                      /\ \A u \in User : x \in battlesOf'[u] <=>
                            task'[s].does = "insertSecond" /\ u = task'[s].fight[1]
    BY DEF NewlyKnown
  <2>1. CASE s = t /\ x = r
    BY <1>1, <1>2, <1>3, <1>12, <2>1 DEF Becomes, RoomsTypeOK
  <2>2. CASE s /= t /\ Opened(s, x)
    <3>1. x /= r /\ task'[s] = task[s]
      BY <1>3, <1>5, <2>2 DEF Opened, Becomes
    <3>2. /\ x \in fought /\ playersOf[x] = task[s].fight
          /\ \A u \in User :
                x \in battlesOf[u] <=> task[s].does = "insertSecond" /\ u = task[s].fight[1]
      BY <2>2 DEF NewlyKnown
    <3> QED
      BY <1>1, <1>2, <3>1, <3>2 DEF RoomsTypeOK
  <2> QED
    BY <1>6, <2>1, <2>2
<1>15. \A x \in Room : Attended(x) => Attended(x)'
  BY <1>2, <1>3, AttendedKept DEF Leavers
<1>16. PublicAttended'
  BY <1>2, <1>15 DEF PublicAttended, RoomsTypeOK
<1>17. NewAttended'
  BY <1>3, <1>4, <1>6, <1>15 DEF NewAttended, Becomes
<1>18. NewKept'
  <2> SUFFICES ASSUME NEW x \in Room, NEW s \in Threads, NEW q \in Threads,
                      Opened(s, x)', task'[q].room = x
               PROVE  task'[q].does \notin {"count", "finalise"}
    BY DEF NewKept
  <2>1. CASE q = t
    BY <1>3, <2>1 DEF Becomes
  <2>2. CASE q /= t
    <3>1. task[q].room = x /\ task'[q] = task[q]
      BY <1>3, <2>2 DEF Becomes
    <3>2. x /= r
      BY <1>5, <3>1
    <3> QED
      BY <1>6, <3>1, <3>2 DEF NewKept
  <2> QED
    BY <2>1, <2>2
<1> QED
  BY <1>7, <1>8, <1>9, <1>10, <1>11, <1>13, <1>14, <1>16, <1>17, <1>18

(* An identifier that was released is of no room, and is not drawn twice.  *)
LEMMA AcquireReleasedKeeps ==
    ASSUME RoomsInv, NEW t \in Threads, AcquireReleased(t)
    PROVE  RoomsInv'
<1> USE DEF RoomsInv
<1>1. /\ released \in Seq(0 .. MaxId) /\ released /= <<>> /\ Create(t, released[1])
      /\ released' = Tail(released) /\ current' = current
  BY DEF AcquireReleased, RoomsTypeOK
<1>2. /\ Len(released) \in Nat \ {0} /\ released[1] \in 0 .. MaxId
      /\ released' \in Seq(0 .. MaxId) /\ Len(released') = Len(released) - 1
      /\ \A i \in 1 .. Len(released') : released'[i] = released[i + 1]
  <2>1. Len(released) \in Nat \ {0}
    BY <1>1, EmptySeq
  <2>2. released[1] \in 0 .. MaxId
    <3>1. 1 \in 1 .. Len(released)
      BY <2>1
    <3> QED
      BY <1>1, <3>1, ElementOfSeq
  <2> QED
    BY <1>1, <2>1, <2>2, HeadTailProperties
<1>3. PICK r \in Room \ Living : /\ idOf' = [idOf EXCEPT ![r] = released[1]]
                                 /\ Living' = Living \cup {r}
  BY <1>1, <1>2, CreatedIsNew
<1>4. /\ idOf'[r] = released[1]
      /\ \A x \in Living : x /= r /\ idOf'[x] = idOf[x]
  BY <1>3 DEF RoomsTypeOK, Living
<1>5. 1 \in 1 .. Len(released)
  BY <1>2
<1>6. /\ released[1] < current /\ released[1] \notin Reserved
      /\ \A x \in Living : idOf[x] /= released[1]
      /\ \A j \in 1 .. Len(released) : released[1] = released[j] => 1 = j
  BY <1>5 DEF IdsInv
<1>7. \A x \in Living' : idOf'[x] \in 0 .. MaxId /\ idOf'[x] < current' /\ idOf'[x] \notin Reserved
  BY <1>1, <1>2, <1>3, <1>4, <1>6 DEF IdsInv
<1>8. \A x, y \in Living' : idOf'[x] = idOf'[y] => x = y
  BY <1>3, <1>4, <1>6 DEF IdsInv
<1>9. ASSUME NEW i \in 1 .. Len(released')
      PROVE  /\ released'[i] < current' /\ released'[i] \notin Reserved
             /\ \A x \in Living' : idOf'[x] /= released'[i]
             /\ \A j \in 1 .. Len(released') : released'[i] = released'[j] => i = j
  <2>1. i + 1 \in 1 .. Len(released) /\ i + 1 /= 1 /\ released'[i] = released[i + 1]
    BY <1>2
  <2>2. /\ released[i + 1] < current /\ released[i + 1] \notin Reserved
        /\ \A x \in Living : idOf[x] /= released[i + 1]
        /\ \A j \in 1 .. Len(released) : released[i + 1] = released[j] => i + 1 = j
    BY <2>1 DEF IdsInv
  <2>3. released[1] /= released[i + 1]
    BY <1>6, <2>1
  <2>4. ASSUME NEW j \in 1 .. Len(released'), released'[i] = released'[j]
        PROVE  i = j
    <3>1. j + 1 \in 1 .. Len(released) /\ released'[j] = released[j + 1]
      BY <1>2
    <3>2. i + 1 = j + 1
      BY <2>1, <2>2, <2>4, <3>1
    <3> QED
      BY <3>2
  <2> QED
    BY <1>1, <1>3, <1>4, <2>1, <2>2, <2>3, <2>4
<1>10. IdsInv'
  BY <1>7, <1>8, <1>9 DEF IdsInv
<1> QED
  BY <1>1, <1>2, <1>10, CreateKeeps DEF AcquireReleased, RoomsTypeOK

(* One that is drawn anew is above all that were drawn.                    *)
LEMMA AcquireNewKeeps ==
    ASSUME RoomsInv, NEW t \in Threads, AcquireNew(t)
    PROVE  RoomsInv'
<1> USE DEF RoomsInv
<1> DEFINE number == Fresh
<1>1. /\ number \in current .. MaxId /\ number \notin Reserved /\ number \in 0 .. MaxId
  BY FreshIsNew DEF AcquireNew, RoomsTypeOK
<1>2. Create(t, number) /\ current' = number + 1 /\ released' = released
  BY DEF AcquireNew
<1> HIDE DEF number
<1>3. /\ number \in Nat /\ current \in Nat /\ current' \in Nat /\ current <= number /\ number < current'
  BY <1>1, <1>2, RoomsAssumption DEF RoomsTypeOK
<1>4. PICK r \in Room \ Living : idOf' = [idOf EXCEPT ![r] = number] /\ Living' = Living \cup {r}
  BY <1>1, <1>2, CreatedIsNew
<1>5. /\ idOf'[r] = number
      /\ \A x \in Living : x /= r /\ idOf'[x] = idOf[x]
  BY <1>4 DEF RoomsTypeOK, Living
<1>6. \A x \in Living : idOf[x] \in 0 .. MaxId /\ idOf[x] < number /\ idOf[x] < current'
                        /\ idOf[x] \notin Reserved
  BY <1>3, RoomsAssumption DEF IdsInv
<1>7. \A x \in Living' : idOf'[x] \in 0 .. MaxId /\ idOf'[x] < current' /\ idOf'[x] \notin Reserved
  BY <1>1, <1>3, <1>4, <1>5, <1>6
<1>8. \A x, y \in Living' : idOf'[x] = idOf'[y] => x = y
  <2>1. \A x \in Living : idOf[x] /= number
    BY <1>3, <1>6, RoomsAssumption
  <2> QED
    BY <1>4, <1>5, <2>1 DEF IdsInv
<1>9. ASSUME NEW i \in 1 .. Len(released)
      PROVE  /\ released[i] < current' /\ released[i] \notin Reserved
             /\ \A x \in Living' : idOf'[x] /= released[i]
             /\ \A j \in 1 .. Len(released) : released[i] = released[j] => i = j
  <2>1. /\ released[i] < current /\ released[i] \notin Reserved
        /\ \A x \in Living : idOf[x] /= released[i]
        /\ \A j \in 1 .. Len(released) : released[i] = released[j] => i = j
    BY DEF IdsInv
  <2>2. released[i] \in Nat
    BY RoomsAssumption DEF RoomsTypeOK
  <2>3. released[i] < current' /\ released[i] /= number
    BY <1>3, <2>1, <2>2
  <2> QED
    BY <1>4, <1>5, <2>1, <2>3
<1>10. IdsInv'
  BY <1>2, <1>7, <1>8, <1>9 DEF IdsInv
<1> QED
  BY <1>1, <1>2, <1>3, <1>10, CreateKeeps DEF AcquireNew, RoomsTypeOK

(* A room that nothing refers to gives its identifier back.                *)
LEMMA DestroyKeeps ==
    ASSUME RoomsInv, NEW r \in Room, Destroy(r)
    PROVE  RoomsInv'
<1> USE DEF RoomsInv
<1>1. UNCHANGED <<current, public, roomsOf, battlesOf, present, begun, task>>
  BY DEF Destroy, lists, here
<1>2. /\ idOf' = [idOf EXCEPT ![r] = NoId] /\ released' = Append(released, idOf[r])
      /\ fought' = fought \ {r} /\ playersOf' = [playersOf EXCEPT ![r] = <<Nobody, Nobody>>]
      /\ inRoom' = [inRoom EXCEPT ![r] = {}] /\ r \in Living
  BY DEF Destroy
<1>3. /\ r \notin public /\ \A u \in User : r \notin roomsOf[u] /\ r \notin battlesOf[u]
      /\ \A t \in Threads : task[t].room /= r /\ r \notin task[t].left
  BY DEF Destroy, Referred
<1>4. Living' = Living \ {r} /\ \A x \in Living \ {r} : idOf'[x] = idOf[x]
  BY <1>2 DEF Living, RoomsTypeOK
<1>5. idOf[r] \in 0 .. MaxId /\ idOf[r] < current /\ idOf[r] \notin Reserved
  BY <1>2 DEF IdsInv
<1>6. RoomsTypeOK'
  BY <1>1, <1>2, <1>5 DEF RoomsTypeOK
<1>7. IdsInv'
  <2>1. /\ Len(released) \in Nat /\ Len(released') = Len(released) + 1
        /\ released'[Len(released')] = idOf[r]
        /\ \A i \in 1 .. Len(released) : released'[i] = released[i]
    BY <1>2, <1>5 DEF RoomsTypeOK
  <2>2. \A x \in Living \ {r} : idOf[x] /= idOf[r]
    BY <1>2 DEF IdsInv
  <2>3. \A i \in 1 .. Len(released) : released[i] /= idOf[r]
    BY <1>2 DEF IdsInv
  <2>4. ASSUME NEW i \in 1 .. Len(released')
        PROVE  /\ released'[i] < current /\ released'[i] \notin Reserved
               /\ \A x \in Living' : idOf'[x] /= released'[i]
               /\ \A j \in 1 .. Len(released') : released'[i] = released'[j] => i = j
    <3>1. CASE i = Len(released')
      BY <1>4, <1>5, <2>1, <2>2, <2>3, <3>1
    <3>2. CASE i \in 1 .. Len(released)
      BY <1>4, <2>1, <2>3, <3>2 DEF IdsInv
    <3> QED
      BY <2>1, <3>1, <3>2
  <2>5. \A x \in Living' : idOf'[x] \in 0 .. MaxId /\ idOf'[x] < current /\ idOf'[x] \notin Reserved
    BY <1>4 DEF IdsInv
  <2>6. \A x, y \in Living' : idOf'[x] = idOf'[y] => x = y
    BY <1>4 DEF IdsInv
  <2> QED
    BY <1>1, <2>4, <2>5, <2>6 DEF IdsInv
<1>8. ExistInv' /\ BeginInv' /\ BusyInv'
  BY <1>1, <1>3, <1>4 DEF ExistInv, BeginInv, BusyInv
<1>9. \A t \in Threads, x \in Room : (Opened(t, x)' <=> Opened(t, x)) /\ ~Opened(t, r)
  BY <1>1, <1>3 DEF Opened
<1>10. BegunOnce' /\ FoughtExist'
  BY <1>2, <1>4, <1>9 DEF BegunOnce, FoughtExist, RoomsTypeOK, Living
<1>11. KnownWhileFought'
  <2> SUFFICES ASSUME NEW x \in Room, ~Monitored(x)', NEW u \in User
               PROVE  x \in battlesOf[u] <=>
                          x \in fought' /\ \E i \in 1 .. 2 : playersOf'[x][i] = u
    BY <1>1 DEF KnownWhileFought
  <2>1. CASE x = r
    BY <1>2, <1>3, <2>1
  <2>2. CASE x /= r
    BY <1>1, <1>2, <2>2 DEF KnownWhileFought, RoomsTypeOK, Monitored
  <2> QED
    BY <2>1, <2>2
<1>12. NewlyKnown'
  <2> SUFFICES ASSUME NEW x \in Room, NEW s \in Threads, Opened(s, x)
               PROVE  /\ x \in fought' /\ playersOf'[x] = task'[s].fight
                      /\ \A u \in User : x \in battlesOf'[u] <=>
                            task'[s].does = "insertSecond" /\ u = task'[s].fight[1]
    BY <1>9 DEF NewlyKnown
  <2>1. x /= r
    BY <1>9
  <2> QED
    BY <1>1, <1>2, <2>1 DEF NewlyKnown, RoomsTypeOK
<1>13. \A x \in Room \ {r} : Attended(x) => Attended(x)'
  BY <1>1, <1>2 DEF Attended, RoomsTypeOK
<1>14. PublicAttended' /\ NewAttended' /\ NewKept'
  BY <1>1, <1>3, <1>9, <1>13 DEF PublicAttended, NewAttended, NewKept, RoomsTypeOK
<1> QED
  BY <1>6, <1>7, <1>8, <1>10, <1>11, <1>12, <1>14

-----------------------------------------------------------------------------
LEMMA InitRooms == RoomsInit => RoomsInv
<1> SUFFICES ASSUME RoomsInit PROVE RoomsInv
  OBVIOUS
<1> USE RoomsAssumption DEF RoomsInit
<1>1. Living = {} /\ \A t \in Threads : task[t] = Rest
  BY DEF Living
<1>2. RoomsTypeOK
  BY RestIsTask DEF RoomsTypeOK
<1>3. IdsInv /\ FoughtExist
  BY <1>1 DEF IdsInv, FoughtExist
<1>4. ExistInv /\ BeginInv /\ BusyInv
  BY <1>1 DEF ExistInv, BeginInv, BusyInv, Rest, Beginnings
<1>5. \A t \in Threads, r \in Room : ~Opened(t, r)
  BY <1>1 DEF Opened, Rest
<1>6. BegunOnce /\ NewlyKnown /\ NewAttended /\ NewKept
  BY <1>5 DEF BegunOnce, NewlyKnown, NewAttended, NewKept
<1>7. KnownWhileFought /\ PublicAttended
  BY DEF KnownWhileFought, PublicAttended
<1> QED
  BY <1>2, <1>3, <1>4, <1>6, <1>7 DEF RoomsInv

LEMMA NextRooms == RoomsInv /\ [RoomsNext]_roomVars => RoomsInv'
<1> SUFFICES ASSUME RoomsInv, [RoomsNext]_roomVars PROVE RoomsInv'
  OBVIOUS
<1>1. ASSUME NEW t \in Threads, NEW f \in User \X User, BeginStart(t, f) PROVE RoomsInv'
  BY <1>1, BeginStartKeeps
<1>2. ASSUME NEW t \in Threads, Starts(t) PROVE RoomsInv'
  BY <1>2, AcquireReleasedKeeps, FindNoneReleasedKeeps, AcquireNewKeeps, StartJoinKeeps,
     StartListKeeps, AddChannelKeeps, InsertFirstKeeps, InsertSecondKeeps DEF Starts
<1>3. ASSUME NEW u \in User, Visit(u) PROVE RoomsInv'
  BY <1>3, VisitInKeeps, VisitOutKeeps
<1>4. ASSUME NEW u \in User, VisitorList(u) PROVE RoomsInv'
  BY <1>4, VisitorListKeeps
<1>5. ASSUME NEW u \in User, NEW r \in Room, BeginVisit(u, r) PROVE RoomsInv'
  BY <1>5, BeginVisitKeeps
<1>6. ASSUME NEW t \in Threads, NEW u \in User, NEW r \in Room, BeginPartRoom(t, u, r)
      PROVE RoomsInv'
  BY <1>6, BeginPartRoomKeeps
<1>7. ASSUME NEW u \in User, BeginDisconnect(Remover, u) PROVE RoomsInv'
  BY <1>7, BeginDisconnectKeeps, StepThreads
<1>8. ASSUME NEW u \in User, BeginDisconnectNowhere(Remover, u) PROVE RoomsInv'
  BY <1>8, BeginDisconnectNowhereKeeps, StepThreads
<1>9. ASSUME NEW t \in Threads, Parted(t) PROVE RoomsInv'
  BY <1>9, PartedOneKeeps, PartedNextKeeps, PartedLastKeeps
<1>10. ASSUME NEW t \in Threads, Leaves(t) PROVE RoomsInv'
  BY <1>9, <1>10, PartRoomKeeps, HandlePartKeeps, CountPopulationKeeps, HandleFinaliseKeeps
     DEF Leaves
<1>11. ASSUME NEW r \in Room, InformVictoryOf(r) \/ Destroy(r) PROVE RoomsInv'
  BY <1>11, InformVictoryOfKeeps, DestroyKeeps
<1>12. CASE UNCHANGED roomVars
  BY <1>12, BeginDisconnectNowhereKeeps
<1> QED
  BY <1>1, <1>2, <1>3, <1>4, <1>5, <1>6, <1>7, <1>8, <1>10, <1>11, <1>12, StepThreads
     DEF RoomsNext

(* What holds of the rooms of battles, in every state: identifiers are     *)
(* drawn once, what is referred to exists, and whoever leaves a room as    *)
(* the last one is about to take it off the list.                          *)
THEOREM RoomsInvariant == RoomsSpec => []RoomsInv
<1>1. RoomsInit => RoomsInv
  BY InitRooms
<1>2. RoomsInv /\ [RoomsNext]_roomVars => RoomsInv'
  BY NextRooms
<1> QED
  BY <1>1, <1>2, PTL DEF RoomsSpec

(* Rooms can be told from each other and from the database's channels,     *)
(* both players know a battle that has begun exactly as long as it is      *)
(* fought, and no empty room stays on the list: UniqueIdVendor,            *)
(* NetworkBattle and BattleChannel, whoever comes and goes meanwhile.      *)
THEOREM AgreeAboutRooms == RoomsSpec => []RoomsAgree
<1>1. RoomsInv => RoomsAgree
  <2> SUFFICES ASSUME RoomsInv PROVE RoomsAgree
    OBVIOUS
  <2> USE DEF RoomsInv
  <2>1. IdsApart
    BY DEF IdsApart, IdsInv
  <2>2. ASSUME NEW r \in Living, \A t \in Threads : task[t].room = r => task[t].fight = <<>>
        PROVE  /\ \A i \in 1 .. 2 : r \in fought <=> r \in battlesOf[playersOf[r][i]]
               /\ r \in public /\ inRoom[r] = {} => \E t \in Threads : task[t].room = r
    <3>1. r \in Room /\ ~Monitored(r) /\ playersOf[r] \in User \X User
      BY <2>2 DEF Living, Monitored, FoughtExist
    <3>2. \A i \in 1 .. 2 : playersOf[r][i] \in User
      BY <3>1
    <3>3. \A i \in 1 .. 2 : r \in fought <=> r \in battlesOf[playersOf[r][i]]
      BY <3>1, <3>2 DEF KnownWhileFought
    <3> QED
      BY <3>3 DEF PublicAttended, Attended
  <2> QED
    BY <2>1, <2>2 DEF RoomsAgree, RoomsEnd
<1> QED
  BY <1>1, RoomsInvariant, PTL
=============================================================================
