------------------------------ MODULE Accounts ------------------------------
(***************************************************************************)
(* Accounts and the ladder: registration and logging in (ClientImpl and    *)
(* ServerImpl in src/src/network/network.cpp), the tables of users, of     *)
(* matches and of ratings (src/src/database/DatabaseRegistry.cpp,          *)
(* Authenticator.cpp), and what the end of a rated battle does to them     *)
(* (NetworkBattle.cpp, matchmaking/glicko2.cpp).                           *)
(*                                                                         *)
(* A connection is one ClientImpl, whose messages are handled one after    *)
(* the other.  Its user knows the password of one name, but may ask for    *)
(* the challenge of any, also when logged in.  The ends of battles run on  *)
(* threads of their own.  Every statement that reads or writes a table is  *)
(* a step, but that getAuthChallenge is one with getClient after it: rows  *)
(* are only added.                                                         *)
(*                                                                         *)
(* Definitions named Mutant... are wrong versions of the one that follows; *)
(* they are not used: they are there to see the properties fail.           *)
(***************************************************************************)
EXTENDS Naturals, Sequences, FiniteSets

CONSTANTS
    Connection,
    Name,
    NameOf,         \* the name whose password the user of each knows
    Newcomer,       \* connections that may register it
    Leaver,         \* bound: connections that may be removed
    Battle,         \* bound: the rated battles there can be
    Unset           \* no name, no id, no owner, no winner

ASSUME AccountsAssumption ==
    /\ IsFiniteSet(Connection) /\ IsFiniteSet(Name)
    /\ NameOf \in [Connection -> Name]
    /\ Newcomer \subseteq Connection /\ Leaver \subseteq Connection
    /\ Unset \notin Connection \cup Name \cup Battle

VARIABLES
    users,          \* the table of users: their names, by id
    step,           \* where the worker of each connection is
    connected,      \* ServerImpl::m_clients
    called,         \* ClientImpl::m_name
    asked,          \* the name in a request that is handled
    challenged,     \* those whose ClientImpl::m_challenge is not 0
    authenticated,  \* ClientImpl::m_authenticated
    id,             \* ClientImpl::m_id, Unset if not initialised
    renamed,        \* history: those whose m_name was set when they were logged in
    queue,          \* the list of the rated queue
    ladder,         \* ids in the table of ratings
    matches,        \* the table of matches
    accounted,      \* the matches that each id's rating was computed from
    rating,         \* who owns m_ratingMutex of each connection
    battle          \* each battle: who plays, and where its end is

login == <<users, step, connected, called, asked, challenged, authenticated, id, renamed>>
table == <<ladder, matches, accounted>>
accountVars == <<login, queue, table, rating, battle>>

MovesOn(c, from, to) == step[c] = from /\ step' = [step EXCEPT ![c] = to]
Ids == 1 .. Cardinality(Connection) + Cardinality(Name)
IdsOf(name) == {i \in DOMAIN users : users[i] = name}
(* The first row that is found, in the order of ids.                       *)
IdOf(name) == CHOOSE i \in IdsOf(name) : \A j \in IdsOf(name) : i <= j

-----------------------------------------------------------------------------
(* Registration: userExists, and then an insertion into a table that does  *)
(* not keep names apart.                                                   *)

LookForUser(c) ==
    /\ c \in Newcomer \cap connected
    /\ IdsOf(NameOf[c]) = {}
    /\ MovesOn(c, "idle", "registering")
    /\ UNCHANGED <<users, connected, called, asked, challenged, authenticated, id, renamed,
                   queue, table, rating, battle>>

RegisterUser(c) ==
    /\ MovesOn(c, "registering", "idle")
    /\ users' = Append(users, NameOf[c])
    /\ UNCHANGED <<connected, called, asked, challenged, authenticated, id, renamed,
                   queue, table, rating, battle>>

-----------------------------------------------------------------------------
(* Logging in.  Whom getClient finds, and authenticateClient.              *)
OnlineAs(name) == {d \in connected \cap authenticated : called[d] = name}

(* handleRequestChallenge, of whoever is logged in too: there is a         *)
(* challenge if there is such a user, also if he is online.                *)
RequestChallenge(c, name) ==
    /\ c \in connected
    /\ IF IdsOf(name) # {} /\ OnlineAs(name) = {}
       THEN MovesOn(c, "idle", "naming") /\ asked' = [asked EXCEPT ![c] = name]
       ELSE step[c] = "idle" /\ UNCHANGED <<step, asked>>
    /\ challenged' = IF IdsOf(name) # {} THEN challenged \cup {c} ELSE challenged \ {c}
    /\ UNCHANGED <<users, connected, called, authenticated, id, renamed,
                   queue, table, rating, battle>>

(* The end of it relies on what getClient saw, and whoever is logged in    *)
(* stays so by the name that he asked for.                                 *)
TakeName(c) ==
    /\ MovesOn(c, "naming", "idle")
    /\ called' = [called EXCEPT ![c] = asked[c]]
    /\ asked' = [asked EXCEPT ![c] = Unset]
    /\ renamed' = IF c \in authenticated THEN renamed \cup {c} ELSE renamed
    /\ UNCHANGED <<users, connected, challenged, authenticated, id, queue, table, rating,
                   battle>>

(* handleChallengeResponse: isResponseValid, of the name that there is     *)
(* now; the answer may be wrong, and is if the user does not know the      *)
(* password.                                                               *)
ChallengeResponse(c) ==
    /\ c \in connected \cap challenged
    /\ \/ called[c] = NameOf[c] /\ MovesOn(c, "idle", "answered")
       \/ step[c] = "idle" /\ UNCHANGED step
    /\ challenged' = challenged \ {c}
    /\ UNCHANGED <<users, connected, called, asked, authenticated, id, renamed,
                   queue, table, rating, battle>>

(* authenticateClient relies on what RequestChallenge saw.                 *)
MutantAuthenticate(c) ==
    /\ MovesOn(c, "answered", "identified")
    /\ authenticated' = authenticated \cup {c}
    /\ UNCHANGED <<users, connected, called, asked, challenged, id, renamed,
                   queue, table, rating, battle>>

(* authenticateClient, under the mutex of the list of clients; it finds    *)
(* the connection itself if that is logged in.                             *)
Authenticate(c) ==
    /\ \/ /\ OnlineAs(called[c]) = {}
          /\ MovesOn(c, "answered", "identified")
          /\ authenticated' = authenticated \cup {c}
       \/ /\ OnlineAs(called[c]) # {}
          /\ MovesOn(c, "answered", "idle")
          /\ UNCHANGED authenticated
    /\ UNCHANGED <<users, connected, called, asked, challenged, id, renamed,
                   queue, table, rating, battle>>

(* The rest of handleChallengeResponse; the id was read with the password. *)
Identify(c) ==
    /\ MovesOn(c, "identified", "idle")
    /\ id' = [id EXCEPT ![c] = IdOf(called[c])]
    /\ UNCHANGED <<users, connected, called, asked, challenged, authenticated, renamed,
                   queue, table, rating, battle>>

(* removeClient, whoever runs it, while a message may still be handled.    *)
(* The entry that is taken out of the queue is one with the client's id,   *)
(* which may be that of another connection of its user, and is anything as *)
(* long as it was not set.  What is between its parts, and the set beside  *)
(* the list of the queue, is in Lobby.                                     *)
RemoveClient(c) ==
    /\ c \in connected \cap Leaver
    /\ connected' = connected \ {c}
    /\ \/ \E d \in queue : id[c] \in {id[d], Unset} /\ queue' = queue \ {d}
       \/ (\A d \in queue : id[d] # id[c]) /\ UNCHANGED queue
    /\ UNCHANGED <<users, step, called, asked, challenged, authenticated, id, renamed,
                   table, rating, battle>>

-----------------------------------------------------------------------------
(* The rated queue.                                                        *)

(* queueClient, under the mutex of the queue: joinLadder selects and       *)
(* inserts.                                                                *)
QueueTeam(c) ==
    /\ c \in connected \cap authenticated /\ step[c] = "idle" /\ c \notin queue
    /\ queue' = queue \cup {c}
    /\ ladder' = ladder \cup {id[c]}
    /\ UNCHANGED <<login, matches, accounted, rating, battle>>

StartMatch(b, c, d) ==
    /\ battle[b].at = "none"
    /\ {c, d} \subseteq queue /\ c # d
    /\ queue' = queue \ {c, d}
    /\ battle' = [battle EXCEPT ![b].at = "on", ![b].players = <<c, d>>]
    /\ UNCHANGED <<login, table, rating>>

-----------------------------------------------------------------------------
(* The end of a battle: informVictory calls postLadderMatch.               *)

(* stage n of the end of a battle updates the rating of its n-th player.   *)
Proceeds(b, from, to) ==
    /\ battle[b].at = from
    /\ battle' = [battle EXCEPT ![b].at = to]
Player(b) == battle[b].players[battle[b].n]

(* victor is the index of a player, or Unset for a draw.                   *)
PostLadderMatch(b, victor) ==
    /\ battle[b].at = "on"
    /\ battle' = [battle EXCEPT ![b].at = "posted"]
    /\ matches' = matches \cup
            {[of |-> b, victor |-> victor,
              ids |-> [n \in 1 .. 2 |-> id[battle[b].players[n]]]]}
    /\ UNCHANGED <<login, queue, ladder, accounted, rating>>

(* updateLadderStats without m_ratingMutex.                                *)
MutantUpdateLadderStats(b) ==
    /\ Proceeds(b, "posted", "reading")
    /\ UNCHANGED <<login, queue, table, rating>>

(* updateLadderStats takes m_ratingMutex of the connection.                *)
UpdateLadderStats(b) ==
    /\ Proceeds(b, "posted", "reading")
    /\ rating[Player(b)] = Unset
    /\ rating' = [rating EXCEPT ![Player(b)] = b]
    /\ UNCHANGED <<login, queue, table>>

Opponent(m, i) == IF m.ids[1] = i THEN m.ids[2] ELSE m.ids[1]
Score(m, i) ==
    CASE m.victor = Unset -> "draw"
      [] m.victor # Unset /\ m.ids[m.victor] = i -> "won"
      [] OTHER -> "lost"

(* What the rating of i is computed from, if ms are all the matches: those *)
(* against players of the ladder, whose own ratings, like his, are those   *)
(* from before the first of them.                                          *)
Results(ms, i) ==
    {[of |-> m.of, opponent |-> Opponent(m, i), score |-> Score(m, i)] :
        m \in {x \in ms : /\ i \in {x.ids[1], x.ids[2]}
                          /\ Opponent(x, i) \in ladder}}

(* updatePlayerStats: the matches are selected ...                         *)
ReadMatches(b) ==
    /\ battle[b].at = "reading"
    /\ battle' = [battle EXCEPT ![b].at = "writing",
                                ![b].read = Results(matches, id[Player(b)])]
    /\ UNCHANGED <<login, queue, table, rating>>

(* ... and what follows from them is written, for one of the ladder.       *)
WriteRating(b) ==
    /\ IF battle[b].n = 1
       THEN battle' = [battle EXCEPT ![b].at = "posted", ![b].n = 2,
                                     ![b].read = {}]
       ELSE battle' = [battle EXCEPT ![b].at = "over", ![b].read = {}]
    /\ battle[b].at = "writing"
    /\ accounted' = [i \in DOMAIN accounted |->
            IF i = id[Player(b)] /\ i \in ladder
            THEN battle[b].read ELSE accounted[i]]
    /\ rating' = [rating EXCEPT ![Player(b)] = Unset]
    /\ UNCHANGED <<login, queue, ladder, matches>>

-----------------------------------------------------------------------------
(* Everybody but newcomers is registered.                                  *)
AccountsInit ==
    /\ users \in {s \in UNION {[1 .. n -> Name] : n \in 0 .. Cardinality(Name)} :
                    /\ \A i, j \in DOMAIN s : i # j => s[i] # s[j]
                    /\ {s[i] : i \in DOMAIN s} =
                            {NameOf[c] : c \in Connection \ Newcomer}}
    /\ step = [c \in Connection |-> "idle"]
    /\ connected = Connection
    /\ called = [c \in Connection |-> Unset] /\ asked = [c \in Connection |-> Unset]
    /\ challenged = {} /\ authenticated = {} /\ renamed = {}
    /\ id = [c \in Connection |-> Unset]
    /\ queue = {} /\ ladder = {} /\ matches = {}
    /\ accounted = [i \in Ids |-> {}]
    /\ rating = [c \in Connection |-> Unset]
    /\ battle = [b \in Battle |-> [at |-> "none", n |-> 1, players |-> <<>>,
                                   read |-> {}]]

Handles(c) ==
    \/ LookForUser(c) \/ RegisterUser(c)
    \/ \E name \in Name : RequestChallenge(c, name)
    \/ TakeName(c) \/ ChallengeResponse(c) \/ Authenticate(c) \/ Identify(c)
    \/ RemoveClient(c) \/ QueueTeam(c)

MatchEnds(b) ==
    \/ \E c, d \in Connection : StartMatch(b, c, d)
    \/ \E victor \in {1, 2, Unset} : PostLadderMatch(b, victor)
    \/ UpdateLadderStats(b) \/ ReadMatches(b) \/ WriteRating(b)

AccountsNext == (\E c \in Connection : Handles(c)) \/ (\E b \in Battle : MatchEnds(b))

AccountsSpec == AccountsInit /\ [][AccountsNext]_accountVars

-----------------------------------------------------------------------------
(* If two connections are logged in under one name, one of them has taken  *)
(* a name since it logged in: authenticateClient never lets in a second,   *)
(* although many may ask for the challenge of a name before the first of   *)
(* them answers it, and may log out and answer late.  The condition is     *)
(* needed: handleRequestChallenge also sets the name of who is logged in,  *)
(* after getClient has given back the mutex of the list.                   *)
OnlineOnce ==
    \A c, d \in (connected \cap authenticated) \ renamed : called[c] = called[d] => c = d

BattlesOf(c) ==
    {b \in Battle : \E n \in DOMAIN battle[b].players : battle[b].players[n] = c}

(* Every match of a user counts once in his rating when its battle has     *)
(* ended, although he may play several at a time and their ends read the   *)
(* matches and write the rating at once; but m_ratingMutex belongs to the  *)
(* connection, so he must not have connected again between two battles.    *)
EveryMatchCounts ==
    \A c \in Connection :
        /\ \A d \in Connection : NameOf[d] = NameOf[c] /\ d # c => BattlesOf(d) = {}
        /\ \A b \in BattlesOf(c) : battle[b].at \in {"on", "over"}
        /\ id[c] # Unset
        => /\ accounted[id[c]] = Results(matches, id[c])
           /\ {r.of : r \in accounted[id[c]]} =
                {b \in BattlesOf(c) : battle[b].at = "over"}

=============================================================================
