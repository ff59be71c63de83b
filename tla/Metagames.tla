------------------------------ MODULE Metagames ------------------------------
(***************************************************************************)
(* The rules that battles are played by: metagames as the server reads     *)
(* them (src/src/matchmaking/MetagameList.cpp) and tells its clients, and  *)
(* the way from a queued team or a challenge to the battle that is begun,  *)
(* and to the ladder that a rated one counts for                           *)
(* (src/src/network/network.cpp, src/src/network/NetworkBattle.cpp).       *)
(*                                                                         *)
(* Generations and metagames are counted from zero, as the messages do.    *)
(* A team is the sequence of its species.  A clause is the set of the      *)
(* teams that it refuses, and several are a set of their names, since a    *)
(* team is checked by all of them, in whatever order.  Handlers are one    *)
(* step: what two of them may do to the same queue or challenge at once is *)
(* in Lobby and in Challenges.                                             *)
(*                                                                         *)
(* Definitions named Mutant... are wrong versions of the one that follows; *)
(* they are not used: they are there to see the properties fail.           *)
(***************************************************************************)
EXTENDS Integers, Sequences

CONSTANTS
    File,           \* resources/metagames.xml: a sequence of generations,
                    \* each a sequence of metagames
    SpeciesId,      \* the species that exist, by name
    ClauseNames,    \* ScriptContext::getClauseList
    Refused,        \* the teams that each clause refuses
    Teams,          \* bound: the teams that clients send
    Terms,          \* bound: the challenges that they make
    Host, Guest     \* two clients

Off == [pool |-> -1, periods |-> -1, periodLength |-> -1]   \* no timer

ASSUME MetagamesAssumption ==
    /\ Host /= Guest
    /\ Len(ClauseNames) \in Nat
    /\ DOMAIN Refused = {ClauseNames[i] : i \in DOMAIN ClauseNames}
    /\ \A t \in Teams : t \in Seq(Nat) /\ t /= <<>>
    /\ Len(File) \in Nat /\ DOMAIN File = 1 .. Len(File)
    /\ \A g \in DOMAIN File : Len(File[g]) \in Nat /\ DOMAIN File[g] = 1 .. Len(File[g])
    (* handleOutgoingChallenge reads clauses and a timer only if there is  *)
    (* no metagame.  The index one past the end of the list of clauses,    *)
    (* which the code does not refuse, is in no challenge: what would be   *)
    (* read is undefined.                                                  *)
    /\ \A t \in Terms :
        /\ t.generation \in Nat /\ t.metagame \in Int /\ t.teamLength \in Int
        /\ t.clauses \subseteq Nat \ {Len(ClauseNames)}
        /\ t.metagame /= -1 => t.clauses = {} /\ t.timer = Off

VARIABLES
    stage,          \* how far the start of the server has got
    generations,    \* ServerImpl::m_generations
    list,           \* m_metagameList: what clients are told of them
    clauseList,     \* m_clauses, which clients are told too
    ladders,        \* the ladders that the database has
    queues,         \* m_queues
    wanted,         \* the keys of those that are NULL: asked for in vain
    joined,         \* who joined which ladder
    offer,          \* the challenge of Host to Guest
    fights,         \* the battle that was begun last
    posted,         \* the ladder that it was posted to
    crashed

gameVars == <<stage, generations, list, clauseList, ladders, queues, wanted,
              joined, offer, fights, posted, crashed>>
rules == <<stage, generations, list, clauseList, ladders>>

NoOffer == [terms |-> <<>>, team |-> <<>>]
NoFight == [players |-> <<>>]
At(s, i) == s[i + 1]
Indices(s) == 0 .. Len(s) - 1

-----------------------------------------------------------------------------
(* Reading the file.                                                       *)

(* getMetagame: the timer is on if its three numbers, -1 of one that is    *)
(* not there, make sense.                                                  *)
TimerOf(t) == IF t.pool > 0 /\ t.periods >= 0 /\ t.periodLength > 0 THEN t ELSE Off
GetMetagame(e, g, i) ==
    [id |-> e.id, idx |-> i, generation |-> g, partySize |-> e.partySize,
     teamLength |-> e.teamLength, banNames |-> e.bans, bans |-> {},
     clauses |-> e.clauses, timer |-> TimerOf(e.timer)]
GetGeneration(elements, g) == [i \in DOMAIN elements |-> GetMetagame(elements[i], g, i - 1)]

ReadMetagames ==
    /\ stage = "start" /\ stage' = "read"
    /\ generations' = [g \in DOMAIN File |-> GetGeneration(File[g], g - 1)]
    /\ UNCHANGED <<list, clauseList, ladders, queues, wanted, joined, offer, fights, posted, crashed>>

(* initialise: names of species that do not exist are passed over.         *)
InitialiseMetagames ==
    /\ stage = "read" /\ stage' = "banned"
    /\ generations' = [g \in DOMAIN generations |-> [i \in DOMAIN generations[g] |->
            [generations[g][i] EXCEPT !.bans =
                {SpeciesId[name] : name \in generations[g][i].banNames \cap DOMAIN SpeciesId}]]]
    /\ UNCHANGED <<list, clauseList, ladders, queues, wanted, joined, offer, fights, posted, crashed>>

Places == UNION {{<<g, i>> : i \in Indices(At(generations, g))} : g \in Indices(generations)}

(* Two queues for each metagame, and the list for clients.                 *)
InitialiseMatchmaking ==
    /\ stage = "banned" /\ stage' = "queues"
    /\ ladders' = {At(At(generations, place[1]), place[2]).id : place \in Places}
    /\ queues' = [key \in {<<p[1], p[2], rated>> : p \in Places, rated \in BOOLEAN} |-> <<>>]
    /\ list' = generations
    /\ UNCHANGED <<generations, clauseList, wanted, joined, offer, fights, posted, crashed>>

InitialiseClauses ==
    /\ stage = "queues" /\ stage' = "run"
    /\ clauseList' = ClauseNames
    /\ UNCHANGED <<generations, list, ladders, queues, wanted, joined, offer, fights, posted, crashed>>

-----------------------------------------------------------------------------
(* Clauses and bans of a challenge: those that it names, or its metagame's.*)
(* One that does not exist is passed over.                                 *)

NamedClauses(bytes) == {At(clauseList, b) : b \in {x \in bytes : x < Len(clauseList)}}
MetagameClauses(g, i) == At(At(generations, g), i).clauses
FetchClauses(terms) ==
    IF terms.metagame = -1 THEN NamedClauses(terms.clauses)
    ELSE MetagameClauses(terms.generation, terms.metagame)
GetMetagameBans(g, i) == IF i < 0 THEN {} ELSE At(At(generations, g), i).bans

(* Bounds: one battle is followed, from the queues or from the challenge,  *)
(* which share nothing but the rules, and a client waits in one queue.     *)
Idle == /\ stage = "run" /\ fights = NoFight /\ wanted = {} /\ offer = NoOffer

(* validateTeam, of what metagames have a say in.                          *)
ValidateTeam(team, clauses, bans) ==
    /\ \A clause \in clauses : team \notin Refused[clause]
    /\ \A k \in DOMAIN team : team[k] \notin bans

-----------------------------------------------------------------------------
(* Queues.                                                                 *)

(* handleQueueTeam and queueClient.  getMetagameQueue makes a queue that   *)
(* is NULL of one that does not exist.                                     *)
Queued(q) == {q[k].client : k \in DOMAIN q}
Fits(team, metagame) == Len(team) <= metagame.teamLength
QueueClient(c, g, i, rated, team) ==
    LET key == <<g, i, rated>>
    IN  /\ Idle
        /\ IF key \notin DOMAIN queues
           THEN wanted' = wanted \cup {key} /\ UNCHANGED <<queues, joined>>
           ELSE LET metagame == At(At(generations, g), i)
                IN  /\ \A k \in DOMAIN queues : c \notin Queued(queues[k])
                    /\ Fits(team, metagame)
                    /\ ValidateTeam(team, metagame.clauses, metagame.bans)
                    /\ queues' = [queues EXCEPT ![key] =
                                    Append(@, [client |-> c, team |-> team])]
                    /\ joined' = IF rated THEN joined \cup {<<c, metagame.id>>} ELSE joined
                    /\ UNCHANGED wanted
        /\ UNCHANGED <<rules, offer, fights, posted, crashed>>

(* What those who queue agree to: the metagame as the list tells it.       *)
AgreedBy(g, i) ==
    LET told == At(At(list, g), i)
    IN  [generation |-> g, metagame |-> i, partySize |-> told.partySize,
         teamLength |-> told.teamLength, clauses |-> {}, timer |-> Off]

(* startMatches, of each queue that there is; only an unrated one is       *)
(* shuffled.                                                               *)
StartMatches(key) ==
    LET metagame == At(At(generations, key[1]), key[2])
        q == queues[key]
    IN  /\ ~crashed /\ Len(q) > 1
        /\ \E order \in {<<1, 2>>} \cup (IF key[3] THEN {} ELSE {<<2, 1>>}) :
             fights' = [players |-> [k \in 1 .. 2 |-> q[order[k]].client],
                        teams |-> [k \in 1 .. 2 |-> q[order[k]].team],
                        generation |-> metagame.generation,
                        partySize |-> metagame.partySize,
                        teamLength |-> metagame.teamLength,
                        clauses |-> metagame.clauses,
                        timer |-> metagame.timer,
                        metagame |-> metagame.idx,
                        rated |-> key[3],
                        agreed |-> AgreedBy(key[1], key[2])]
        /\ queues' = [queues EXCEPT ![key] = <<>>]
        /\ posted' = ""
        /\ UNCHANGED <<rules, wanted, joined, offer, crashed>>

(* The thread that goes through all the queues stops at one that is NULL.  *)
MeetNull ==
    /\ wanted /= {} /\ ~crashed /\ crashed' = TRUE
    /\ UNCHANGED <<rules, queues, wanted, joined, offer, fights, posted>>

(* informVictory of a rated battle.                                        *)
MutantLadderOf(b) == At(At(generations, 0), b.metagame).id
LadderOf(b) == At(At(generations, b.generation), b.metagame).id
InformResult ==
    /\ fights /= NoFight /\ fights.rated /\ posted = ""
    /\ posted' = LadderOf(fights)
    /\ UNCHANGED <<rules, queues, wanted, joined, offer, fights, crashed>>

-----------------------------------------------------------------------------
(* Challenges.                                                             *)

HandleChallenge(terms) ==
    /\ Idle /\ \A key \in DOMAIN queues : queues[key] = <<>>
    /\ terms.generation < Len(generations) /\ terms.partySize >= 1 /\ terms.teamLength >= 1
    /\ terms.metagame >= -1 /\ terms.metagame < Len(At(generations, terms.generation))
    /\ terms.timer /= Off => /\ terms.timer.pool \in 1 .. 3600
                              /\ terms.timer.periods <= 10 /\ terms.timer.periodLength <= 600
                              /\ terms.timer.periods > 0 => terms.timer.periodLength > 0
    /\ offer' = [NoOffer EXCEPT !.terms = terms]
    /\ UNCHANGED <<rules, queues, wanted, joined, fights, posted, crashed>>

CutTeam(team) == SubSeq(team, 1, IF Len(team) > offer.terms.teamLength THEN offer.terms.teamLength
                                 ELSE Len(team))
Passes(team) ==
    ValidateTeam(CutTeam(team), FetchClauses(offer.terms),
                 GetMetagameBans(offer.terms.generation, offer.terms.metagame))

(* handleResolveChallenge: a team may be given more than once.             *)
AcceptWith(team) ==
    /\ offer /= NoOffer /\ Passes(team)
    /\ offer' = [offer EXCEPT !.team = CutTeam(team)]
    /\ UNCHANGED <<rules, queues, wanted, joined, fights, posted, crashed>>

(* handleChallengeTeam: the timer is that of the metagame, unless the      *)
(* challenge has one.                                                      *)
TimerFor(terms) ==
    IF terms.timer /= Off THEN terms.timer
    ELSE IF terms.metagame >= 0 THEN At(At(generations, terms.generation), terms.metagame).timer
    ELSE Off
BeginWith(team) ==
    /\ offer /= NoOffer /\ offer.team /= <<>> /\ Passes(team)
    /\ fights' = [players |-> <<Host, Guest>>,
                  teams |-> <<CutTeam(team), offer.team>>,
                  generation |-> offer.terms.generation,
                  partySize |-> offer.terms.partySize,
                  teamLength |-> offer.terms.teamLength,
                  clauses |-> FetchClauses(offer.terms),
                  timer |-> TimerFor(offer.terms),
                  metagame |-> -1,
                  rated |-> FALSE,
                  agreed |-> offer.terms]
    /\ offer' = NoOffer
    /\ posted' = ""
    /\ UNCHANGED <<rules, queues, wanted, joined, crashed>>

-----------------------------------------------------------------------------
MetagamesInit ==
    /\ stage = "start" /\ generations = <<>> /\ list = <<>> /\ clauseList = <<>>
    /\ ladders = {} /\ queues = <<>> /\ wanted = {} /\ joined = {}
    /\ offer = NoOffer /\ fights = NoFight /\ posted = "" /\ crashed = FALSE

MetagamesNext ==
    \/ ReadMetagames \/ InitialiseMetagames \/ InitialiseMatchmaking \/ InitialiseClauses
    \/ \E c \in {Host, Guest}, g \in 0 .. Len(generations), i \in 0 .. 1, rated \in BOOLEAN,
          team \in Teams : QueueClient(c, g, i, rated, team)
    \/ \E key \in DOMAIN queues : StartMatches(key)
    \/ MeetNull \/ InformResult
    \/ \E terms \in Terms : HandleChallenge(terms)
    \/ \E team \in Teams : AcceptWith(team) \/ BeginWith(team)

MetagamesSpec == MetagamesInit /\ [][MetagamesNext]_gameVars

-----------------------------------------------------------------------------
Allowed(team, length, clauses, bans) ==
    /\ Len(team) <= length
    /\ \A clause \in clauses : team \notin Refused[clause]
    /\ \A k \in DOMAIN team : team[k] \notin bans

(* A battle is played as its players agreed: by the rules that the list    *)
(* has of the metagame they queued for, or by the terms of the challenge   *)
(* and the rules of the metagame that it names, by two teams that these    *)
(* allow; and one that is rated counts for the ladder of that metagame,    *)
(* which both have joined.                                                 *)
PlayedAsAgreed ==
    fights /= NoFight =>
        LET agreed == fights.agreed
            single == agreed.metagame = -1
            told == At(At(list, agreed.generation), agreed.metagame)
            named == {At(clauseList, b) : b \in agreed.clauses \cap Indices(clauseList)}
            clauses == IF single THEN named ELSE told.clauses
            bans == IF single THEN {} ELSE told.bans
        IN  /\ fights.generation = agreed.generation
            /\ fights.partySize = agreed.partySize /\ fights.teamLength = agreed.teamLength
            /\ fights.clauses = clauses
            /\ fights.timer = IF single THEN agreed.timer ELSE told.timer
            /\ \A k \in 1 .. 2 : Allowed(fights.teams[k], agreed.teamLength, clauses, bans)
            /\ posted /= "" => /\ posted = told.id /\ posted \in ladders
                               /\ \A k \in 1 .. 2 : <<fights.players[k], posted>> \in joined
=============================================================================
