-------------------------------- MODULE Rooms --------------------------------
(***************************************************************************)
(* The chat rooms of battles: how they get their identifiers               *)
(* (UniqueIdVendor and ChannelImpl in src/src/network/Channel.cpp), how a  *)
(* battle is begun with its room (NetworkBattle and BattleChannel in       *)
(* src/src/network/NetworkBattle.cpp), and how users come and go           *)
(* (src/src/network/network.cpp).                                          *)
(*                                                                         *)
(* A room is a Channel object with its battle; the object is made anew     *)
(* after it has been destroyed, so that there are few of them.  Its mutex  *)
(* is below Monitored: whoever begins the battle keeps it until both       *)
(* players know the battle; all others take it for one step.  A battle is  *)
(* nothing here but the field that the room points to.                     *)
(*                                                                         *)
(* Definitions named Mutant... are wrong versions of the one that follows; *)
(* they are not used: they are there to see the properties fail.           *)
(***************************************************************************)
EXTENDS Naturals, Sequences

CONSTANTS
    User,
    Matchmaker,     \* the thread of MetagameQueue::startMatches
    Remover,        \* a thread that removes a client who fell silent
    Fights,         \* Fights[t]: the pairs whom thread t begins a battle of
    Visitors,       \* bound: who visits a room
    Kicked,         \* bound: who may be kicked
    MaxBattles,     \* bound on the battles that are begun
    Room,
    Reserved,       \* the identifiers that the database gives to channels
    MaxId,          \* bound on the identifiers
    NoId, Nobody

ASSUME RoomsAssumption ==
    /\ Matchmaker \notin User /\ Remover \notin User /\ Matchmaker /= Remover
    /\ Nobody \notin User \cup Room
    /\ Fights \in [User \cup {Matchmaker} -> SUBSET (User \X User)]
    /\ \A u \in User : \A f \in Fights[u] : f[1] = u
    /\ Visitors \cup Kicked \subseteq User /\ MaxBattles \in Nat
    /\ MaxId \in Nat /\ Reserved \subseteq 0 .. MaxId /\ NoId \notin 0 .. MaxId

VARIABLES
    current,        \* UniqueIdVendor: m_current + 1
    released,       \* m_released
    idOf,           \* the id of each room, or NoId of one that is no more
    fought,         \* rooms whose m_field is not NULL
    playersOf,      \* NetworkBattleImpl::m_clients
    inRoom,         \* ChannelImpl::clients
    public,         \* ServerImpl::m_channels
    roomsOf,        \* ClientImpl::m_channels of each user
    battlesOf,      \* ClientImpl::m_battles
    present,        \* ServerImpl::m_clients
    task,           \* what each thread is about
    begun           \* how many battles were begun

roomVars == <<current, released, idOf, fought, playersOf, inRoom, public,
              roomsOf, battlesOf, present, task, begun>>
vendor == <<current, released>>
here == <<present, begun>>
battleState == <<fought, playersOf, battlesOf>>
lists == <<public, roomsOf>>

Threads == User \cup {Matchmaker, Remover}
Rest == [does |-> "rest", room |-> Nobody, user |-> Nobody, fight |-> <<>>, left |-> {}]
Living == {r \in Room : idOf[r] /= NoId}

Turns(t, from, to) == task[t].does = from /\ task' = [task EXCEPT ![t].does = to]
Stops(t, from) == task[t].does = from /\ task' = [task EXCEPT ![t] = Rest]

(* The mutex of the room is kept by the one who begins its battle.         *)
MutantMonitored(r) ==
    \E t \in Threads :
        task[t].room = r /\ task[t].fight /= <<>> /\ task[t].does \in {"join", "list"}
Monitored(r) == \E t \in Threads : task[t].room = r /\ task[t].fight /= <<>>

(* m_channelMutex of the user is kept by the one who disconnects him.      *)
Leaving(u) == \E t \in Threads : task[t].user = u /\ task[t].left /= {}

-----------------------------------------------------------------------------
(* Beginning a battle.                                                     *)

BeginStart(t, f) ==
    /\ f[1] \in present /\ f[2] \in present
    /\ task[t] = Rest /\ begun < MaxBattles
    /\ task' = [task EXCEPT ![t] =
                    [Rest EXCEPT !.does = "acquire", !.user = f[1], !.fight = f]]
    /\ begun' = begun + 1
    /\ UNCHANGED <<vendor, idOf, battleState, inRoom, lists, present>>

(* The constructors of NetworkBattle, of its room, and of what that has.   *)
Create(t, id) ==
    LET r == CHOOSE x \in Room : x \notin Living
    IN  /\ Living /= Room
        /\ idOf' = [idOf EXCEPT ![r] = id]
        /\ fought' = fought \cup {r}
        /\ playersOf' = [playersOf EXCEPT ![r] = task[t].fight]
        /\ task' = [task EXCEPT ![t].does = "join", ![t].room = r]
        /\ UNCHANGED <<inRoom, lists, battlesOf, here>>

(* acquire: an id that was released, or else a new one.                    *)
AcquireReleased(t) ==
    /\ task[t].does = "acquire" /\ released /= <<>>
    /\ released' = Tail(released)
    /\ Create(t, Head(released))
    /\ UNCHANGED current

FindNoneReleased(t) ==
    /\ released = <<>>
    /\ Turns(t, "acquire", "acquireNew")
    /\ UNCHANGED <<vendor, idOf, battleState, inRoom, lists, here>>

Fresh == CHOOSE id \in current .. MaxId :
            id \notin Reserved /\ \A k \in current .. id - 1 : k \in Reserved
AcquireNew(t) ==
    /\ task[t].does = "acquireNew"
    /\ \E id \in current .. MaxId : id \notin Reserved
    /\ current' = Fresh + 1
    /\ Create(t, Fresh)
    /\ UNCHANGED released

(* joinChannel of one player, then of the other; task[t].user is the one.  *)
StartJoin(t) ==
    LET u == task[t].user  r == task[t].room
    IN  /\ Turns(t, "join", "list")
        /\ inRoom' = [inRoom EXCEPT ![r] = @ \cup {u}]
        /\ UNCHANGED <<vendor, idOf, battleState, lists, here>>

StartList(t) ==
    LET u == task[t].user  r == task[t].room  f == task[t].fight
    IN  /\ task[t].does = "list" /\ f /= <<>> /\ ~Leaving(u)
        /\ roomsOf' = [roomsOf EXCEPT ![u] = @ \cup {r}]
        /\ task' = IF u = f[1] THEN [task EXCEPT ![t].user = f[2], ![t].does = "join"]
                   ELSE [task EXCEPT ![t].does = "publish"]
        /\ UNCHANGED <<vendor, idOf, battleState, inRoom, public, here>>

(* beginBattle ends with addChannel.                                       *)
AddChannel(t) ==
    /\ Turns(t, "publish", "insertFirst")
    /\ public' = public \cup {task[t].room}
    /\ UNCHANGED <<vendor, idOf, battleState, inRoom, roomsOf, here>>

InsertFirst(t) ==
    /\ Turns(t, "insertFirst", "insertSecond")
    /\ battlesOf' = [battlesOf EXCEPT ![task[t].fight[1]] = @ \cup {task[t].room}]
    /\ UNCHANGED <<vendor, idOf, fought, playersOf, inRoom, lists, here>>

(* The monitor goes out of scope with the last step.                       *)
InsertSecond(t) ==
    /\ Stops(t, "insertSecond")
    /\ battlesOf' = [battlesOf EXCEPT ![task[t].fight[2]] = @ \cup {task[t].room}]
    /\ UNCHANGED <<vendor, idOf, fought, playersOf, inRoom, lists, here>>

-----------------------------------------------------------------------------
(* The end of a battle.                                                    *)

(* terminate                                                               *)
EndBattle(r) ==
    /\ fought' = fought \ {r}
    /\ battlesOf' = [u \in User |-> IF \E i \in 1 .. 2 : playersOf[r][i] = u
                                    THEN battlesOf[u] \ {r} ELSE battlesOf[u]]

(* informVictory, on the thread of the turns or of the timer.              *)
InformVictoryOf(r) ==
    /\ r \in fought /\ ~Monitored(r)
    /\ EndBattle(r)
    /\ UNCHANGED <<vendor, idOf, playersOf, inRoom, lists, here, task>>

-----------------------------------------------------------------------------
(* Users come and go.                                                      *)

(* handleJoinChannel: of a room that the server lists.                     *)
BeginVisit(u, r) ==
    /\ u \in present /\ task[u] = Rest
    /\ r \in public
    /\ task' = [task EXCEPT ![u] = [Rest EXCEPT !.does = "visit", !.room = r, !.user = u]]
    /\ UNCHANGED <<vendor, idOf, battleState, inRoom, lists, here>>

(* BattleChannel::join: not after the battle, nor twice.                   *)
Visit(u) ==
    LET r == task[u].room
    IN  /\ ~Monitored(r)
        /\ IF r \in fought /\ u \notin inRoom[r]
           THEN /\ Turns(u, "visit", "list")
                /\ inRoom' = [inRoom EXCEPT ![r] = @ \cup {u}]
           ELSE /\ Stops(u, "visit")
                /\ UNCHANGED inRoom
        /\ UNCHANGED <<vendor, idOf, battleState, lists, here>>

VisitorList(u) ==
    /\ task[u].fight = <<>> /\ ~Leaving(u)
    /\ Stops(u, "list")
    /\ roomsOf' = [roomsOf EXCEPT ![u] = @ \cup {task[u].room}]
    /\ UNCHANGED <<vendor, idOf, battleState, inRoom, public, here>>

(* partChannel: of the user himself, or of one who kicks him.              *)
BeginPartRoom(t, u, r) ==
    /\ task[t] = Rest
    /\ r \in roomsOf[u] /\ (t = u => u \in present)
    /\ task' = [task EXCEPT ![t] = [Rest EXCEPT !.does = "part", !.room = r, !.user = u]]
    /\ UNCHANGED <<vendor, idOf, battleState, inRoom, lists, here>>

(* disconnect: part of every room, with m_channelMutex.                    *)
BeginDisconnect(t, u) ==
    /\ task[t] = Rest /\ ~Leaving(u)
    /\ \A i \in DOMAIN task[Matchmaker].fight : task[Matchmaker].fight[i] /= u
    /\ roomsOf[u] /= {}
    /\ \E r \in roomsOf[u] :
         task' = [task EXCEPT ![t] = [Rest EXCEPT !.does = "part", !.room = r, !.user = u,
                                                  !.left = roomsOf[u]]]
    /\ UNCHANGED <<vendor, idOf, battleState, inRoom, lists, here>>
BeginDisconnectNowhere(t, u) ==
    /\ task[t] = Rest /\ ~Leaving(u) /\ u \in present
    /\ \A i \in DOMAIN task[Matchmaker].fight : task[Matchmaker].fight[i] /= u
    /\ roomsOf[u] = {}
    /\ present' = present \ {u}
    /\ UNCHANGED <<vendor, idOf, battleState, inRoom, lists, begun, task>>

(* Channel::part, up to where it unlocks the channel's own mutex.          *)
PartRoom(t) ==
    LET u == task[t].user  r == task[t].room
    IN  /\ task[t].does = "part"
        /\ Turns(t, "part", IF u \in inRoom[r] THEN "forfeit" ELSE "parted")
        /\ inRoom' = [inRoom EXCEPT ![r] = @ \ {u}]
        /\ UNCHANGED <<vendor, idOf, battleState, lists, here>>

(* handlePart: a player who leaves ends the battle.                        *)
HandlePart(t) ==
    LET u == task[t].user  r == task[t].room
    IN  /\ ~Monitored(r)
        /\ Turns(t, "forfeit", "count")
        /\ IF r \in fought /\ \E i \in 1 .. 2 : playersOf[r][i] = u
           THEN EndBattle(r) ELSE UNCHANGED <<fought, battlesOf>>
        /\ UNCHANGED <<vendor, idOf, playersOf, inRoom, lists, here>>

CountPopulation(t) ==
    /\ task[t].does = "count"
    /\ Turns(t, "count", IF inRoom[task[t].room] = {} THEN "finalise" ELSE "parted")
    /\ UNCHANGED <<vendor, idOf, battleState, inRoom, lists, here>>

HandleFinalise(t) ==
    /\ Turns(t, "finalise", "parted")
    /\ public' = public \ {task[t].room}
    /\ UNCHANGED <<vendor, idOf, battleState, inRoom, roomsOf, here>>

(* What comes after part: the room is erased, or the next one is left.     *)
Parted(t) ==
    LET u == task[t].user  r == task[t].room  rest == task[t].left \ {r}
    IN  /\ task[t].does = "parted"
        /\ IF task[t].left = {}
           THEN /\ ~Leaving(u)
                /\ roomsOf' = [roomsOf EXCEPT ![u] = @ \ {r}]
                /\ Stops(t, "parted")
                /\ UNCHANGED present
           ELSE IF rest /= {}
           THEN /\ \E x \in rest :
                     task' = [task EXCEPT ![t].does = "part", ![t].room = x, ![t].left = rest]
                /\ UNCHANGED <<roomsOf, present>>
           ELSE /\ roomsOf' = [roomsOf EXCEPT ![u] = {}]
                /\ present' = present \ {u}
                /\ Stops(t, "parted")
        /\ UNCHANGED <<vendor, idOf, battleState, inRoom, public, begun>>

-----------------------------------------------------------------------------
(* ~ChannelImpl, when nothing refers to the room any more: neither the     *)
(* server, nor a user, nor a thread, nor a battle that somebody has.       *)
Referred(r) ==
    \/ r \in public
    \/ \E u \in User : r \in roomsOf[u] \cup battlesOf[u]
    \/ \E t \in Threads : r = task[t].room \/ r \in task[t].left
Destroy(r) ==
    /\ r \in Living /\ ~Referred(r)
    /\ idOf' = [idOf EXCEPT ![r] = NoId]
    /\ released' = Append(released, idOf[r])
    /\ fought' = fought \ {r}
    /\ playersOf' = [playersOf EXCEPT ![r] = <<Nobody, Nobody>>]
    /\ inRoom' = [inRoom EXCEPT ![r] = {}]
    /\ UNCHANGED <<current, lists, battlesOf, here, task>>

-----------------------------------------------------------------------------
RoomsInit ==
    /\ current = 0 /\ released = <<>>
    /\ idOf = [r \in Room |-> NoId]
    /\ fought = {} /\ playersOf = [r \in Room |-> <<Nobody, Nobody>>]
    /\ inRoom = [r \in Room |-> {}]
    /\ public = {}
    /\ roomsOf = [u \in User |-> {}] /\ battlesOf = [u \in User |-> {}]
    /\ present = User
    /\ task = [t \in Threads |-> Rest] /\ begun = 0

Starts(t) == AcquireReleased(t) \/ FindNoneReleased(t) \/ AcquireNew(t) \/ StartJoin(t)
              \/ StartList(t) \/ AddChannel(t) \/ InsertFirst(t) \/ InsertSecond(t)
Leaves(t) == PartRoom(t) \/ HandlePart(t) \/ CountPopulation(t) \/ HandleFinalise(t) \/ Parted(t)

RoomsNext ==
    \/ \E t \in DOMAIN Fights : (\E f \in Fights[t] : BeginStart(t, f)) \/ Starts(t)
    \/ \E u \in Visitors : Visit(u) \/ VisitorList(u) \/ \E r \in Room : BeginVisit(u, r)
    \/ \E u \in User : \E r \in Room : BeginPartRoom(u, u, r)
    \/ \E u \in Kicked : \E r \in Room : BeginPartRoom(Remover, u, r)
    \/ \E u \in User : BeginDisconnect(Remover, u) \/ BeginDisconnectNowhere(Remover, u)
    \/ \E t \in Threads : Leaves(t)
    \/ \E r \in Room : InformVictoryOf(r) \/ Destroy(r)

RoomsSpec == RoomsInit /\ [][RoomsNext]_roomVars

-----------------------------------------------------------------------------
(* Rooms that exist at the same time, and the channels of the database,    *)
(* have different identifiers, although identifiers are used again         *)
(* (UniqueIdVendor): a message names a channel and a battle by it.         *)
IdsApart ==
    \A r \in Living : /\ idOf[r] \notin Reserved
                      /\ \A x \in Living \ {r} : idOf[x] /= idOf[r]

(* Once a battle has begun, both of its players have it exactly as long as *)
(* it is fought, and a room without users is not listed any more, unless   *)
(* somebody is still leaving it: whatever leaves while the battle begins.  *)
RoomsEnd ==
    \A r \in Living : (\A t \in Threads : task[t].room = r => task[t].fight = <<>>) =>
        /\ \A i \in 1 .. 2 : r \in fought <=> r \in battlesOf[playersOf[r][i]]
        /\ r \in public /\ inRoom[r] = {} => \E t \in Threads : task[t].room = r

(* A room can be told from every other while it exists, and is known to    *)
(* its players exactly while it is fought in.                              *)
RoomsAgree == IdsApart /\ RoomsEnd
=============================================================================
