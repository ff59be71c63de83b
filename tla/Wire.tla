-------------------------------- MODULE Wire --------------------------------
(***************************************************************************)
(* Messages between the server and a client: what the server writes into   *)
(* each (OutMessage and its subclasses), the queue that it writes them     *)
(* from, and what its handlers read out of a client's (InMessage).         *)
(*                                                                         *)
(* A message is a header, with the type and the size, and fields: a byte,  *)
(* an integer of 16 or 32 bits or a string, each of which is one unit of   *)
(* the stream.  Numbers are reduced to what the format of a message        *)
(* depends on: counts and conditions.  The client is the one of the        *)
(* formats that the comments of the source give; it is not in it.          *)
(*                                                                         *)
(* Definitions named Mutant... are wrong versions of the one that follows; *)
(* they are not used: they are there to see the properties fail.           *)
(***************************************************************************)
EXTENDS Integers, Sequences
LOCAL INSTANCE SequencesExt
LOCAL INSTANCE TLC

CONSTANTS
    MaxByte,        \* the largest number that fits in a byte
    PartySize,      \* BattleField::getPartySize
    Sends,          \* bound: how many messages each thread of the server sends
    MaxRequests     \* bound: how many the client sends

ASSUME WireAssumption ==
    /\ MaxByte \in Nat /\ MaxByte > 1
    /\ PartySize \in Nat \ {0} /\ Sends \in Seq(Nat) /\ MaxRequests \in Nat

VARIABLES
    out,            \* ClientImpl::m_queue
    sent,           \* what was put into it
    sends,          \* how many messages each thread has yet to send
    writes,         \* the messages that async_write has to write, from where on
    toClient,       \* the stream from the server to the client
    received,       \* what the client read
    requests,       \* what the client sent
    toServer,       \* the stream from the client to the server
    reading,        \* the header whose message ClientImpl reads, or one of these:
    did             \* what the handler of the last message has done

wireVars == <<out, sent, sends, writes, toClient, received,
              requests, toServer, reading, did>>

NoHeader == [type |-> "none", size |-> 0]
Removed == [type |-> "removed", size |-> 0]

-----------------------------------------------------------------------------
(* OutMessage: what is written is as wide as its type.                     *)

Byte(n) == <<[kind |-> "byte", value |-> n % (MaxByte + 1)]>>
Int16(n) == <<[kind |-> "int16", value |-> n]>>
Int32(n) == <<[kind |-> "int32", value |-> n]>>
String == <<[kind |-> "string", value |-> 0]>>
Flag8(b) == Byte(IF b THEN 1 ELSE 0)
Each(n, fields) == FlattenSeq([i \in 1 .. n |-> fields])
Message(type, fields) == [type |-> type, fields |-> fields]

(* The number of elements that are left of a collection.                   *)
MutantTruncated(n) == n
Truncated(n) == IF n > MaxByte THEN MaxByte ELSE n

WelcomeMessage == Message("WELCOME_MESSAGE",
    Int32(2) \o String \o String \o Flag8(TRUE) \o String \o String)
ChallengeMessage == Message("PASSWORD_CHALLENGE", Each(16, Byte(0)) \o Byte(0) \o String)
RegistryResponse == Message("REGISTRY_RESPONSE", Byte(0) \o String)
ErrorMessage == Message("ERROR_MESSAGE", Byte(0) \o String)

IncomingChallenge(metagame, clauses, timed) == Message("INCOMING_CHALLENGE",
    String \o Byte(0) \o Int32(0) \o Int32(0) \o Int32(metagame) \o
    IF metagame /= -1 THEN <<>>
    ELSE Byte(clauses) \o Each(clauses, Byte(0)) \o Flag8(timed) \o
         IF timed THEN Int32(0) \o Byte(0) \o Int32(0) ELSE <<>>)
FinaliseChallenge == Message("FINALISE_CHALLENGE", String \o Flag8(TRUE))
ChallengeWithdrawn == Message("CHALLENGE_WITHDRAWN", String)
KickBanMessage == Message("KICK_BAN_MESSAGE", Int32(0) \o String \o String \o Int32(0))

UserDetailMessage(aliases, barred) == Message("USER_DETAILS",
    String \o String \o
    Byte(Truncated(aliases)) \o Each(Truncated(aliases), String) \o
    Byte(Truncated(barred)) \o Each(Truncated(barred), Int32(0) \o String \o Int32(0)))
UserPersonalMessage(estimates) == Message("USER_MESSAGE",
    String \o String \o
    Byte(Truncated(estimates)) \o Each(Truncated(estimates), Byte(0) \o Int32(0)))
InvalidTeamMessage(violations) == Message("INVALID_TEAM",
    String \o Byte(0) \o Int16(violations) \o Each(violations, Int16(0)))
PrivateMessage == Message("PRIVATE_MESSAGE", String \o String \o String)
ImportantMessage == Message("IMPORTANT_MESSAGE", Int32(0) \o String \o String)

ChannelInfo(clients) == Message("CHANNEL_INFO",
    Int32(0) \o Byte(0) \o String \o String \o Int32(0) \o
    Int32(clients) \o Each(clients, String \o Int32(0)))
ChannelStatus == Message("CHANNEL_STATUS", Int32(0) \o String \o String \o Int32(0))
ChannelMessage == Message("CHANNEL_MESSAGE", Int32(0) \o String \o String)
ChannelJoinPart == Message("CHANNEL_JOIN_PART", Int32(0) \o String \o Flag8(TRUE))
ChannelList(channels) == Message("CHANNEL_LIST",
    Int32(channels) \o Each(channels, String \o Byte(0) \o String \o Int32(0)))

MetagameList(generations, metagames, banned, clauses, timed) == Message("METAGAME_LIST",
    Byte(generations) \o Each(generations, String \o String \o
        Byte(metagames) \o Each(metagames, String \o String \o String \o Byte(0) \o Byte(0) \o
            Int16(banned) \o Each(banned, Int16(0)) \o
            Int16(clauses) \o Each(clauses, String) \o
            IF timed THEN Byte(1) \o Int16(0) \o Byte(0) \o Int16(0) ELSE Byte(0))))
ClauseList(clauses) == Message("CLAUSE_LIST", Int16(clauses) \o Each(clauses, String \o String))

-----------------------------------------------------------------------------
(* The messages of a battle.                                               *)

(* What a spectator is told of a pokemon; only normal statuses count.      *)
Statuses(n) == Byte(n) \o Each(n, String \o String \o Byte(0))
Spectated(p) ==
    Flag8(p.revealed) \o
    IF ~p.revealed THEN <<>>
    ELSE Int16(-1) \o String \o Int16(0) \o Byte(0) \o Byte(0) \o Flag8(FALSE) \o
         Flag8(p.fainted) \o
         IF p.fainted THEN <<>> ELSE Byte(0) \o Statuses(p.statuses)
PrepareSpectator(teams, timed) == Message("SPECTATOR_BEGIN",
    Int32(0) \o String \o String \o Byte(PartySize) \o Byte(0) \o
    Byte(IF timed THEN 1 ELSE -1) \o
    FlattenSeq([i \in 1 .. 2 |-> Byte(Len(teams[i])) \o
        FlattenSeq([j \in DOMAIN teams[i] |-> Spectated(teams[i][j])])]))

SendBattleBegin == Message("BATTLE_BEGIN",
    Int32(0) \o String \o Byte(0) \o Byte(0) \o Int16(-1) \o Flag8(FALSE) \o String)

(* Of the place of a pokemon: is there one that has not fainted?           *)
WriteVisualData(there) ==
    IF there THEN Int16(0) \o Byte(0) \o Byte(0) \o Flag8(FALSE) ELSE Int16(-1)
UpdateBattlePokemon(there) == Message("BATTLE_POKEMON",
    Int32(0) \o FlattenSeq([i \in 1 .. 2 * PartySize |-> WriteVisualData(there[i])]))

RequestAction(replacement, turns, switches, compelled, known) == Message("REQUEST_ACTION",
    Int32(0) \o Byte(0) \o Byte(0) \o Flag8(replacement) \o Byte(turns) \o Byte(PartySize) \o
    Int32(switches) \o Each(switches, Flag8(TRUE)) \o
    IF replacement THEN <<>>
    ELSE Flag8(TRUE) \o Flag8(compelled) \o
         IF compelled THEN <<>> ELSE Int32(known) \o Each(known, Flag8(TRUE)))

PrintText(args) == Message("BATTLE_PRINT",
    Int32(0) \o Byte(0) \o Int16(0) \o Byte(args) \o Each(args, String))
InformVictory == Message("BATTLE_VICTORY", Int32(0) \o Int16(-1))
InformUseMove == Message("BATTLE_USE_MOVE",
    Int32(0) \o Byte(0) \o Byte(0) \o String \o Int16(0))
InformWithdraw == Message("BATTLE_WITHDRAW", Int32(0) \o Byte(0) \o Byte(0) \o String)
InformSendOut == Message("BATTLE_SEND_OUT",
    Int32(0) \o Byte(0) \o Byte(0) \o Byte(0) \o String \o Int16(0) \o Byte(0) \o Byte(0))
InformHealthChange == Message("BATTLE_HEALTH_CHANGE",
    Int32(0) \o Byte(0) \o Byte(0) \o Int16(0) \o Int16(0) \o Int16(48))
InformSetPp == Message("BATTLE_SET_PP", Int32(0) \o Byte(0) \o Byte(0) \o Byte(0))
InformSetMove == Message("BATTLE_SET_MOVE",
    Int32(0) \o Byte(0) \o Byte(0) \o Int16(0) \o Byte(0) \o Byte(0))
InformFainted == Message("BATTLE_FAINTED", Int32(0) \o Byte(0) \o Byte(0) \o String)
InformStatusChange == Message("BATTLE_STATUS_CHANGE",
    Int32(0) \o Byte(0) \o Byte(0) \o Byte(0) \o Byte(0) \o String \o String \o Flag8(TRUE))
InformBeginTurn(timed) == Message("BATTLE_BEGIN_TURN",
    Int32(0) \o Int16(1) \o Flag8(timed) \o
    IF timed THEN Each(2, Int16(0) \o Byte(0)) ELSE <<>>)

-----------------------------------------------------------------------------
(* Reading.  A reader is a sequence of items: it gets a field, which may   *)
(* be remembered by a name, repeats a part as often as a count says, reads *)
(* a part if what was remembered is among some values, and does things;    *)
(* or it ends there if the server does not find what the message names.    *)

Item(is, kind, name, part, values) ==
    [is |-> is, kind |-> kind, name |-> name, part |-> part, values |-> values]
Get(kind) == <<Item("get", kind, "", <<>>, {})>>
GetAs(kind, name) == <<Item("get", kind, name, <<>>, {})>>
Counting(kind, part) == <<Item("count", kind, "", part, {})>>
Among(name, values, part) == <<Item("among", "", name, part, values)>>
Valid(kind) == <<Item("valid", kind, "", <<>>, {})>>
Optional(kind) == <<Item("optional", kind, "", <<>>, {})>>
Find == <<Item("find", "", "", <<>>, {})>>
Do(what) == <<Item("do", "", what, <<>>, {})>>
Twice(part) == part \o part

(* Reading `fields` from the one after position i on, with what is         *)
(* remembered and done so far; `at` is the position after it, -1 if there  *)
(* was not what the reader wants (ensureMoreData).                         *)
RECURSIVE Read(_, _, _, _, _, _)
Read(items, fields, i, known, done, found) ==
    IF items = <<>> THEN [at |-> i, did |-> done]
    ELSE LET item == Head(items)
             there == i < Len(fields) /\ fields[i + 1].kind = item.kind
             n == fields[i + 1].value
             rest == Tail(items)
             Nil == [at |-> -1, did |-> done]
    IN CASE item.is = "get" ->
                IF there THEN Read(rest, fields, i + 1, (item.name :> n) @@ known, done, found)
                ELSE Nil
         [] item.is = "valid" ->
                IF there /\ n /= -1 THEN Read(rest, fields, i + 1, known, done, found) ELSE Nil
         [] item.is = "count" ->
                IF there
                THEN Read(FlattenSeq([k \in 1 .. n |-> item.part]) \o rest,
                          fields, i + 1, known, done, found)
                ELSE Nil
         [] item.is = "among" ->
                Read(IF known[item.name] \in item.values THEN item.part \o rest ELSE rest,
                     fields, i, known, done, found)
         [] item.is = "optional" ->
                Read(rest, fields, IF there THEN i + 1 ELSE i, known, done, found)
         [] item.is = "find" ->
                IF found THEN Read(rest, fields, i, known, done, found)
                ELSE [at |-> i, did |-> done]
         [] item.is = "do" -> Read(rest, fields, i, known, Append(done, item.name), found)

B == Get("byte")
H == Get("int16")
I == Get("int32")
S == Get("string")
Somebody == I \o B \o B         \* a field, a party, and a slot or an index

(* The formats that comments give, and those of the other classes.         *)
Format ==
    [WELCOME_MESSAGE |-> I \o S \o S \o B \o S \o S,
     PASSWORD_CHALLENGE |-> FlattenSeq([i \in 1 .. 16 |-> B]) \o B \o S,
     REGISTRY_RESPONSE |-> B \o S,
     ERROR_MESSAGE |-> B \o S,
     INCOMING_CHALLENGE |-> S \o B \o I \o I \o GetAs("int32", "metagame") \o
        Among("metagame", {-1}, Counting("byte", B) \o GetAs("byte", "timed") \o
            Among("timed", 1 .. MaxByte, I \o B \o I)),
     FINALISE_CHALLENGE |-> S \o B,
     CHALLENGE_WITHDRAWN |-> S,
     KICK_BAN_MESSAGE |-> I \o S \o S \o I,
     USER_DETAILS |-> S \o S \o Counting("byte", S) \o Counting("byte", I \o S \o I),
     USER_MESSAGE |-> S \o S \o Counting("byte", B \o I),
     INVALID_TEAM |-> S \o B \o Counting("int16", H),
     PRIVATE_MESSAGE |-> S \o S \o S,
     IMPORTANT_MESSAGE |-> I \o S \o S,
     CHANNEL_INFO |-> I \o B \o S \o S \o I \o Counting("int32", S \o I),
     CHANNEL_STATUS |-> I \o S \o S \o I,
     CHANNEL_MESSAGE |-> I \o S \o S,
     CHANNEL_JOIN_PART |-> I \o S \o B,
     CHANNEL_LIST |-> Counting("int32", S \o B \o S \o I),
     METAGAME_LIST |-> Counting("byte", S \o S \o
        Counting("byte", S \o S \o S \o B \o B \o Counting("int16", H) \o Counting("int16", S) \o
            GetAs("byte", "timed") \o Among("timed", 1 .. MaxByte, H \o B \o H))),
     CLAUSE_LIST |-> Counting("int16", S \o S),
     SPECTATOR_BEGIN |-> I \o S \o S \o B \o B \o B \o Twice(Counting("byte",
        GetAs("byte", "revealed") \o Among("revealed", 1 .. MaxByte,
            H \o S \o H \o B \o B \o B \o GetAs("byte", "fainted") \o
            Among("fainted", {0}, B \o Counting("byte", S \o S \o B))))),
     BATTLE_BEGIN |-> I \o S \o B \o B \o H \o B \o S,
     BATTLE_POKEMON |-> I \o FlattenSeq([i \in 1 .. 2 * PartySize |->
        GetAs("int16", "species") \o Among("species", Nat, B \o B \o B)]),
     REQUEST_ACTION |-> I \o B \o B \o GetAs("byte", "replacement") \o B \o B \o
        Counting("int32", B) \o Among("replacement", {0},
            B \o GetAs("byte", "forced") \o Among("forced", {0}, Counting("int32", B))),
     BATTLE_PRINT |-> I \o B \o H \o Counting("byte", S),
     BATTLE_VICTORY |-> I \o H,
     BATTLE_USE_MOVE |-> Somebody \o S \o H,
     BATTLE_WITHDRAW |-> Somebody \o S,
     BATTLE_SEND_OUT |-> Somebody \o B \o S \o H \o B \o B,
     BATTLE_HEALTH_CHANGE |-> Somebody \o H \o H \o H,
     BATTLE_SET_PP |-> Somebody \o B,
     BATTLE_SET_MOVE |-> Somebody \o H \o B \o B,
     BATTLE_FAINTED |-> Somebody \o S,
     BATTLE_STATUS_CHANGE |-> Somebody \o B \o B \o S \o S \o B,
     BATTLE_BEGIN_TURN |-> I \o H \o GetAs("byte", "timed") \o
        Among("timed", 1 .. MaxByte, Twice(H \o B))]

(* Is what was read a message, from its first to its last field?           *)
Parses(m) ==
    /\ m.type \in DOMAIN Format
    /\ Read(Format[m.type], m.fields, 0, <<>>, <<>>, TRUE).at = Len(m.fields)

-----------------------------------------------------------------------------
(* The handlers of the server, and what each does in the end.              *)

(* readTeam: of a pokemon with the species and the nature, which have to   *)
(* exist, its moves and the rest.                                          *)
ReadPokemon == Valid("int32") \o S \o Counting("int32", I \o I) \o I
ReadTeam == Counting("int32", ReadPokemon)

HandleRequestChallenge == S \o Do("answer")
HandleChallengeResponse == Find \o FlattenSeq([i \in 1 .. 16 |-> B]) \o Do("log in")
HandleRegisterAccount == S \o S \o Do("register")
HandleJoinChannel == S \o Find \o Do("join")
HandleChannelMessage == I \o S \o Find \o Do("broadcast")
HandleModeMessage == I \o S \o B \o B \o Find \o Do("set mode")
HandleOutgoingChallenge ==
    S \o B \o I \o I \o GetAs("int32", "metagame") \o
    Among("metagame", {-1}, Counting("byte", B) \o GetAs("byte", "timed") \o
        Among("timed", 1 .. MaxByte, I \o B \o I)) \o
    Find \o Do("challenge")
HandleResolveChallenge ==
    S \o GetAs("byte", "accept") \o Find \o
    Among("accept", {0}, Do("reject")) \o
    Among("accept", 1 .. MaxByte, ReadTeam \o Do("keep team") \o Do("accept"))
(* The team that it reads anew is the client's own, which nobody else sees.*)
HandleChallengeTeam == S \o Find \o ReadTeam \o Do("erase challenge") \o Do("begin battle")
HandleWithdrawChallenge == S \o Find \o Do("withdraw")
HandleBattleAction == I \o B \o B \o B \o Find \o Do("turn")
HandlePartChannel == I \o Find \o Do("part")
HandleRequestChannelList == Do("list channels")
HandleQueueTeam == B \o B \o B \o Find \o ReadTeam \o Do("queue")
HandleBanMessage == I \o S \o I \o Optional("byte") \o Find \o Do("ban")
HandleRequestUserInfo == S \o Find \o Do("tell")
HandlePersonalMessage == S \o Do("set message")
HandlePersonalMessageRequest == S \o Find \o Do("tell")
HandleCancelQueue == B \o B \o B \o Find \o Do("leave queue")
HandleCancelBattleAction == I \o Find \o Do("cancel")
HandlePrivateMessage == S \o S \o Do("send")
HandleImportantMessage == I \o S \o Find \o Do("broadcast")

Handlers ==
    [REQUEST_CHALLENGE |-> HandleRequestChallenge,
     CHALLENGE_RESPONSE |-> HandleChallengeResponse,
     REGISTER_ACCOUNT |-> HandleRegisterAccount,
     JOIN_CHANNEL |-> HandleJoinChannel,
     CHANNEL_MESSAGE |-> HandleChannelMessage,
     CHANNEL_MODE |-> HandleModeMessage,
     OUTGOING_CHALLENGE |-> HandleOutgoingChallenge,
     RESOLVE_CHALLENGE |-> HandleResolveChallenge,
     CHALLENGE_TEAM |-> HandleChallengeTeam,
     WITHDRAW_CHALLENGE |-> HandleWithdrawChallenge,
     BATTLE_ACTION |-> HandleBattleAction,
     PART_CHANNEL |-> HandlePartChannel,
     REQUEST_CHANNEL_LIST |-> HandleRequestChannelList,
     QUEUE_TEAM |-> HandleQueueTeam,
     BAN_MESSAGE |-> HandleBanMessage,
     USER_INFO_MESSAGE |-> HandleRequestUserInfo,
     USER_PERSONAL_MESSAGE |-> HandlePersonalMessage,
     USER_MESSAGE_REQUEST |-> HandlePersonalMessageRequest,
     CLIENT_ACTIVITY |-> <<>>,
     CANCEL_QUEUE |-> HandleCancelQueue,
     CANCEL_BATTLE_ACTION |-> HandleCancelBattleAction,
     PRIVATE_MESSAGE |-> HandlePrivateMessage,
     IMPORTANT_MESSAGE |-> HandleImportantMessage]

-----------------------------------------------------------------------------
(* The server writes.                                                      *)

Sent ==
    {WelcomeMessage, ChallengeMessage, RegistryResponse, ErrorMessage, FinaliseChallenge,
     ChallengeWithdrawn, KickBanMessage, PrivateMessage, ImportantMessage, ChannelStatus,
     ChannelMessage, ChannelJoinPart, SendBattleBegin, InformVictory, InformUseMove,
     InformWithdraw, InformSendOut, InformHealthChange, InformSetPp, InformSetMove,
     InformFainted, InformStatusChange}
    \cup {IncomingChallenge(g, n, timed) : g \in {-1, 0}, n \in {0, MaxByte}, timed \in BOOLEAN}
    \cup {UserDetailMessage(n, k) : n, k \in 0 .. MaxByte + 1}
    \cup UNION {{UserPersonalMessage(n), InvalidTeamMessage(n), ChannelInfo(n),
                 ChannelList(n), ClauseList(n)} : n \in 0 .. MaxByte + 1}
    \cup {MetagameList(2, 2, n, k, timed) : n, k \in {0, MaxByte + 1}, timed \in BOOLEAN}
    \cup {PrepareSpectator(<<<<p, q>>, <<q>>>>, timed) :
            p, q \in [revealed : BOOLEAN, fainted : BOOLEAN, statuses : {0, 2}], timed \in BOOLEAN}
    \cup {UpdateBattlePokemon(there) : there \in [1 .. 2 * PartySize -> BOOLEAN]}
    \cup {RequestAction(r, 0, 2, f, n) : r, f \in BOOLEAN, n \in {0, 2}}
    \cup {PrintText(n) : n \in 0 .. 2} \cup {InformBeginTurn(timed) : timed \in BOOLEAN}

(* finalise writes the size of what follows it.                            *)
Finalised(m) == <<[kind |-> "header", value |-> [type |-> m.type, size |-> Len(m.fields)]]>> \o m.fields

(* sendMessage, below m_queueMutex: writing begins if nothing is written.  *)
StartsWriting == out = <<>>
SendMessage(t, m) ==
    /\ sends' = [sends EXCEPT ![t] = @ - 1]
    /\ sent' = Append(sent, m)
    /\ out' = Append(out, m)
    /\ writes' = IF StartsWriting THEN Append(writes, Finalised(m)) ELSE writes
    /\ UNCHANGED <<toClient, received, requests, toServer, reading, did>>

(* The socket takes a part of any write: two of them would be mixed.       *)
Transmit(w) ==
    /\ writes[w] /= <<>>
    /\ toClient' = Append(toClient, Head(writes[w]))
    /\ writes' = [writes EXCEPT ![w] = Tail(@)]
    /\ UNCHANGED <<out, sent, sends, received, requests, toServer, reading, did>>

HandleWrite(w) ==
    /\ writes[w] = <<>>
    /\ out' = Tail(out)
    /\ writes' = IF out' = <<>> THEN RemoveAt(writes, w)
                 ELSE [writes EXCEPT ![w] = Finalised(Head(out'))]
    /\ UNCHANGED <<sent, sends, toClient, received, requests, toServer, reading, did>>

(* The client takes what the header says.                                  *)
Receive ==
    /\ toClient /= <<>>
    /\ LET header == Head(toClient).value
       IN  IF Head(toClient).kind /= "header"
           THEN /\ received' = Append(received, Message("garbage", <<>>))
                /\ toClient' = Tail(toClient)
           ELSE /\ Len(toClient) > header.size
                /\ received' = Append(received,
                        Message(header.type, SubSeq(toClient, 2, header.size + 1)))
                /\ toClient' = SubSeq(toClient, header.size + 2, Len(toClient))
    /\ UNCHANGED <<out, sent, sends, writes, requests, toServer, reading, did>>

-----------------------------------------------------------------------------
(* The client writes, and what it writes may break off.                    *)

Team(n, species) == Int32(n) \o Each(n, Int32(species) \o String \o Int32(1) \o Int32(0) \o Int32(0) \o Int32(0))
Whole ==
    [REQUEST_CHALLENGE |-> {String},
     CHALLENGE_RESPONSE |-> {Each(16, Byte(0))},
     REGISTER_ACCOUNT |-> {String \o String},
     JOIN_CHANNEL |-> {String},
     CHANNEL_MESSAGE |-> {Int32(0) \o String},
     CHANNEL_MODE |-> {Int32(0) \o String \o Byte(0) \o Byte(1)},
     OUTGOING_CHALLENGE |-> {IncomingChallenge(g, 2, timed).fields : g \in {-1, 0}, timed \in BOOLEAN},
     RESOLVE_CHALLENGE |-> {String \o Byte(0)} \cup {String \o Byte(1) \o Team(2, n) : n \in {-1, 0}},
     CHALLENGE_TEAM |-> {String \o Team(2, n) : n \in {-1, 0}},
     WITHDRAW_CHALLENGE |-> {String},
     BATTLE_ACTION |-> {Int32(0) \o Byte(0) \o Byte(0) \o Byte(0)},
     PART_CHANNEL |-> {Int32(0)},
     REQUEST_CHANNEL_LIST |-> {<<>>},
     QUEUE_TEAM |-> {Byte(0) \o Byte(0) \o Byte(0) \o Team(2, n) : n \in {-1, 0}},
     BAN_MESSAGE |-> {Int32(0) \o String \o Int32(0) \o fields : fields \in {<<>>, Byte(1)}},
     USER_INFO_MESSAGE |-> {String},
     USER_PERSONAL_MESSAGE |-> {String},
     USER_MESSAGE_REQUEST |-> {String},
     CLIENT_ACTIVITY |-> {<<>>},
     CANCEL_QUEUE |-> {Byte(0) \o Byte(0) \o Byte(0)},
     CANCEL_BATTLE_ACTION |-> {Int32(0)},
     PRIVATE_MESSAGE |-> {String \o String},
     IMPORTANT_MESSAGE |-> {Int32(0) \o String}]
Requests ==
    UNION {UNION {{Message(type, SubSeq(fields, 1, n)) : n \in 0 .. Len(fields)} :
                    fields \in Whole[type]} : type \in DOMAIN Whole}

Request(m) ==
    /\ requests' = Append(requests, m)
    /\ toServer' = toServer \o Finalised(m)
    /\ UNCHANGED <<out, sent, sends, writes, toClient, received, reading, did>>

(* handleReadHeader: the body is as long as the header says.               *)
HandleReadHeader ==
    /\ reading = NoHeader /\ toServer /= <<>>
    /\ reading' = Head(toServer).value
    /\ toServer' = Tail(toServer)
    /\ UNCHANGED <<out, sent, sends, writes, toClient, received, requests, did>>

(* handleReadBody, of a client who is logged in: a message that its        *)
(* handler cannot read to the end removes him; what is left over is not    *)
(* read.                                                                   *)
HandleReadBody(found) ==
    /\ reading \notin {NoHeader, Removed} /\ Len(toServer) >= reading.size
    /\ LET result == Read(Handlers[reading.type], SubSeq(toServer, 1, reading.size),
                         0, <<>>, <<>>, found)
       IN  /\ did' = result.did
           /\ reading' = IF result.at = -1 THEN Removed ELSE NoHeader
    /\ toServer' = SubSeq(toServer, reading.size + 1, Len(toServer))
    /\ UNCHANGED <<out, sent, sends, writes, toClient, received, requests>>

-----------------------------------------------------------------------------
WireInit ==
    /\ out = <<>> /\ sent = <<>> /\ sends = Sends /\ writes = <<>>
    /\ toClient = <<>> /\ received = <<>>
    /\ requests = <<>> /\ toServer = <<>>
    /\ reading = NoHeader /\ did = <<>>

(* The second thread sends one of a few messages between those of the first*)
ServerWrites ==
    \/ sends[1] > 0 /\ \E m \in Sent : SendMessage(1, m)
    \/ sends[2] > 0 /\ \E n \in {0, MaxByte + 1} : SendMessage(2, UserPersonalMessage(n))
    \/ \E w \in DOMAIN writes : Transmit(w) \/ HandleWrite(w)
    \/ Receive
ServerReads ==
    \/ Len(requests) < MaxRequests /\ \E m \in Requests : Request(m)
    \/ HandleReadHeader
    \/ \E found \in BOOLEAN : HandleReadBody(found)

WireNext == ServerWrites \/ ServerReads
WireSpec == WireInit /\ [][WireNext]_wireVars

-----------------------------------------------------------------------------
(* What the client reads is what was sent, one after the other, and each   *)
(* message is one of its format, with as many elements as its counts say,  *)
(* however many there were and whichever threads sent them.                *)
InStep ==
    \A k \in DOMAIN received : received[k] = sent[k] /\ Parses(received[k])

(* A message that breaks off, wherever that is, or that names what does    *)
(* not exist, has its sender removed and nothing else done.                *)
WholeOrNothing == reading = Removed => did = <<>>

(* Messages arrive as they were sent, and are handled as a whole or not at *)
(* all, in both directions.                                                *)
MessagesHold == InStep /\ WholeOrNothing
=============================================================================
