# Shoddy Battle 2 in TLA+

A verification project for the Pokemon battle server in this repository
(`src/src`, C++, with the battle scripts in `src/resources`). It models the
parts of the server whose correctness depends on the order in which things
happen, checks them with TLC on small instances, and proves the invariants that
matter most with TLAPS for every size of the instance.

File references are to `src/src/network/NetworkBattle.cpp` (NB),
`src/src/shoddybattle/BattleField.cpp` (BF), `src/src/shoddybattle/Pokemon.cpp`
(PK), `src/src/network/network.cpp` (NW), `src/src/network/Channel.cpp` (CH),
`src/src/mechanics/JewelMechanics.cpp` (JM) and
`src/src/matchmaking/MetagameList.cpp` (ML); the exact lines of every definition
are in `PROJECT.json` under `map`.

## The system

A server accepts clients, lets them chat in channels, matches them (by
challenge or by a matchmaking queue) and runs their battles. A battle is a
channel whose members are the two players and any spectators. The threads are
the workers of the `io_service` (`server.threads` of them), one queue thread per
battle, one timer thread for all battles (every 3 s), one matchmaking thread
(15 s), one that looks for silent clients (60 s), the registry's own queue
thread, and a thread that collects dead script roots.

| component | state | operations | talks to | what is hard |
|---|---|---|---|---|
| turn collection (NB `NetworkBattleImpl`) | `m_requests`, `m_turns`, `m_replacement`, `m_waiting`, `m_selection`, `m_victory`, `m_terminated` | `handleTurn`, `cancelAction`, `maybeExecuteTurn`, `requestMoves`, `requestReplacements`, `requestInactivePokemon`, `handleForfeit` | clients (requests out, turns in), field, queue thread | lists that are filled in one place and cleared in another; a turn suspended in its middle; forfeits at any time |
| field (BF) | who is in which slot, who fainted, pending actions, effects | `beginBattle`, `processTurn`, `processReplacements`, `executePendingAction`, `tickEffects`, `determineVictory` | scripts, turn collection | answers are matched to Pokemon by position after they were collected on another thread; ties |
| threads and locks of a battle (NB, CH, `ThreadedQueue.h`) | three mutexes, a condition variable, the queue, references | `executeTurn`, `handleTurn`, `handlePart`, `join`, `terminate`, the destructor | everything above | lock order, adopted locks, one condition with two kinds of waiters, destruction on any thread |
| battle timer (NB `Timer`) | remaining time, periods, stopped, last tick | `tick`, `startTimer`, `stopTimer`, `beginTicking` | timer thread, turn collection, channel | ticked by several threads without a common lock; periods |
| channels (CH) | members with flags, topic, ids | `join`, `part`, `setMode`, `broadcast`, ban checks | clients, registry | read, then change, then commit, under locks of different strength |
| clients and client list (NW `ClientImpl`, `ServerImpl`) | authenticated, channels, battles, challenges, last activity | accept, authenticate, disconnect, phantom removal, `broadcast` | all | removal from several threads at once; the user limit |
| challenges (NW) | map of outgoing challenges per client | request, resolve, team, withdraw | two clients | addressed by name, across two clients' locks |
| matchmaking (NW `MetagameQueue`) | set of clients, queue of entries | `queueClient`, `removeClient`, `startMatches` | client lifecycle, battles | a client who leaves between queueing and the match |
| write queue of a client (NW) | queue of messages | `sendMessage`, `handleWrite`, `handleError` | sockets | one write in flight at a time |
| Pokemon, teams, species (`Pokemon.cpp`, ...) | health, statuses, moves, forced turn | `faint`, `setHp`, `applyStatus`, legality | field, scripts | statuses that are removed while they are visited |
| mechanics (`JewelMechanics.cpp`, `stat.cpp`, `PokemonType.cpp`) | none | statistics, damage, effectiveness | field | integer arithmetic |
| script machine (`ScriptMachine.cpp`) | pool of contexts, dead roots | `acquireContext`, `releaseContext`, roots | scripts | a context used by one thread at a time; roots dropped on other threads |
| registry, authenticator (`database`) | SQL database | users, bans, ladder | clients, channels | the ladder is updated on a queue thread |
| ratings, metagames (`matchmaking`) | lists of generations, metagames and clauses | glicko2, XML lists, the rules of a battle | registry, queues, challenges | numbers that name metagames and clauses; real values |
| rooms (CH, NB) | identifiers, the list of channels, who is in which battle | creation, `beginBattle`, spectating, leaving, the end | clients, battles | a battle that begins while its players leave; identifiers that are used again |
| spectators (NB) | what a client knows of a battle | `join`, `prepareSpectator...`, broadcasts | field, channel | a snapshot in the middle of a move |
| start and stop (`main/main.cpp`) | pid file, pipe to the parent, port, main channel | daemonise, kill, signals, start-up | operating system, registry | crashes, two launches at once |
| team files (`ObjectTeamFile.cpp`, `Team.cpp`) | last handle, objects by handle | `loadTeam`, `readObject` and what it calls | files of Shoddy Battle 1 | references by numbers that the reader counts for itself |
| text, logs | files | output, option parsing | all | none |

What makes each correct, in a sentence: a round is executed exactly when it is
complete, with the answers of the Pokemon they were given for (turn collection);
nobody is in two slots, none who fainted acts or enters (field); a battle ends
once, is destroyed once, after its last use, and leaves no mutex locked
(threads); a player is charged for the time he owes an answer and leaves when it
is gone (timer); membership, flags and the registry agree (channels); a client
is in each list exactly while he is connected (clients); a challenge is accepted
as it was made and at most once (challenges); nobody is matched twice or alone
(matchmaking); what the client reads is what was sent, and what the server reads
is done whole or not at all (messages); a context is used by one thread and what
C++ holds is not collected (script machine); every match counts once in a rating
(registry); nobody faints twice, has two abilities or remembers who is not there
(Pokemon); whoever is asked can answer (legality); an effect in many lists counts
and ticks once (field effects); an advantage is never a loss (mechanics); what a
team is refused for is what is wrong with it (teams); a Pokemon is read as it
was written (team files); a spectator sees what is
there; and what the program says of a daemon is so (start and stop).

## Modules

* `BattleTurns` - turn collection and execution. One action per handler or per
  step of the queue thread; a handler runs under the battle mutex and is atomic
  with respect to a turn, so it is enabled only when `Unlocked`.
* `TurnRounds` - what turn collection promises: rounds of questions that are
  executed when every one has exactly one answer. `BattleTurns` implements it
  (`ImplementsRounds`).
* `MCBattleTurns` - team sizes for TLC.
* `BattleTurnsProofs` - theorems about `BattleTurns`.
* `BattleLocks` - the threads, mutexes, condition variable and references of one
  battle.
* `BattleLocksProofs` - theorems about `BattleLocks`.
* `BattleTimer` - the two clocks of a battle, the two threads that tick them and
  the rounds that start and stop them.
* `BattleTimerProofs` - theorems about `BattleTimer`.
* `Lobby` - the connections of the server, a matchmaking queue, and the removal
  of a client by several threads.
* `MCLobby` - who owns which connection, for TLC.
* `LobbyProofs` - theorems about `Lobby`.
* `Challenges` - challenges between users, answered and withdrawn by name while
  teams are checked and clients leave and come back.
* `Offers` - what they promise: a challenge is made, accepted, and then played,
  withdrawn or rejected, once. `Challenges` implements it (`ImplementsOffers`).
* `MCChallenges` - who owns which connection and may challenge, for TLC.
* `ChallengesProofs` - theorems about `Challenges`.

The server around battles, composed in `MCServer`:

* `Channels` - an ordinary chat channel: joining, leaving, modes, kicks, bans,
  and the tables that keep them.
* `Accounts` - registration, logging in, and the ladder of rated battles.
* `Contexts` - the pool of script contexts, requests, roots and the collection
  of garbage, as checked teams and one battle use them.
* `Wire` - the layout of the messages in both directions, the queue they are
  written from and the handlers that read them.
* `Rooms` - identifiers of channels, rooms of battles, and who is in them.
* `Metagames` - the rules that battles are played by, from the list of metagames
  to the battle and its ladder.
* `Daemon` - starting, forking, killing and dying.
* `ServerProofs` - theorems about `Accounts`, `Contexts`, `Metagames`, `Daemon`,
  `Channels` and `Rooms`.

The rules of a battle, composed in `MCRules`:

* `Effects` - what a move does: blows, health, fainting, statuses, abilities,
  items, leaving and entering, as calls that call each other.
* `Spectators` - extends `Effects` by a spectator, the snapshot he is sent and
  what is broadcast.
* `TurnOrder` - the comparator with coins for ties, inside the sort of libstdc++.
* `Mechanics` - statistics, accuracy, effectiveness and damage in integers.
* `Teams` - the checks of a team and the numbers that name what is wrong.
* `Choices` - legality, Struggle, forced turns, moves that bind, PP.
* `Modifiers` - effects on the field, their ticks, and the modifiers of all
  effects. `MCChoices` instantiates `Choices` alone, for doubles.
* `TeamFiles` - the reader of the team files of Shoddy Battle 1.
* `RulesProofs` - theorems about `Effects`, `Spectators` and `TurnOrder`.
* `ChoicesProofs` - theorems about `Choices` and `Modifiers`.

`MCServer` and `MCRules` run their parts one at a time (the variable `part`, and
in `MCRules` the part whose state is not idle): the parts share no variable, so
that interleaving two of them would only multiply states. Where parts of the
program do meet, one module has both: `Spectators` extends `Effects`, `Channels`
and `Accounts` have the registry, `Metagames` the queues, challenges and the
ladder, `Rooms` the matchmaker, challenges and channels.

### BattleTurns and the code

| variable | code |
|---|---|
| `active`, `fainted` | the slots of `BattleField` and `Pokemon::isFainted` |
| `requests`, `turns` | `m_requests`, `m_turns` |
| `replacement`, `waiting`, `selection`, `victory`, `terminated` | the members of the same names |
| `queue` | the turns posted to `m_queue` |
| `stage`, `pending`, `user`, `forfeit` | where the queue thread is in `executeTurn`, the sorted turns it has still to execute, the Pokemon in whose move it is suspended, and the party whose `handleForfeit` waits |

`HandleTurn`, `HandleCancelTurn` and `HandleForfeit`/`FinishForfeit` are the
handlers of a player's turn, of its cancellation and of his leaving;
`ExecuteTurn` to `EndReplacements` are the queue thread: the start of
`executeTurn`, one action of the batch at a time (a move, a switch, a move that
drags somebody out, one that asks for an inactive Pokemon), the effects at the
end of the turn, and the questions of the next round. What a move does is
abstracted to who faints and who is replaced; priority, speed and the coin flip
to any order that the comparator allows. Each answer remembers (`by`) for which
Pokemon it was given; the code does not, and `FitsField` says that it does not
have to. A throw out of `executeTurn` is the stage `thrown`, a turn that
goes on after its field was reset `faulted`.

### BattleLocks and the code

`pc[t]` is where thread `t` is: the queue thread, per player one worker that
delivers turns and one that makes him leave (his own message, a socket error or
the timer thread), per spectator one that joins. `held[l]` is the owner and
depth of a recursive mutex, `refs` the threads that hold a `shared_ptr` to the
battle, with `Clients` for the battle lists of its players. A stretch that takes
no further lock and gives back what it took is one step; a lock held only for
such a stretch by code that takes no other cannot block anyone and is left out.
`Dropped` and `Taken` are lock and unlock; `AskSelection`, `Resume`,
`PickForWaiting` and `WakeForfeit` are the two waits on `m_condition`, spurious
wake-ups left out. Undefined behaviour after the field is gone ends in
`faulted`, where the thread stops.

### BattleTimer and the code

`remaining`, `periods` and `stopped` are the fields of `PlayerTimer`, each used
under its own mutex, so that charging one player is one step. `m_lastTime` has
no lock: the reading of the clock, the reading and the writing of `m_lastTime`
are steps of their own on each of the two threads that run `Timer::tick`, the
timer thread and the worker below `stopTimer`. Times are kept as distances to
now: `lag` is `time(NULL) - m_lastTime`, `ago[t]` the age of thread `t`'s local
`now`, `delta[t]` its `delta`, `charged[t]` its `i`. `answering` is the player
whose turn a worker handles (it then owns the battle mutex). The request and turn
lists are reduced to their lengths: `asked[p]` questions, `owes[p]` still to be
answered; an answer that is refused changes nothing here. `timeExpired` ends
the battle in one step; its locks are in `BattleLocks`.

### Lobby and the code

| variable | code |
|---|---|
| `pc` | per connection, where the worker that reads, the worker that writes and the thread that looks for silent clients are |
| `open`, `loggedIn` | `m_socket.is_open()`, `m_authenticated` |
| `accepting`, `clients` | clients in `handleAccept` between `start` and the insertion, and `m_clients` |
| `queue`, `queued` | `MetagameQueue::m_queue` and `m_clients`, of one queue |
| `joined`, `playing` | who is in a channel, who plays whom |

`ServerImpl::removeClient` takes the mutexes of the queues, of the client's
channels and of the client list one after the other: `LeaveQueues`, `Disconnect`
and `Erase`, on any of the three threads. A handler of a message is one step that
ends by starting the next read (`Handled`). `authenticateClient` and the setting
of `m_id` after it are one step. `removeClient` compares ids, and the id of a
client that is not logged in was never set: `LeaveQueue` lets it be anybody's.

### Challenges and the code

| variable | code |
|---|---|
| `here` | the clients that `getClient` finds |
| `reader`, `phantom` | where the worker that reads from a client is, and the thread that removes silent clients |
| `book` | `m_challenges` of each client: by the opponent's name |
| `team` | `teams[1]` of each challenge, as the challenge it was checked for |
| `work` | the challenge a handler holds while it has no lock |
| `made`, `ended`, `told` | what has been: how many challenges were made, how each ended, and which one a client was told of last |

A handler that keeps `m_challengeMutex` to its end is one step.
`handleResolveChallenge` is two: `BeginAccept` finds the challenge by name, and
`EndAccept` or `RefuseTeam` comes after the team was checked without a lock;
`handleChallengeTeam` keeps the challenge's own mutex while the battle is made,
so it is `ChallengeTeam` and `StartBattle`. `made`, `ended` and `told` are
history, not state of the server: the server does not look at them, except that
`made` numbers the challenges and bounds them. Names are spelled alike: the book
is keyed by what the challenger typed, while `getClient` ignores case, so that
the real server can have entries that nobody's answer finds.

`ImplementsOffers` is about the terms a team was checked for. It does not say
that the opponent answers the challenge he has read last: an answer that crosses
a withdrawal and a new challenge of the same user accepts the new one, with a
team checked for it.

### The server modules and the code

The variables of a module name their members in its `VARIABLES` section.

*Channels.* A client is a user with one worker (`pc`, `job`); `Sweeper` is the
thread that removes silent clients. The shared mutex of a channel is `upgrade`
(`join`, which reads the registry under it) and `readers` (`setStatusFlags`,
which commits below the shared lock); a stretch under the exclusive lock is a
step. `BeginJoin`, `RemoveBan`, `Enter`, `List` are `Channel::join` and the rest
of `joinChannel`; `Disconnect`, `Part`, `Clear`, `Erase` are `removeClient`;
`SetUserMode`, `SetChannelMode`, `WriteFlags`, `CommitFlags`, `WriteModes`,
`CommitModes` are `handleModeMessage` and the two setters, `Ban`, `CommitBan`,
`Kick`, `Unban` and `CommitUnban` the handlers of the same names.

*Accounts.* Every SQL statement that reads or writes a table is a step; a
connection handles its messages one after the other (`step`), the ends of battles
are threads of their own (`battle[b].at`). `called` is `m_name`: it is set by a
request for a challenge, of a client who is logged in too (`RequestChallenge`
looks him up, `TakeName` sets it), and is not given back if the challenge is never
answered. `renamed` is a history variable: who took a name while logged in.
`getClient` ignores case and reads `m_name` of others while they may set it; names
are model values, and are read and set in one step. `accounted` remembers which matches a
rating was computed from; the formulas themselves are not there. A row of
`users` is found by name and not unique, as the table has no such constraint.

*Contexts.* `at[t]` is where a thread is: it acquires, opens and closes requests,
holds a value, roots it, collects. The queue thread of the battle gives up the
mutex and the context in `requestInactivePokemon` and takes them back
(`clearContextThread`, `saved`). The JavaScript engine is external.

*Wire.* A field of a message is one unit of the stream, whatever its width;
numbers are kept as far as the rest of the message depends on them. `S`, `Among`,
`Do` and `\o` put the reads of a handler together in the order of the code;
`Parses` is the client of the formats in the comments.

*Rooms.* `task[t]` is what a thread (a user's worker, or the matchmaker) is
about, step by step: an identifier is acquired, the room made, its players join
under the monitor of `beginBattle`, it is listed, and the battle put in their
books. `released` is the list of the id vendor.

*Metagames.* Handlers are single steps here, for what matters is which metagame,
clauses and bans a number finds: `At(list, n)` counts from zero as the messages
do. Clauses are sets of names, since a team is checked by all of them. `wanted`
are the queues that `operator[]` made of a name that is not there;
`crashed` is the dereference of one.

*Daemon.* `parent[l]` is the process that was launched, `progress[l]` the one
that serves; each step of `initialise`, `main` and the constructor that can fail
or be seen is one action. libdaemon is external.

### The rules modules and the code

*Effects.* `calls` is the stack of calls that are still to be made: a step makes
the first and puts what it calls before the rest, so that `setHp` inside `faint`
inside `setHp` is what it is in the program. `effects[p]` is the list with the
removed and not yet swept; `ability[p]` and `item[p]` point into it.

*Spectators.* `view` is what the client knows; `Snapshot` is
`prepareSpectator...`, and every step of `Effects` that is narrated sends it.

*TurnOrder.* `flips` and `copied` are the maps of the comparator and of its
copy: `std::sort` takes the comparator by value, and the unguarded insertion
copies it again. `TakeNext` (the next element, first against the front) and
`Search` (the unguarded walk to its place) are libstdc++'s insertion sort, which
is what `std::sort` does for up to sixteen elements.

*Mechanics.* Operators are the functions of the same names; a factor that the
code has as a double is a fraction. `hit` is one hit, and a step calculates it.

*Teams.* A step takes a team along one of the ways: the queue, a challenge, or
its answer. Codes are negative for a Pokemon (`-1 - i - size * condition`), and
not negative for a clause.

*Choices.* `stage` is where the turn is; `acting` the execution that is on top;
`bound` the statuses with what they count. `ForbidsSelection` and
`ForbidsExecution` are `vetoSelection` and `vetoExecution` of the effects.

*Modifiers.* `objects` are the effects on the field, `forces` and `lists` the
lists that name them. `Put` is the map of modifiers by key. `due` is what
`tickEffects` has yet to tick, in the order of `Sooner`.

*TeamFiles.* `loads` is what was loaded and answered, `team` the Pokemon. The reader
is recursive operators with the names of the code's functions, each of which
takes the reader's state (what is left to read, `m_handle`, `m_objects`) and
returns it with a `value`; a byte that is not what it is taken for, or a null
pointer that is followed, makes it `lost`. `Contents` is what Java's
`ObjectOutputStream` writes for a team: external, the definition the reader is
measured by.

## Runs

| run | instance | what it checks |
|---|---|---|
| `doubles` | slots 2, teams of 4 and 2 | `FitsField`, `SelectionIsUsable`, `SwitchesFit`, `ImplementsRounds` |
| `live` | slots 2, teams of 3 and 2 | `EveryRoundIsPlayed`, `EveryTurnEnds` |
| `locks` | two players, a spectator, selections, a timer | `LocksBalanced`, `EndsOnce`, `AliveWhileUsed` |
| `calm` | two players, nothing else | `NoCircularWait`, `EndedIsDestroyed` |
| `join_deadlock` | one player, a spectator | `NoCircularWait` is violated |
| `clock` | a pool of 1 second, no period | `ClockRunsWhileOwed`, `OnlyDebtorsExpire`, `RoundEnds`, `ExpiryEndsBattle` |
| `lobby` | two users with a connection each | `ConnectedIsServed`, `QueuedOnce`, `LeftForGood` |
| `lobby_queue` | the same | `QueueAgrees` is violated |
| `challenges` | three connections of two users | `NobodyWaitsInVain`, `ImplementsOffers` |
| `server` | `MCServer`, one part at a time | `BannedAreOut`, `MembersAgree` (Channels), `OnlineOnce`, `EveryMatchCounts` (Accounts), `RequestsAreSafe`, `CollectionsGoOn` (Contexts), `MessagesHold` (Wire), `RoomsAgree` (Rooms), `PlayedAsAgreed` (Metagames), `StartsAsTold` (Daemon) |
| `rules` | `MCRules`, one part at a time | `FaintsOnce`, `BooksAgree` (Effects), `SpectatorSees` (Spectators), `SortsInOrder` (TurnOrder), `AdvantagesHelp` (Mechanics), `RefusalsNameTheFault` (Teams), `SomethingIsLegal`, `MovesGoOn` (Choices), `OneOfMany` (Modifiers), `ReadsWhatWasWritten` (TeamFiles) |
| `no_answer` | `MCChoices`, doubles | `SomethingIsLegal` is violated |

Types are not in this table: `TypeOK` of the five modules that have one is proved
(`TypeCorrect`).

Bounds of the battle and of the lobby. Two parties are the code's own
`TEAM_COUNT`. Two slots are the smallest number for which order within a party
matters (the order of switches, a cancelled answer that is not the first, the
same reserve chosen twice); a team of four on two slots has two reserves, so
both slots can be replaced, and its opponent with two has none, so that a faint
leaves a slot empty for good. Teams only shrink, so these sizes pass through
every smaller case. Answers are one move and a switch to every member of the
team; all moves are alike to the protocol. In `BattleLocks` two players are all
there are, each may deliver any number of turns and leave once; one spectator is
enough to hold the channel mutex against anyone. In `BattleTimer` a round asks
each player at most two questions; time is bounded by `MaxLag` = 1: no tick is
more than a second late, none is interrupted for longer, and none that could
give time back goes on while a player has more than his pool. Within that, a
second can be charged twice or not at all at every point of a round. With no
period agreed the code still grants one (it compares before it decrements), so
the run has the passage from the pool to a period too. In `Lobby` each
connection is made once, and `Written` bounds to one the connections to which
anything is written: a failed write concerns one client, and the other still has
two threads that may remove him. That a client has been silent for two minutes
is left to chance. Two users suffice for a match and for one to lose the entry
of the other. In `Challenges` one client makes two challenges to a user who has
two connections, one after the other (`MayOffer`): the second challenge is what
an answer to the first may meet, and the second connection is one that was never
told. `CHECK_DEADLOCK FALSE` because a battle that ended stops, and elsewhere
because threads, connections, messages and launches finish.

Bounds of `server`. *Channels*: an operator who cannot be kicked and a user, who
may be removed by two threads; the operator logs in late. `Modes` are one of a
user and one of the channel. *Accounts*: two connections of one user who is not
registered, one of which may be removed at any step, and one of another; they ask
for any name, before and after logging in, as often as they like (part `names`), or
(`LogInAndPlay`, part `ladder`) each asks for his own until he is logged in and
nobody logs in while there are battles: two rated battles, so that one user can
end two at once. *Contexts*: two workers, the battle and
the remover of roots, four contexts and one object, which is enough for one
holder against one collector. *Wire*: `MaxByte` = 3 stands for 255, so that lists
of four are cut; two messages at most are under way, of one thread or of two.
*Rooms*: two battles, of two users paired by the matchmaker and by a challenge,
one of them a spectator too, one kicked; three battles were checked alone (2.1
million states). *Metagames*: two generations, three metagames, four teams; one
battle is followed, and a client is in one queue. *Daemon*: two launches, one
killer, one death; three launches were checked alone (406 thousand states).
`SYMMETRY` permutes battles and workers, which nothing names; the run has no
liveness property.

Bounds of `rules`. *Effects*: a Pokemon with a reserve against one, health of 2,
two turns, seven moves that between them damage, poison, drag out, replace
abilities and faint their user, pairs of abilities that answer each other, a
Sticky Barb and a berry. *TurnOrder*: four turns, two speeds and priorities,
every outcome of every coin. *Mechanics*: levels, bases and stages at their ends
and around the values where roundings differ; ranges of 32 bits are not reached
(see below). *Teams*: every single Pokemon with up to three moves or with
extreme levels and hidden statistics, and up to three of five. *Choices*: a
Pokemon with Pressure and a rampage, with PP of 2, against one with a Choice
item, a move to recharge from and one that disables, whose reserve has a move of
two turns: a turn may find nobody to hit, and yet a rampage goes on. `no_answer`
is doubles: a Choice item and a move for an ally.
*Modifiers*: one
against one with a reserve, or against two; `Duration` 2 for five turns,
`MaxDeeds` 2 effects made.
*TeamFiles*: four Pokemon that between them have no item and no move, one
move twice, a move, an item, a name and a nature in common, and an item with the
name of a move; two Pokemon of a file are enough for one to refer to what the
other has. Equal strings and moves are one object in half of the files. Two
loads, because the numbers begin again with each file and the team does not.

### What the violations show

* `join_deadlock`: `terminate` locks both mutexes "simultaneously" but runs
  below `executeTurn`, which already holds the battle mutex. A spectator in
  `BattleChannel::join` holds the channel mutex and wants the battle mutex. The
  queue thread and the spectator then wait for each other.
* `lobby_queue`: a client who never logged in is removed. Its `m_id` was never
  set, and equals the id of one who is queued; that entry leaves the list, its
  client stays in the set and is refused when he queues again, until a match or
  his own removal. The same happens with defined values when a user connects again
  after the thread for silent clients removed him: when his old read fails, the
  old connection is removed a second time, with the same id (configure
  `Owner <- SameUser`).
* `no_answer`: a Choice item has locked a Pokemon into a move for its ally, the
  ally has fainted, an enemy's ability forbids switching or nobody is left. The
  move may be selected, so Struggle is not forced, but no target of it is legal
  (PK:186, BF:288): whatever is answered is refused, and only a timer ends the
  battle.

Where the properties stop. Each of these is a place where the code does
something that a property above had to leave out; the property says so in its
comment or its hypothesis.

* A forfeit while the answer to a suspended turn is on its way ends the battle
  at once, and the field is reset under the turn (NB:854; `faulted` in
  `BattleTurns`). A turn that is still posted when the last reference goes on
  another thread throws from `shared_from_this` before `m_terminated` is looked
  at, although the comment there says that it is ignored.
* With selections, `locks` passes through a forfeit that holds the channel mutex
  while it waits for a turn that wins (NB:854), a notification that wakes another
  forfeiting thread instead of the suspended turn (NB:865), and a clock that runs
  out inside `handleTurn`, which holds the battle mutex twice when the forfeit
  waits (NB:1114). So `calm` asks its questions without selections and timer.
* Bans: one who logs in after `handleBanMessage` did not find him, and joins
  before the ban is stored, stays in the channel (NW:1789, :1836); a ban that is
  stored between the check of `join` and the removal of an expired one is lost
  (CH:364-376). `BannedAreOut` is about those who were online.
* Two operators who set flags of one user at once may commit them in the other
  order (CH:264): what `MembersAgree` says of flags is about one operator, and
  modes that make no other (`OperatesAlone`). A kick that meets a part and a new
  join (NW:1752) leaves a member whose client does not know it: `ListsAgree` is
  about those who cannot be kicked, where no mode takes that protection away
  (`"a"` may be unset).
* A user who connects again between two battles has two mutexes for one rating
  (NW:872): one match can be missing until the next. `EveryMatchCounts` is about
  users with one connection that plays. `registerUser` may make two rows of one
  name.
* An Enigma Berry that answers a lethal blow heals a Pokemon that has no health
  left, which faints a second time (`items.js`:506): `MCRules` has the
  configuration (`Holdings <- Enigma`), `FaintsOnce` fails with it.
* A spectator's snapshot names the statuses that were removed and are still in
  the list (NB:556); `SpectatorSees` allows for more.
* The size that is sent with a refusal of a team is its size before it was cut
  (NW:1260, :1284), so that numbers for a cut team are read with another one.
* Damage: products leave 32 bits above an attack of 84215, which no Pokemon has
  (JM:263), and a move that halves a defence of 1 divides by zero (JM:277).
* A turn that is forced as a move and not as an action deducts PP again
  (BF:1131); what a copied move loses is a TODO there (`T_ALLY` too: BF:1119, a
  move for an ally who is gone is aimed at a random enemy). A rampage without a
  target keeps its effect and loses the forced turn (BF:1119): its user may then
  use a move to recharge from or one of two turns, if he knows one, and when the
  rampage ends, it clears what that move forces him to (`moves.js`:765), so that he is
  asked although he has to rest. `MovesGoOn` is about those who do not know both
  (`Mixes`).
* Two modifiers of one key overwrite each other: which of two different effects
  counts is the order of the lists, and `CountsOnce` is about one effect.
* A move that is null in a team file is left out and its PP ups are not
  (`ObjectTeamFile.cpp`:354), so that the moves after it have the PP ups of their
  neighbours: `ReadsWhatWasWritten` is about teams whose moves come first.
* Health changes of heals are negative, while the comment at NB:1272 gives a
  range from zero.
* A message may name a metagame that does not exist: `operator[]` makes a null
  queue, which the matchmaking thread dereferences (NW:676), and the comparison
  `idx > size` lets one past the end through (NW:2027, ML:86). `crashed` stops
  `Metagames` there.
* A daemon that fails to make its pid file removes that of the one that runs
  (`main.cpp`:278-281, :348): `robbed` in `StartsAsTold`.

### Fairness

`BattleTurns!Fairness`: the queue thread runs (`ThreadedQueue` loops until it is
joined), weakly fair; a forfeit that began goes on, weakly fair; and a player who
is asked keeps answering. The last is strong fairness per position of his turn,
so that cancelling for ever does not count as an excuse; the code has a timer
that makes a player leave who owes an answer for too long.
`BattleLocks!Fairness` is strong fairness of each thread that is inside a
handler: mutexes are given to a waiter eventually, and a thread that is not
blocked goes on. `BattleTimer!Fairness`: time passes, and both threads that tick
go on and get the mutex they wait for, strongly fair; nobody has to answer, and
no turn has to end. That the players are not asked for ever has one exception
that the code allows: with two slots a player may cancel and repeat his first
answer for ever, since each answer refills his period (`RoundEnds` says so).
`Lobby!Fairness`: workers finish what they
handle, a read or write pending on a closed socket fails, and who is silent is
found, strongly fair because he is in the list only between two removals.
Nothing is assumed about starting anything: nobody has to send a
turn, to leave or to join.

The new modules state no fairness: their properties are invariants. What must
eventually happen there (`CollectionsGoOn`, `SomethingIsLegal`) is stated as the
absence of a state in which nobody could make it happen.

## Proofs

| theorem | statement |
|---|---|
| `BattleTurnsProofs!TypeCorrect` | `Spec => []TypeOK` |
| `BattleTurnsProofs!SelectionUsable` | `Spec => []SelectionIsUsable` |
| `BattleTurnsProofs!InvariantHolds` | the inductive invariant of both |
| `BattleLocksProofs!TypeCorrect` | `Spec => []TypeOK` |
| `BattleLocksProofs!LocksAreBalanced` | `Spec => []LocksBalanced` |
| `BattleLocksProofs!OneEnd` | `Spec => []EndsOnce` |
| `BattleLocksProofs!NothingUsedAfterDestruction` | `Spec => []AliveWhileUsed` |
| `BattleLocksProofs!CirclesNeedJoinOrWait` | `Spec => []CirclesAreUnordered` |
| `BattleLocksProofs!NoCircles` | `ASSUME Spectators = {}, ~Selections PROVE Spec => []NoCircularWait` |
| `BattleTimerProofs!TypeCorrect` | `Spec => []TypeOK` |
| `BattleTimerProofs!RunningClocks` | `Spec => []ClockRunsWhileOwed` |
| `BattleTimerProofs!DebtorsExpire` | `Spec => OnlyDebtorsExpire` |
| `LobbyProofs!TypeCorrect` | `Spec => []TypeOK` |
| `LobbyProofs!ConnectedServed` | `Spec => []ConnectedIsServed` |
| `LobbyProofs!QueuesAreSets` | `OneConnection => (Spec => []QueuedOnce)` |
| `ChallengesProofs!TypeCorrect` | `Spec => []TypeOK` |
| `ChallengesProofs!OffersImplemented` | `Spec => ImplementsOffers` |
| `ChallengesProofs!NobodyWaits` | `Spec => []NobodyWaitsInVain` |
| `BattleTurnsProofs!FieldInvariant` | the inductive invariant of the next two |
| `BattleTurnsProofs!ListsFit` | `Spec => []FitsField` |
| `BattleTurnsProofs!SwitchesCarriedOut` | `Spec => []SwitchesFit` |
| `BattleTurnsProofs!Refinement` | `Spec => ImplementsRounds` |
| `ServerProofs!BansHold` | `Spec => []BannedAreOut` |
| `ServerProofs!MembersInvariant` | the inductive invariant of the next |
| `ServerProofs!MembersKnown` | `Spec => []MembersAgree` |
| `ServerProofs!RoomsInvariant` | the inductive invariant of the next |
| `ServerProofs!AgreeAboutRooms` | `RoomsSpec => []RoomsAgree` |
| `ServerProofs!LogsInOnce` | `AccountsSpec => []OnlineOnce` |
| `ServerProofs!UpdatesAreSerial` | `AccountsSpec => []OneUpdateAtOnce` |
| `ServerProofs!AccountsInvariant` | the inductive invariant of the next |
| `ServerProofs!MatchesCount` | `AccountsSpec => []EveryMatchCounts` |
| `ServerProofs!ContextsInvariant` | the inductive invariant of the next two |
| `ServerProofs!SafeRequests` | `ContextsSpec => []RequestsAreSafe` |
| `ServerProofs!CollectionsProceed` | `ContextsSpec => []CollectionsGoOn` |
| `ServerProofs!TellsTheTruth` | `DaemonSpec => []StartsAsTold` |
| `RulesProofs!EffectsTypesHold` | `Spec => []EffectsTypeOK` |
| `RulesProofs!FaintInvariant` | the inductive invariant of the next |
| `RulesProofs!FaintsOnceHolds` | `NoEnigma => (Spec => []FaintsOnce)` |
| `RulesProofs!CallsInvariant` | the inductive invariant of the stack of calls |
| `RulesProofs!MemoryOnFieldHolds` | `Spec => []MemoryOnField` |
| `RulesProofs!BooksInvariant` | the inductive invariant of the next three |
| `RulesProofs!AbilityAgreesHolds` | `Spec => []AbilityAgrees` |
| `RulesProofs!ItemsKeptHolds` | `Spec => []ItemsKept` |
| `RulesProofs!BooksAgreeHolds` | `Spec => []BooksAgree` |
| `RulesProofs!WatchedIsBattle` | `WatchSpec => Spec` |
| `RulesProofs!SpectatorSeesHolds` | `WatchSpec => []SpectatorSees` |
| `RulesProofs!SortInvariant` | the inductive invariant of the next |
| `RulesProofs!SortsInOrderHolds` | `OrderSpec => []SortsInOrder` |
| `ChoicesProofs!ChoiceTypesInvariant` | `ChoicesSpec => []ChoiceTypes` |
| `ChoicesProofs!SomeAnswerIsLegal` | `ASSUME NobodyNeedsAnAlly PROVE ChoicesSpec => []SomethingIsLegal` |
| `ChoicesProofs!MovesGoOnHolds` | `ChoicesSpec => []MovesGoOn` |
| `ChoicesProofs!FieldEffectsInvariant` | the inductive invariant of the next |
| `ChoicesProofs!OneOfManyHolds` | `ModifiersSpec => []OneOfMany` |
| `ServerProofs!GamesInvariant` | the inductive invariant of the next |
| `ServerProofs!PlayedAsAgreedHolds` | `MetagamesSpec => []PlayedAsAgreed` |

Assumptions. `SizesAssumption`: at least one slot, non-empty teams, two parties.
`FlagsAssumption`: `Selections` and `Timed` are Booleans. Nothing is assumed
about the number of players and spectators of `BattleLocks`, not even that it is
finite. `TimerAssumption` is what the server accepts as timer options (a period
must have a length only if there are periods) and a positive `MaxLag`.
`LobbyAssumption`: the limit is a natural number, and only connections are
written to. `ChallengesAssumption`: every connection has an owner, a bound on
its challenges, and `None` is not a challenge. `ChannelsAssumption` and
`DaemonAssumption` only keep distinguished values apart from the sets and say
which clients and modes there are; nothing is assumed of the number of clients,
flags or launches. `AccountsAssumption` adds that connections and names are
finitely many, since there is an id for each row of the table.
`RoomsAssumption`: whose thread begins which fights, and that the identifiers of
the database's channels are below a bound. `ContextsAssumption`: distinguished
threads, and at least one context. `EffectsAssumption`: two parties, a leader of
each, abilities, items and moves of those that are modelled, and health; `None`
is none of them; finitely many Pokemon, of any number, and any number of turns. `NoEnigma`: nobody holds an Enigma Berry, with
which `FaintsOnce` does not hold. `TurnOrderAssumption`: a party has at least
one slot; speeds are natural numbers and priorities integers, of which there may
be any number. `ChoicesAssumption`: everybody has a side and knows a move, every
move has a point, and each side begins with somebody on the field; any number of
slots and Pokemon. `NobodyNeedsAnAlly`: singles, or nobody knows a move for an
ally, without which `no_answer` shows that nothing may be legal.
`ModifiersAssumption`: everybody has a side and a list of what is his own, a
lineup puts a Pokemon in at most one slot, of its side, and an effect lasts at
least a turn; any number of slots, Pokemon and effects.
`MetagamesAssumption`: the file is a sequence of sequences, a team
is not empty, and a challenge is what `handleOutgoingChallenge` can have read:
clauses and a timer only if it names no metagame, and not the clause one past the
end of the list, which the code does not refuse (what it would read is
undefined). Nothing is assumed of what a metagame bans or which teams a clause
refuses. `NoCircles` assumes that nobody joins to watch
and that no move asks for a Pokemon: the findings show a circle otherwise.

The argument for `BattleTurns`. A type invariant alone is not inductive: the
answer in `HandleTurn` is stored for the Pokemon in a requested slot, so a
request must name a slot that is not empty; and `SelectionIsUsable` is kept by a
step only because nobody else is asked while a turn is suspended. The invariant
adds what makes both true: at most one turn is posted and nobody is asked while
one is posted or runs; while a turn is suspended exactly one request is open, of
the player it asked; the slots of the requests are in the field. Lemmas about
`InSlotOrder` (a set of slots in increasing order is a sequence of its elements)
come from the library's theorems on finite sets.

The argument for `FitsField` and `SwitchesFit` (`FieldInv`). `StageInv` says of
each stage what may be asked; `ListsInv` says of the requests, of the answers
and of the batch that is posted that they are for the Pokemon in the field, in
order of the slots, and `BatchInv`, `SwitchTargetsFree` that the switches among
them name different Pokemon of the bench; `OneSlotEach` that who is in one slot
is in no other. Each is disturbed by the steps that move Pokemon, and a step
moves them only in a stage in which nothing is collected: `NothingCollected` and
`ReplaceKeeps` are the lemmas for that. Pairing by position (`processTurn` looks
at the i-th turn and the i-th Pokemon of the field) needs that the sequence of
slots of both parties is the concatenation of the two.

The argument for the refinement of `TurnRounds` (`RInv`). The questions of a
round are the requests of both parties, answered are the first `Len(turns[p])`
of them. That a new round is never empty needs that somebody in the field is
alive (`AliveInv`, `SlotsInv`: determineVictory looks at both teams after every
action, and the first slot is never empty); that nobody is asked after the end
needs `DecidedInv`. `NextRound` then has one step per action: an answer is
`Answer`, the last one posts the turn, cancelling takes back the last answer of
the party, a suspended turn adds one question, and the rest are steps of the
turn or stutter.

The argument for `BattleLocks`. `LocksBalanced` compares the depth of a mutex
with where its owner is; to be inductive it is stated per thread and mutex
(`DepthInv`), with `PlaceInv` (which places a role can be in) to rule out what
another role does there. `EndsOnce` and "the battle does not end under one who
owns a mutex `terminate` needs" follow from mutual exclusion (`EndInv`, lemma
`BothFree`). `RefInv` says who has a reference where, and that whoever destroys
the battle is alone in it. Each action has a lemma; the four that only move one
thread share `StepInv` and `QuietInv`. Of circles of waiting threads: who owns
the channel's mutex owns the battle's too, unless it joins or waits in
`handleForfeit` (`LockOrder`), so that no circle is without such a thread,
whatever the players do (`CirclesNeedJoinOrWait`); and without spectators and
selections there is none (`Unasked`).

The argument for `BattleTimer`. `ClockRunsWhileOwed` says nothing while an
answer is handled, so the invariant (`ClockInv`) says it of the other player,
that nothing is owed while a turn runs, and that a worker is in `tick` only while
the players are asked. `OnlyDebtorsExpire` follows step by step: only `Charge`
finds a clock to have run out, only one that is not stopped, and the invariant
says who can own that.

The argument for `Lobby`. `ListInv` says of each connection that whoever is
about to take it off the list has closed its socket, and that none of its
threads runs before it was accepted; a step of one connection disturbs only that
one (`OnlyOne`). `QueuesAreSets` needs that a user has one connection: then the
first entry with a client's id is his own (`LeavesOnce`), and a shuffled list
without duplicates gives pairs of two (`Matching`). Without that assumption two
connections of a user can log in before either is in the list, and `QueuedOnce`
does not hold.

The argument for `Challenges`. What is in a book is the last challenge made to
that user and has not ended (`BookInv`), so that whatever takes it out ends it
for the first time (lemma `Ending`); nothing is known of a challenge that was
not made; and who accepts holds one that was, so that the team he puts there is
its own (`TeamInv`, `WorkInv`). With that every step of a handler changes the
status of one challenge as `Offers` allows, or of none. `NobodyWaitsInVain` is
carried by `HearInv`: a challenge somebody was told of and that has not ended is
still in the book of its maker, whose reader has not yet gone through
`disconnect`; `HereInv` (a user is found as one client) makes the one who is told
of a withdrawal the one who was told of the challenge.

The argument for `Channels`. `BanInv` adds to `BannedAreOut` the one who is just
entering: from the check of bans to his entry the channel's mutex is his, so
that whoever bans him meanwhile is still about to make him leave when he is in;
and whoever was not found online when he was banned is not, unless he logs in
late.

`MembersAgree` is two facts. For the lists (`Undisturbed`): a protected client is
taken out of the channel by its own worker or by the sweeper only, and whoever
disconnects it keeps its mutex until its list is clear (`CrewInv`); so at each
place where one of the two threads stands it is known whether the client is
inside and listed. That needs that the flag `protected` of the registry and of the
channel stay what they were (`KeptFlag`), in every copy that a thread has read
and will write. For the flags (`Registered`): the one operator writes them in the
channel and then in the registry, and is a reader of the channel's mutex
meanwhile; whoever is about to enter has the upgrade lock of that mutex, and has
read the registry.

The argument for `Rooms`. Identifiers that are in use and those given back are
different, below the counter and none of the database's (`IdsInv`); what is
referred to exists (`ExistInv`); the thread that begins a battle is alone with it
until both players are in (`BeginInv`, `BegunOnce`, `NewlyKnown`); and whoever
leaves last is on his way to count who is left (`PublicAttended`, with `NewKept`:
nobody counts a room that is just begun).

The argument for `Accounts`. `OnlineOnce` says that of two connections that are
logged in under one name, one has taken a name since it logged in. It is inductive,
since `authenticateClient` looks again under the mutex of the list, nobody is put
back into it, and whoever takes a name is not logged in or is from then on among
those who did. Without that condition it does not hold, as TLC shows when it is left out: a client
who is logged in asks for the challenge of another user, `getClient` does not find
that user, he logs in, and only then `m_name` is set. The client needs no
password for it; his id stays his own, and so do his matches (`LoginInv`), but
by then his own name is free, and a second connection of his may log in with
the same id, which is one way to break the condition of `EveryMatchCounts`. Whoever
reads matches or writes a rating has the mutex of the connection (`RatingInv`).
`EveryMatchCounts` rests on `Accounted`: a match of a user is in his rating, or
its battle still owes it to him; and it is in what an update has read, or another
battle than the one that updates owes it. That this is kept needs that a user is
known by the first row of his name although rows may be doubled (`UsersInv`,
with lemma `FirstRow`, by well-founded induction on the least row), that each
battle is posted once with the ids of its players (`BattlesInv`, `MatchesInv`),
and that ratings come from the table (`ResultsInv`).

The argument for `Contexts`. Where a thread is says which context it has
(`PlacesInv`); the contexts of threads alone, of the battle and of its end are
different and busy (`PoolInv`); the owner of a context has it set to itself and
the requests open in it are its own (`RequestsInv`); a value is rooted or of a
request that goes on, and a root to be removed is nobody's and queued once
(`HeapInv`). Both properties are consequences.

The argument for `Daemon`. Three invariants: what was sent through the pipe and
whom the file names (`FileInv`), that only the one that listens looks for the
main channel and makes it (`MainInv`), and that who was killed was alive and does
not live again (`KillInv`).

The argument for `Effects`. That a list of effects stays one through
`removeStatuses` and through leaving the field is about folds: `FoldExists` shows
that what is kept by every step is kept by the fold over a set of indices, by
taking a least set for which it is not (no induction over data is needed, since
the fold takes the greatest index of the set last). `FaintInv` is about the stack
of calls. `setHp` tells the listeners of a blow before it looks whether there is
health left, so that others may be hurt, and faint, before the call that makes
the first one faint is reached. The invariant says what a call relies on when it
is made at last (`Sound`: who is about to faint has not fainted, who strikes back
does so at the user of the move that is executed), and which call may be made
before which (`InOrder`: while a fatal call waits, only the user of the move is
hurt, and it is not his). With that a
Pokemon without health has fainted or has a fatal call on the stack
(`OnlyTheDoomedFall`), and is announced once (`ToldWhenFainted`). `Over` carries
the stack through a step: what a call is replaced by is in order with what waits
behind it, one call at a time (`Grow`, `GrowMild`).

The argument for `BooksAgree` has three invariants. `CallsInv` says in which
order calls wait behind each other (`Follows`: who is to enter the field waits
for one who leaves, an item is given after it was taken, listeners come before
what they listened to) and that whom a call is about is on the field. `MemInv`
says of what is remembered that it is there; in the middle of a switch who is to
be replaced is forgotten, has fainted or is about to leave. `BooksInv` says of
each list of effects that an identity stands for one kind, that there is one
living ability in it, the one the Pokemon points to, with another identity than
its item's (`Sane`), and that there is a barb for each holder of one, except
between the call that takes it and the call that gives it on (`BarbsCounted`).
The lemmas about `Replaced` (`ReplacedFree`, `ReplacedBlocked`) say what one
replacement does to a list; those about leaving the field, what the fold over
the copied list keeps of it.

The argument for `Spectators` (`WatchInv`). Who is on the field was revealed, and
who was not revealed has never been touched (`Untouched`), so that a snapshot
taken between two calls leaves nothing out. Each call tells what it changes:
`HealthTold`, `FaintTold`, `EntryTold` and `ChangeTold` take the calls that have
a message, `RestTold` those that have none because they change nothing a
spectator sees. A status may be gone before it is told (`KnowsOf`): of those who
have not fainted he knows every status they have.

The argument for `TurnOrder` (`SortInv`). The comparator is no strict weak
order: an answer for a tie is a coin, remembered per ordered pair and per copy of
the comparator. The rank that the coins do not touch is one (`RanksAgree`,
`NotBeforeTransitive`: numbers are compared one after the other), and no answer
contradicts it (`YesIsInOrder`, `NoIsInOrder`): whoever is put before another is
not preceded by him. So what has been gone through is in order, but for the
place that is free, and everybody from that place on is preceded by the one who
is inserted or tied with him. That the search stops before the beginning of the
vector is another matter: the search has a copy of the map that was made after
the comparison with the first element, so that it has that answer, certain or
flipped, and gives it again whatever else is added to it (`NoIsRefused`,
`RefusalIsKept`). Nobody is lost because the vector without the free place,
together with the one who is inserted, is what there was.

The argument for `Choices`. `SomethingIsLegal` is decided where nobody looks for
it: that there is an enemy to aim at (`EachStands`) since the victory is
determined before the fainted are replaced, and whoever can be is replaced before
anybody is asked; and that whoever has nothing legal was forced when he was first
asked, which is still so when the last one answers (`AskedCan`). `MovesGoOn` is
two invariants. `BindInv`: between two executions of a Pokemon an effect of rest
or of charge has one turn left, which is forced; within one (`Busy`) what has
just begun counts from two, so that the end of the execution that began it leaves
it one, and a rampage that ends takes only what it has forced. `PaidInv`: the
answer that chose a move freely is kept in the order, then in the execution, and
then it is paid (`Owed`); whatever replaces the order, stops the move or ends the
turn forgets it unpaid, and the answer of whoever is forced is always replaced.

The argument for `Modifiers` (`FieldInv`). The state of the field is a world
(`Worlds`: the objects, the lists that name them, who is on the field), and what
the code's calls do to one is a lemma on worlds before it is one on a step:
`MadeAnew` (objects change, but nothing of a kind appears), `CalledUp` (a new one
where there was none), `EnteredKeeps`, `DepartedKeeps`. A world is `Sound` if
what is in force is in the list of everybody on the field whom it concerns and
in no list of who may come in (`Listed`, `Unlisted`), if there is one of a kind
(`OneOfAKind`) and if its flag is set (`Shown`): a weather is called up only
where its flag is not, so that the last two need each other. Who comes in is
given all that is in force, and who leaves takes none of it along, for which it
matters that a list is a list without duplicates. That effects last their turns
is an equation between the turns that are left and those gone by (`Rested`);
within `tickEffects` it depends on who has been ticked yet (`Tallied`), and who
faints there leaves the list that the loop walks. The modifiers are folds over
the lists of those on the field: each one asked adds what it has to say and
takes nothing away (`Adds`), because two effects with one key are one effect
(`KeyOf` is injective where both are asked about the same thing); so what is
said is in the answer, and once (`AllCount`).

The argument for `Metagames` (`GamesInv`). A battle remembers its metagame by two
numbers, in `LadderOf` and in the rules of a queue, and its players were told of
a metagame by its place in the list. So the invariant says that the metagame at
a place has the numbers of that place, which reading gives it and the bans do not
change (`ReadNumbers`, `BansChangeNoNumber`); that the list and the names of the
clauses are those of the file; that whoever waits in a queue has a team that the
metagame takes and is in its ladder if the queue is rated (`Waits`); and that the
team a challenge was accepted with is one that its terms allow, when it is cut to
their length (`Agreeable`, `CutFits`). What `FetchClauses`, `GetMetagameBans` and
`TimerFor` make of the terms is what the players can read from the list that they
were sent (`TermsComeTo`).

What the proofs found. Each of these was a model that TLC checks and a prover
does not: `CASE` with overlapping guards in `Phase`, in `OnDamage` and in
`Compare` (any true branch may be chosen; now `IF`), and a precedence in `TurnRounds!Init` (of
`SUBSET` and `\`, by which a round could have been empty). And preconditions
were too weak for instances that no run has. Two of `MembersAgree`: with the mode
`"a"`, which `setMode` takes away again, the protection of a client and the
operator may be gone. Two of `MovesGoOn`: one who knows a rampage and another move
that binds (see above), and an ally with Pressure, who costs points as an enemy
does. Before `BindInv` could be kept, `Choices` also had to end a turn with the
victory as `processTurn` does, and not only at its end.

What is only model-checked, and why:

* Liveness and what needs `ENABLED`: `EveryRoundIsPlayed` and the other
  properties under fairness.
* What folds and recursion compute, which needs induction over data:
  `AdvantagesHelp` (products and quotients of rationals), `RefusalsNameTheFault`.
* `MessagesHold` and `ReadsWhatWasWritten`: their modules have `RECURSIVE`
  operators, with which the provers cannot work.
* `NoCircularWait` with spectators or selections does not hold, as the findings
  say; `NoCircles` is about the rest.

## Not modelled, and what is left

Left for later, in this order:

1. Global and IP bans, personal messages, and
   challenges with names spelled in two ways (the book is keyed by what was
   typed, `getClient` ignores case).
2. Doubles in `Effects` and the effects of a whole party; more of the scripts of
   single moves, abilities and items, which repeat the kinds that are there.
3. The queue thread of the registry (its tasks are modelled where they act).

Left out for good: wording, text and logs, option parsing, XML,
the vendored hash and cipher code, build files; the formulas of glicko2, which
are real-valued (and iterate until they converge, without a bound). Of the
destructor of the server (`Server::~Server` deletes what its threads may still
use, and `handleSignal` takes locks in a signal handler) `Daemon` only has that a
signalled process may die. The script engine, libdaemon, the database and the
sockets are external: they are modelled by what the code relies on.
