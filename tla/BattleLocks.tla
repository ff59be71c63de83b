---------------------------- MODULE BattleLocks ----------------------------
(***************************************************************************)
(* The threads and mutexes of one running battle (src/network/             *)
(* NetworkBattle and Channel): the queue thread that executes its turns,   *)
(* the server's worker threads that deliver a player's turn, let a player  *)
(* leave (his own message, an error on his socket, or the battle's timer)  *)
(* and let a spectator join, and the destruction of the battle by whoever  *)
(* drops the last reference to it.                                         *)
(*                                                                         *)
(* What a turn is made of is the subject of module BattleTurns; here it is *)
(* a stretch of time during which the queue thread owns the battle mutex,  *)
(* except while it waits for the choice of an inactive Pokemon.  A stretch *)
(* that takes no other lock, and gives back what it took, is one step.     *)
(* Locks that are held only for such a stretch, by code that takes no      *)
(* other (the client's battle list, the shared side of the channel's       *)
(* membership mutex), cannot block anyone and are left out.                *)
(*                                                                         *)
(* Definitions named Mutant... are wrong versions of the one that follows; *)
(* they are not used: they are there to see the properties fail.           *)
(***************************************************************************)
EXTENDS Naturals, FiniteSets

CONSTANTS
    Players,     \* the players who send turns or leave
    Spectators,  \* the clients who join to watch
    Selections,  \* whether moves ask for an inactive Pokemon
    Timed        \* whether the battle has a timer

ASSUME FlagsAssumption == Selections \in BOOLEAN /\ Timed \in BOOLEAN

Queue == [role |-> "queue", who |-> 0]
Answerer(p) == [role |-> "answer", who |-> p]
Leaver(p) == [role |-> "leave", who |-> p]
Joiner(s) == [role |-> "join", who |-> s]

Answerers == {Answerer(p) : p \in Players}
Leavers == {Leaver(p) : p \in Players}
Joiners == {Joiner(s) : s \in Spectators}
Thread == {Queue} \cup Answerers \cup Leavers \cup Joiners

Nobody == [role |-> "nobody", who |-> 0]
Clients == [role |-> "clients", who |-> 0]  \* the battle lists of the clients

Lock == {"channel",   \* BattleChannel's mutex
         "battle",    \* NetworkBattleImpl's mutex
         "members"}   \* Channel's mutex, taken to change the membership

VARIABLES
    pc,          \* where each thread is
    held,        \* held[l]: who owns recursive mutex l, and how often
    sleepers,    \* the threads waiting for m_condition to be notified
    members,     \* the players who are in the channel
    waiting,     \* m_waiting
    selection,   \* m_selection: "none", "asked" or "chosen"
    victory,     \* m_victory
    terminated,  \* m_terminated, and m_field = NULL in the channel
    asked,       \* the players are being asked for a turn
    posted,      \* turns posted to the queue thread
    refs,        \* who holds a reference to the battle
    destroyed    \* ~NetworkBattleImpl has run

vars == <<pc, held, sleepers, members, waiting, selection, victory,
          terminated, asked, posted, refs, destroyed>>

-----------------------------------------------------------------------------
(* Recursive mutexes and the condition variable.                           *)

Free(l, t) == held[l].by \in {Nobody, t}
Owns(l, t) == held[l].by = t

Taken(h, l, t) == [h EXCEPT ![l] = [by |-> t, depth |-> @.depth + 1]]
Dropped(h, l) ==
    [h EXCEPT ![l] = IF @.depth = 1 THEN [by |-> Nobody, depth |-> 0]
                                    ELSE [by |-> @.by, depth |-> @.depth - 1]]

NotifyOne(S) == IF S = {} THEN {S} ELSE {S \ {t} : t \in S}
Awake(t) == t \notin sleepers /\ Free("battle", t)

Go(t, from, to) == pc[t] = from /\ pc' = [pc EXCEPT ![t] = to]

-----------------------------------------------------------------------------
(* References: the last one destroys the battle.                           *)

(* Dropping p at the end of executeTurn, handleBattleAction or handlePart. *)
Release(t) ==
    /\ pc[t] = "release"
    /\ refs' = refs \ {t}
    /\ pc' = [pc EXCEPT ![t] =
                IF refs' = {} THEN "destroy"
                ELSE IF t \in Leavers THEN "done" ELSE "idle"]
    /\ UNCHANGED <<held, sleepers, members, waiting, selection, victory,
                   terminated, asked, posted, destroyed>>

(* ~NetworkBattleImpl: joins the queue thread, unless it runs on it.       *)
Destroy(t) ==
    /\ Go(t, "destroy", "done")
    /\ t # Queue => pc[Queue] = "idle" /\ posted = 0
    /\ destroyed' = TRUE
    /\ UNCHANGED <<held, sleepers, members, waiting, selection, victory,
                   terminated, asked, posted, refs>>

(* The battle stays in the lists of its players.                           *)
MutantTerminate(t) ==
    /\ Go(t, "victory", "unwind")
    /\ Free("channel", t)
    /\ Free("battle", t)
    /\ terminated' = TRUE
    /\ UNCHANGED <<held, sleepers, members, waiting, selection, victory,
                   asked, posted, refs, destroyed>>

(* NetworkBattle::terminate, called by informVictory: boost::lock takes    *)
(* both mutexes or neither.                                                *)
Terminate(t) ==
    /\ Go(t, "victory", "unwind")
    /\ Free("channel", t)
    /\ Free("battle", t)
    /\ terminated' = TRUE
    /\ refs' = refs \ {Clients}
    /\ UNCHANGED <<held, sleepers, members, waiting, selection, victory,
                   asked, posted, destroyed>>

-----------------------------------------------------------------------------
(* The queue thread: NetworkBattleImpl::executeTurn.                       *)

(* shared_from_this throws when no reference is left.                      *)
StartTurn ==
    /\ posted > 0
    /\ posted' = posted - 1
    /\ \/ /\ refs # {}
          /\ Go(Queue, "idle", "entered")
          /\ refs' = refs \cup {Queue}
       \/ /\ refs = {}
          /\ Go(Queue, "idle", "thrown")
          /\ UNCHANGED refs
    /\ UNCHANGED <<held, sleepers, members, waiting, selection, victory,
                   terminated, asked, destroyed>>

LockTurn ==
    /\ Free("battle", Queue)
    /\ \/ /\ ~terminated
          /\ Go(Queue, "entered", "turn")
          /\ held' = Taken(held, "battle", Queue)
       \/ /\ terminated
          /\ Go(Queue, "entered", "release")
          /\ UNCHANGED held
    /\ UNCHANGED <<sleepers, members, waiting, selection, victory,
                   terminated, asked, posted, refs, destroyed>>

(* requestInactivePokemon, up to the wait.                                 *)
AskSelection ==
    /\ Selections
    /\ Go(Queue, "turn", "select")
    /\ waiting' = TRUE
    /\ selection' = "asked"
    /\ held' = Dropped(held, "battle")
    /\ sleepers' = sleepers \cup {Queue}
    /\ UNCHANGED <<members, victory, terminated, asked, posted, refs,
                   destroyed>>

(* requestInactivePokemon, from the wait on.                               *)
Resume ==
    /\ pc[Queue] = "select"
    /\ Awake(Queue)
    /\ \/ /\ waiting
          /\ sleepers' = sleepers \cup {Queue}
          /\ UNCHANGED <<pc, held, selection>>
       \/ /\ ~waiting
          /\ pc' = [pc EXCEPT ![Queue] =
                        IF terminated THEN "faulted" ELSE "turn"]
          /\ held' = Taken(held, "battle", Queue)
          /\ selection' = "none"
          /\ sleepers' \in NotifyOne(sleepers)
    /\ UNCHANGED <<members, waiting, victory, terminated, asked, posted, refs,
                   destroyed>>

(* The turn decides the battle: determineVictory, informVictory.           *)
Win ==
    /\ Go(Queue, "turn", "victory")
    /\ victory' = TRUE
    /\ UNCHANGED <<held, sleepers, members, waiting, selection, terminated,
                   asked, posted, refs, destroyed>>

(* The battle mutex is kept between the turns.                             *)
EndTurn ==
    /\ Go(Queue, "turn", "release")
    /\ asked' = ~victory
    /\ held' = Dropped(held, "battle")
    /\ UNCHANGED <<sleepers, members, waiting, selection, victory,
                   terminated, posted, refs, destroyed>>

EndBattle ==
    /\ Go(Queue, "unwind", "release")
    /\ held' = Dropped(held, "battle")
    /\ UNCHANGED <<sleepers, members, waiting, selection, victory,
                   terminated, asked, posted, refs, destroyed>>

-----------------------------------------------------------------------------
(* A worker thread with a turn: ClientImpl::handleBattleAction.            *)

GetBattle(t) ==
    /\ Clients \in refs
    /\ Go(t, "idle", "handleTurn")
    /\ refs' = refs \cup {t}
    /\ UNCHANGED <<held, sleepers, members, waiting, selection, victory,
                   terminated, asked, posted, destroyed>>

(* handleTurn refuses the turn, or keeps it until the others are in.       *)
TurnIgnored(t) ==
    /\ Go(t, "handleTurn", "release")
    /\ Free("battle", t)
    /\ UNCHANGED <<held, sleepers, members, waiting, selection, victory,
                   terminated, asked, posted, refs, destroyed>>

(* handleTurn completes the round: maybeExecuteTurn.                       *)
TurnPosted(t) ==
    /\ Go(t, "handleTurn", "release")
    /\ Free("battle", t)
    /\ ~terminated
    /\ asked
    /\ asked' = FALSE
    /\ posted' = posted + 1
    /\ UNCHANGED <<held, sleepers, members, waiting, selection, victory,
                   terminated, refs, destroyed>>

(* handleTurn answers a suspended turn; it unlocks before it notifies.     *)
TurnSelects(t) ==
    /\ Go(t, "handleTurn", "notify")
    /\ Free("battle", t)
    /\ ~terminated
    /\ waiting
    /\ waiting' = FALSE
    /\ selection' = "chosen"
    /\ UNCHANGED <<held, sleepers, members, victory, terminated, asked,
                   posted, refs, destroyed>>

Notify(t) ==
    /\ Go(t, "notify", "release")
    /\ sleepers' \in NotifyOne(sleepers)
    /\ UNCHANGED <<held, members, waiting, selection, victory, terminated,
                   asked, posted, refs, destroyed>>

(* handleTurn's stopTimer finds that a player's time is over:              *)
(* Timer::tick and timeExpired, with the battle mutex held.                *)
TurnExpires(t) ==
    /\ Timed
    /\ Go(t, "handleTurn", "part")
    /\ Free("battle", t)
    /\ ~terminated
    /\ asked \/ waiting
    /\ held' = Taken(held, "battle", t)
    /\ UNCHANGED <<sleepers, members, waiting, selection, victory,
                   terminated, asked, posted, refs, destroyed>>

-----------------------------------------------------------------------------
(* A player leaves the channel: Channel::part and BattleChannel's          *)
(* handlePart, on a thread of its own or below handleTurn.                 *)

BeginLeave(t) ==
    /\ Go(t, "idle", "part")
    /\ UNCHANGED <<held, sleepers, members, waiting, selection, victory,
                   terminated, asked, posted, refs, destroyed>>

(* What the caller still holds is given back when part returns.            *)
Below(t, h) == IF t \in Answerers THEN Dropped(h, "battle") ELSE h

Part(t, p) ==
    /\ Free("members", t)
    /\ t \in Leavers => t.who = p
    /\ \/ /\ p \in members
          /\ Go(t, "part", "handlePart")
          /\ members' = members \ {p}
          /\ UNCHANGED held
       \/ /\ p \notin members
          /\ Go(t, "part", IF t \in Leavers THEN "done" ELSE "release")
          /\ held' = Below(t, held)
          /\ UNCHANGED members
    /\ UNCHANGED <<sleepers, waiting, selection, victory, terminated, asked,
                   posted, refs, destroyed>>

(* The channel mutex of the first block is kept for the second.            *)
MutantHandlePart(t) ==
    /\ Free("channel", t)
    /\ \/ /\ ~terminated
          /\ Go(t, "handlePart", "lockBoth")
          /\ refs' = refs \cup {t}
          /\ held' = Taken(held, "channel", t)
       \/ /\ terminated
          /\ Go(t, "handlePart", IF t \in Leavers THEN "done" ELSE "release")
          /\ held' = Below(t, held)
          /\ UNCHANGED refs
    /\ UNCHANGED <<sleepers, members, waiting, selection, victory, terminated,
                   asked, posted, destroyed>>

(* The first block of handlePart: is the battle still there?               *)
HandlePart(t) ==
    /\ Free("channel", t)
    /\ \/ /\ ~terminated
          /\ Go(t, "handlePart", "lockBoth")
          /\ refs' = refs \cup {t}
          /\ UNCHANGED held
       \/ /\ terminated
          /\ Go(t, "handlePart", IF t \in Leavers THEN "done" ELSE "release")
          /\ held' = Below(t, held)
          /\ UNCHANGED refs
    /\ UNCHANGED <<sleepers, members, waiting, selection, victory,
                   terminated, asked, posted, destroyed>>

(* The second block does not look whether the battle ended meanwhile.      *)
MutantLockBoth(t) ==
    /\ Free("channel", t)
    /\ Free("battle", t)
    /\ Go(t, "lockBoth", "forfeit")
    /\ held' = Taken(Taken(held, "channel", t), "battle", t)
    /\ victory' = TRUE
    /\ UNCHANGED <<sleepers, members, waiting, selection, terminated, asked,
                   posted, refs, destroyed>>

(* It does look, but returns without unlocking.                            *)
MutantLockBothLeaks(t) ==
    /\ Free("channel", t)
    /\ Free("battle", t)
    /\ Go(t, "lockBoth", IF terminated THEN "release" ELSE "forfeit")
    /\ held' = Taken(Taken(held, "channel", t), "battle", t)
    /\ victory' = TRUE
    /\ UNCHANGED <<sleepers, members, waiting, selection, terminated, asked,
                   posted, refs, destroyed>>

(* The rest of handlePart, up to the loop of handleForfeit.                *)
LockBoth(t) ==
    /\ Free("channel", t)
    /\ Free("battle", t)
    /\ \/ /\ ~terminated
          /\ Go(t, "lockBoth", "forfeit")
          /\ held' = Taken(Taken(held, "channel", t), "battle", t)
          /\ victory' = TRUE
       \/ /\ terminated
          /\ Go(t, "lockBoth", "release")
          /\ held' = Below(t, held)
          /\ UNCHANGED victory
    /\ UNCHANGED <<sleepers, members, waiting, selection, terminated, asked,
                   posted, refs, destroyed>>

(* handleForfeit picks for a suspended turn and waits for it.              *)
PickForWaiting(t) ==
    /\ Go(t, "forfeit", "forfeitWait")
    /\ waiting
    /\ waiting' = FALSE
    /\ selection' = "chosen"
    /\ held' = Dropped(held, "battle")
    /\ \E S \in NotifyOne(sleepers) : sleepers' = S \cup {t}
    /\ UNCHANGED <<members, victory, terminated, asked, posted, refs,
                   destroyed>>

WakeForfeit(t) ==
    /\ pc[t] = "forfeitWait"
    /\ Awake(t)
    /\ \/ /\ selection # "none" /\ ~waiting
          /\ sleepers' = sleepers \cup {t}
          /\ UNCHANGED <<pc, held>>
       \/ /\ selection = "none" \/ waiting
          /\ Go(t, "forfeitWait", "forfeit")
          /\ held' = Taken(held, "battle", t)
          /\ UNCHANGED sleepers
    /\ UNCHANGED <<members, waiting, selection, victory, terminated, asked,
                   posted, refs, destroyed>>

(* handleForfeit calls informVictory.                                      *)
Concede(t) ==
    /\ Go(t, "forfeit", "victory")
    /\ ~waiting
    /\ UNCHANGED <<held, sleepers, members, waiting, selection, victory,
                   terminated, asked, posted, refs, destroyed>>

(* handleForfeit unlocks the battle, handlePart the channel, handleTurn    *)
(* what it had locked.                                                     *)
Unwind(t) ==
    /\ Go(t, "unwind", "release")
    /\ held' = Below(t, Dropped(Dropped(held, "battle"), "channel"))
    /\ UNCHANGED <<sleepers, members, waiting, selection, victory,
                   terminated, asked, posted, refs, destroyed>>

-----------------------------------------------------------------------------
(* A spectator: BattleChannel::join, which locks the channel, then the     *)
(* membership, then, in handleJoin and again afterwards, the battle.       *)

(* A spectator may join a battle that has ended.                           *)
MutantJoin(t) ==
    /\ Free("channel", t)
    /\ Go(t, "idle", "enter")
    /\ held' = Taken(held, "channel", t)
    /\ UNCHANGED <<sleepers, members, waiting, selection, victory,
                   terminated, asked, posted, refs, destroyed>>

(* Who finds the battle ended leaves again.                                *)
Join(t) ==
    /\ Free("channel", t)
    /\ \/ /\ ~terminated
          /\ Go(t, "idle", "enter")
          /\ held' = Taken(held, "channel", t)
       \/ /\ terminated
          /\ Go(t, "idle", "done")
          /\ UNCHANGED held
    /\ UNCHANGED <<sleepers, members, waiting, selection, victory,
                   terminated, asked, posted, refs, destroyed>>

Enter(t) ==
    /\ Go(t, "enter", "handleJoin")
    /\ Free("members", t)
    /\ held' = Taken(held, "members", t)
    /\ UNCHANGED <<sleepers, members, waiting, selection, victory,
                   terminated, asked, posted, refs, destroyed>>

HandleJoin(t) ==
    /\ Go(t, "handleJoin", "prepare")
    /\ Free("battle", t)
    /\ held' = Dropped(held, "members")
    /\ UNCHANGED <<sleepers, members, waiting, selection, victory,
                   terminated, asked, posted, refs, destroyed>>

PrepareSpectator(t) ==
    /\ Go(t, "prepare", "done")
    /\ Free("battle", t)
    /\ held' = Dropped(held, "channel")
    /\ UNCHANGED <<sleepers, members, waiting, selection, victory,
                   terminated, asked, posted, refs, destroyed>>

-----------------------------------------------------------------------------
(* The battle has begun and the first turn is asked for.                   *)
Init ==
    /\ pc = [t \in Thread |-> "idle"]
    /\ held = [l \in Lock |-> [by |-> Nobody, depth |-> 0]]
    /\ sleepers = {}
    /\ members = Players
    /\ waiting = FALSE
    /\ selection = "none"
    /\ victory = FALSE
    /\ terminated = FALSE
    /\ asked = TRUE
    /\ posted = 0
    /\ refs = {Clients}
    /\ destroyed = FALSE

QueueStep ==
    \/ StartTurn \/ LockTurn \/ AskSelection \/ Resume \/ Win
    \/ EndTurn \/ Terminate(Queue) \/ EndBattle
    \/ Release(Queue) \/ Destroy(Queue)

LeaveStep(t) ==
    \/ \E p \in Players : Part(t, p)
    \/ HandlePart(t) \/ LockBoth(t) \/ PickForWaiting(t) \/ WakeForfeit(t)
    \/ Concede(t) \/ Terminate(t) \/ Unwind(t) \/ Release(t) \/ Destroy(t)

AnswerStep(t) ==
    \/ TurnIgnored(t) \/ TurnPosted(t) \/ TurnSelects(t) \/ TurnExpires(t)
    \/ Notify(t)

JoinStep(t) == Enter(t) \/ HandleJoin(t) \/ PrepareSpectator(t)

Next ==
    \/ QueueStep
    \/ \E t \in Answerers : GetBattle(t) \/ AnswerStep(t)
    \/ \E t \in Leavers : BeginLeave(t)
    \/ \E t \in Answerers \cup Leavers : LeaveStep(t)
    \/ \E t \in Joiners : Join(t) \/ JoinStep(t)

Spec == Init /\ [][Next]_vars

-----------------------------------------------------------------------------
TypeOK ==
    /\ pc \in [Thread -> {"idle", "entered", "turn", "select", "faulted",
                          "thrown", "handleTurn", "notify", "part",
                          "handlePart", "lockBoth", "forfeit", "forfeitWait",
                          "victory", "unwind", "release", "destroy", "enter",
                          "handleJoin", "prepare", "done"}]
    /\ held \in [Lock -> [by : Thread \cup {Nobody}, depth : Nat]]
    /\ sleepers \subseteq Thread
    /\ members \subseteq Players
    /\ waiting \in BOOLEAN
    /\ selection \in {"none", "asked", "chosen"}
    /\ victory \in BOOLEAN
    /\ terminated \in BOOLEAN
    /\ asked \in BOOLEAN
    /\ posted \in Nat
    /\ refs \subseteq Thread \cup {Clients}
    /\ destroyed \in BOOLEAN

(* What a thread owns of the battle mutex, from where it is.               *)
BattleDepth(t) ==
    (IF t \in Answerers /\ pc[t] \in {"part", "handlePart", "lockBoth",
                              "forfeit", "forfeitWait", "victory", "unwind"}
     THEN 1 ELSE 0)
    + (IF \/ pc[t] \in {"forfeit", "victory", "unwind"}
          \/ pc[t] \in {"turn", "faulted"}
       THEN 1 ELSE 0)

(* Every mutex is given back exactly as often as it was taken, whatever    *)
(* the path out of a handler: by the adopted locks of handlePart and       *)
(* handleForfeit, by the wait inside handleForfeit, by terminate.          *)
LocksBalanced ==
    /\ \A t \in Thread :
        /\ BattleDepth(t) = IF Owns("battle", t) THEN held["battle"].depth
                                                 ELSE 0
        /\ Owns("channel", t) <=>
                \/ pc[t] \in {"forfeit", "forfeitWait", "enter", "handleJoin",
                              "prepare"}
                \/ t # Queue /\ pc[t] \in {"victory", "unwind"}
        /\ Owns("members", t) <=> pc[t] = "handleJoin"
    /\ \A l \in Lock : held[l].depth = 0 <=> held[l].by = Nobody

(* A battle ends once, so its result is announced and a rated one counted  *)
(* once: nobody is about to announce an end when it has ended or somebody  *)
(* else is, although the queue thread and both players may try.            *)
EndsOnce ==
    \A t \in Thread : pc[t] = "victory" =>
        /\ ~terminated
        /\ \A u \in Thread : pc[u] = "victory" => u = t

(* Nothing of a battle is used after its destruction: a thread that is in  *)
(* it has a reference, or, as a spectator who joins, the channel mutex     *)
(* that terminate must take before the last reference can go.  Who leaves  *)
(* is in the channel only, which lives on, until handlePart has found the  *)
(* battle there.                                                           *)
AliveWhileUsed ==
    destroyed => \A t \in Thread :
                    \/ pc[t] \in {"idle", "done"}
                    \/ t \in Leavers /\ pc[t] \in {"part", "handlePart"}

(* A thread blocked on a mutex waits for the one that owns it.             *)
Wants(t) ==
    IF t \in sleepers THEN {}
    ELSE CASE pc[t] \in {"lockBoth", "victory"} -> {"channel", "battle"}
           [] pc[t] = "handlePart" -> {"channel"}
           [] pc[t] = "idle" /\ t \in Joiners -> {"channel"}
           [] pc[t] \in {"part", "enter"} -> {"members"}
           [] pc[t] \in {"entered", "handleTurn", "select", "forfeitWait",
                         "handleJoin", "prepare"} -> {"battle"}
           [] OTHER -> {}

WaitsFor(t, u) == u # t /\ \E l \in Wants(t) : Owns(l, u)

(* No threads wait for each other in a circle.  terminate and handlePart   *)
(* "Simultaneously lock both the channel mutex and the battle mutex"       *)
(* (NetworkBattle.cpp:981, 962) to that end, and handleForfeit sets        *)
(* m_victory "to prevent a deadlock if the game logic also attempts to     *)
(* call informVictory" (NetworkBattle.cpp:852).                            *)
NoCircularWait ==
    ~\E S \in SUBSET Thread :
        S # {} /\ \A t \in S : \E u \in S : WaitsFor(t, u)

-----------------------------------------------------------------------------
(* Fairness: a thread that is inside a handler goes on, and gets a mutex   *)
(* that is given back again and again.  Nobody has to send a turn, to      *)
(* leave or to join.                                                       *)
Fairness ==
    /\ SF_vars(QueueStep)
    /\ \A t \in Answerers : SF_vars(AnswerStep(t))
    /\ \A t \in Answerers \cup Leavers : SF_vars(LeaveStep(t))
    /\ \A t \in Joiners : SF_vars(JoinStep(t))

FairSpec == Spec /\ Fairness

(* When a player leaves, his battle ends, even if a turn runs, is posted,  *)
(* or ends the battle itself, and if his opponent leaves too; and a battle *)
(* that ended is destroyed, by whichever thread is the last in it, unless  *)
(* a turn left over brings the server down before.                         *)
EndedIsDestroyed ==
    terminated \/ (\E p \in Players : pc[Leaver(p)] = "part")
        ~> terminated /\ (destroyed \/ pc[Queue] = "thrown")

=============================================================================
