------------------------- MODULE BattleLocksProofs -------------------------
(***************************************************************************)
(* Theorems about BattleLocks, for every number of players and spectators, *)
(* with or without selections and a timer: the mutexes of a battle are     *)
(* given back as often as they are taken, it ends once, nothing of it is   *)
(* used after its destruction, and no circle of waiting threads is without *)
(* one that joins or waits for a suspended turn.                           *)
(***************************************************************************)
EXTENDS BattleLocks, TLAPS

(* Where a thread can be depends on its role.                              *)
Leaving == {"part", "handlePart", "lockBoth", "forfeit", "forfeitWait",
            "victory", "unwind"}
Place(t) ==
    CASE t = Queue -> {"idle", "entered", "turn", "select", "faulted",
                       "thrown", "victory", "unwind", "release", "destroy",
                       "done"}
      [] t \in Answerers -> {"idle", "handleTurn", "notify", "release",
                             "destroy", "done"} \cup Leaving
      [] t \in Leavers -> {"idle", "release", "destroy", "done"} \cup Leaving
      [] OTHER -> {"idle", "enter", "handleJoin", "prepare", "done"}
PlaceInv == \A t \in Thread : pc[t] \in Place(t)

(* How often thread t has taken lock l according to h.                     *)
Depth(h, l, t) == IF h[l].by = t THEN h[l].depth ELSE 0
WellKept(h) ==
    /\ h \in [Lock -> [by : Thread \cup {Nobody}, depth : Nat]]
    /\ \A l \in Lock : h[l].depth = 0 <=> h[l].by = Nobody

(* How often it should have, from where it is.                             *)
ChannelDepth(t) ==
    IF \/ pc[t] \in {"forfeit", "forfeitWait", "enter", "handleJoin",
                     "prepare"}
       \/ t # Queue /\ pc[t] \in {"victory", "unwind"}
    THEN 1 ELSE 0
MembersDepth(t) == IF pc[t] = "handleJoin" THEN 1 ELSE 0
DepthInv ==
    /\ WellKept(held)
    /\ \A t \in Thread : /\ Depth(held, "battle", t) = BattleDepth(t)
                         /\ Depth(held, "channel", t) = ChannelDepth(t)
                         /\ Depth(held, "members", t) = MembersDepth(t)

(* Who owns one of the mutexes that terminate needs keeps the battle from  *)
(* ending.                                                                 *)
Guarding == {"turn", "forfeit", "forfeitWait", "victory", "enter",
             "handleJoin", "prepare"}
EndInv == \A t \in Thread : pc[t] \in Guarding => ~terminated

(* Who is in the battle has a reference, and its players' lists have one   *)
(* until it ends; so whoever destroys it is the last one in it.            *)
Holding(t) ==
    IF t \in Leavers
    THEN {"lockBoth", "forfeit", "forfeitWait", "victory", "unwind",
          "release"}
    ELSE IF t \in Joiners THEN {}
    ELSE {"entered", "turn", "select", "faulted", "handleTurn", "notify",
          "release"} \cup Leaving
RefInv ==
    /\ \A t \in Thread : pc[t] \in Holding(t) => t \in refs
    /\ ~terminated => Clients \in refs
    /\ \A t \in Thread : pc[t] = "destroy" =>
            /\ refs = {}
            /\ ~destroyed
            /\ \A u \in Thread : pc[u] = "destroy" => u = t
    /\ destroyed => /\ refs = {}
                    /\ \/ pc[Queue] = "done"
                       \/ pc[Queue] = "idle" /\ posted = 0

IInv == TypeOK /\ PlaceInv /\ DepthInv /\ EndInv /\ RefInv

-----------------------------------------------------------------------------
(* Threads and mutexes.                                                    *)

(* No thread has two roles, and Nobody and the clients' lists are none.    *)
LEMMA Roles ==
    /\ Queue \in Thread
    /\ Answerers \subseteq Thread /\ Leavers \subseteq Thread
    /\ Joiners \subseteq Thread
    /\ \A t \in Thread : t = Queue \/ t \in Answerers \/ t \in Leavers
                                   \/ t \in Joiners
    /\ Queue \notin Answerers /\ Queue \notin Leavers /\ Queue \notin Joiners
    /\ \A t \in Answerers : t \notin Leavers /\ t \notin Joiners
    /\ \A t \in Leavers : t \notin Joiners
    /\ Nobody \notin Thread /\ Clients \notin Thread
<1>1. /\ Queue.role = "queue"
      /\ \A t \in Answerers : t.role = "answer"
      /\ \A t \in Leavers : t.role = "leave"
      /\ \A t \in Joiners : t.role = "join"
      /\ Nobody.role = "nobody"
      /\ Clients.role = "clients"
  BY DEF Queue, Answerers, Leavers, Joiners, Answerer, Leaver, Joiner, Nobody,
         Clients
<1>2. Queue # Nobody /\ Queue # Clients
  BY <1>1
<1>. QED  BY <1>1, <1>2 DEF Thread

(* Taking a free mutex: the thread has it once more, nobody else's changes. *)
LEMMA TakenDepth ==
    ASSUME NEW h, WellKept(h), NEW t \in Thread, NEW l \in Lock,
           h[l].by \in {Nobody, t}
    PROVE  /\ WellKept(Taken(h, l, t))
           /\ Depth(Taken(h, l, t), l, t) = Depth(h, l, t) + 1
           /\ \A u \in Thread, k \in Lock : u # t \/ k # l =>
                    Depth(Taken(h, l, t), k, u) = Depth(h, k, u)
BY Roles DEF WellKept, Depth, Taken

(* Giving back a mutex that one owns.                                      *)
LEMMA DroppedDepth ==
    ASSUME NEW h, WellKept(h), NEW t \in Thread, NEW l \in Lock,
           Depth(h, l, t) > 0
    PROVE  /\ WellKept(Dropped(h, l))
           /\ Depth(Dropped(h, l), l, t) = Depth(h, l, t) - 1
           /\ \A u \in Thread, k \in Lock : u # t \/ k # l =>
                    Depth(Dropped(h, l), k, u) = Depth(h, k, u)
<1>1. h[l].by = t /\ h[l].depth \in Nat \ {0}
  BY DEF WellKept, Depth
<1>2. WellKept(Dropped(h, l))
  <2>1. CASE h[l].depth = 1
    BY <2>1 DEF WellKept, Dropped
  <2>2. CASE h[l].depth # 1
    BY <1>1, <2>2 DEF WellKept, Dropped
  <2>. QED  BY <2>1, <2>2
<1>. QED  BY <1>1, <1>2, Roles DEF WellKept, Depth, Dropped

(* A step of thread t keeps the depths right if it does for t.             *)
LEMMA DepthStep ==
    ASSUME TypeOK, DepthInv, NEW t \in Thread, NEW q,
           pc' = [pc EXCEPT ![t] = q],
           WellKept(held'),
           \A u \in Thread \ {t}, l \in Lock :
                Depth(held', l, u) = Depth(held, l, u),
           Depth(held', "battle", t) = BattleDepth(t)',
           Depth(held', "channel", t) = ChannelDepth(t)',
           Depth(held', "members", t) = MembersDepth(t)'
    PROVE  DepthInv'
<1>. SUFFICES ASSUME NEW u \in Thread, u # t
             PROVE  /\ Depth(held', "battle", u) = BattleDepth(u)'
                    /\ Depth(held', "channel", u) = ChannelDepth(u)'
                    /\ Depth(held', "members", u) = MembersDepth(u)'
  BY DEF DepthInv
<1>1. pc'[u] = pc[u]
  BY DEF TypeOK
<1>2. /\ BattleDepth(u)' = BattleDepth(u)
      /\ ChannelDepth(u)' = ChannelDepth(u)
      /\ MembersDepth(u)' = MembersDepth(u)
  BY <1>1 DEF BattleDepth, ChannelDepth, MembersDepth
<1>. QED  BY <1>2 DEF DepthInv, Lock

(* It does if t takes and gives back nothing and is not expected to.       *)
LEMMA DepthKept ==
    ASSUME TypeOK, DepthInv, NEW t \in Thread, NEW q,
           pc' = [pc EXCEPT ![t] = q],
           held' = held,
           BattleDepth(t)' = BattleDepth(t),
           ChannelDepth(t)' = ChannelDepth(t),
           MembersDepth(t)' = MembersDepth(t)
    PROVE  DepthInv'
BY DepthStep DEF DepthInv

-----------------------------------------------------------------------------
(* The invariant at the start, and what the actions have in common.        *)

(* A battle that has begun satisfies the invariant.                        *)
LEMMA InitInv == Init => IInv
<1>. SUFFICES ASSUME Init PROVE IInv
  OBVIOUS
<1>1. TypeOK
  BY Roles DEF Init, TypeOK, Lock
<1>2. PlaceInv
  BY Roles DEF Init, PlaceInv, Place
<1>3. DepthInv
  <2>1. WellKept(held)
    BY DEF Init, WellKept
  <2>2. ASSUME NEW t \in Thread
        PROVE  /\ Depth(held, "battle", t) = BattleDepth(t)
               /\ Depth(held, "channel", t) = ChannelDepth(t)
               /\ Depth(held, "members", t) = MembersDepth(t)
    BY Roles DEF Init, Depth, BattleDepth, ChannelDepth, MembersDepth, Lock
  <2>. QED  BY <2>1, <2>2 DEF DepthInv
<1>4. EndInv /\ RefInv
  BY Roles DEF Init, EndInv, Guarding, RefInv, Holding, Leaving
<1>. QED  BY <1>1, <1>2, <1>3, <1>4 DEF IInv

(* Moving thread t to a place of its role keeps every thread in its place. *)
LEMMA PlaceStep ==
    ASSUME TypeOK, PlaceInv, NEW t \in Thread, NEW q \in Place(t),
           pc' = [pc EXCEPT ![t] = q]
    PROVE  PlaceInv'
BY DEF TypeOK, PlaceInv, Place

(* Nobody who owns the channel or the battle is there while another thread *)
(* can take both: what terminate excludes.                                 *)
LEMMA BothFree ==
    ASSUME IInv, NEW t \in Thread, Free("channel", t), Free("battle", t),
           NEW u \in Thread, u # t
    PROVE  pc[u] \notin Guarding
<1>1. Depth(held, "channel", u) = 0 /\ Depth(held, "battle", u) = 0
  BY Roles DEF Free, Depth, IInv, DepthInv, WellKept, Lock
<1>. QED  BY <1>1, Roles DEF IInv, DepthInv, ChannelDepth, BattleDepth, Guarding

-----------------------------------------------------------------------------
(* Ending and destroying the battle.                                       *)

(* Dropping the reference keeps the invariant: the thread that dropped the *)
(* last one is alone with the battle.                                      *)
LEMMA ReleaseInv ==
    ASSUME IInv, NEW t \in Thread, t \notin Joiners, Release(t)
    PROVE  IInv'
<1>. DEFINE q == IF refs' = {} THEN "destroy"
                 ELSE IF t \in Leavers THEN "done" ELSE "idle"
<1>1. pc[t] = "release" /\ pc' = [pc EXCEPT ![t] = q] /\ refs' = refs \ {t}
  BY DEF Release
<1>2. q \in Place(t)
  BY Roles DEF Place
<1>3. TypeOK'
  BY <1>1 DEF IInv, TypeOK, Release
<1>4. PlaceInv'
  BY <1>1, <1>2, PlaceStep DEF IInv
<1>5. DepthInv'
  <2>1. pc[t] = "release" /\ pc'[t] \in {"destroy", "done", "idle"}
    BY <1>1 DEF IInv, TypeOK
  <2>2. /\ BattleDepth(t)' = BattleDepth(t)
        /\ ChannelDepth(t)' = ChannelDepth(t)
        /\ MembersDepth(t)' = MembersDepth(t)
    BY <2>1 DEF BattleDepth, ChannelDepth, MembersDepth
  <2>. QED  BY <1>1, <2>2, DepthKept DEF IInv, Release
<1>6. EndInv'
  BY <1>1 DEF IInv, TypeOK, EndInv, Guarding, Release
<1>7. RefInv'
  <2>1. t \in refs /\ ~destroyed /\ \A u \in Thread : pc[u] # "destroy"
    BY <1>1, Roles DEF IInv, RefInv, Holding, Leaving
  <2>2. t # Clients
    BY Roles
  <2>. QED  BY <1>1, <2>1, <2>2, Roles DEF IInv, TypeOK, RefInv, Holding,
               Leaving, Release
<1>. QED  BY <1>3, <1>4, <1>5, <1>6, <1>7 DEF IInv

(* The destructor runs once, on the last thread in the battle.             *)
LEMMA DestroyInv ==
    ASSUME IInv, NEW t \in Thread, t \notin Joiners, Destroy(t)
    PROVE  IInv'
<1>1. pc[t] = "destroy" /\ pc' = [pc EXCEPT ![t] = "done"]
  BY DEF Destroy, Go
<1>2. "done" \in Place(t)
  BY Roles DEF Place
<1>3. TypeOK'
  BY <1>1 DEF IInv, TypeOK, Destroy
<1>4. PlaceInv'
  BY <1>1, <1>2, PlaceStep DEF IInv
<1>5. DepthInv'
  <2>1. /\ BattleDepth(t)' = BattleDepth(t)
        /\ ChannelDepth(t)' = ChannelDepth(t)
        /\ MembersDepth(t)' = MembersDepth(t)
    BY <1>1, Roles DEF IInv, TypeOK, BattleDepth, ChannelDepth, MembersDepth
  <2>. QED  BY <1>1, <2>1, DepthKept DEF IInv, Destroy
<1>6. EndInv'
  BY <1>1 DEF IInv, TypeOK, EndInv, Guarding, Destroy
<1>7. RefInv'
  BY <1>1, Roles DEF IInv, TypeOK, RefInv, Holding, Leaving, Destroy
<1>. QED  BY <1>3, <1>4, <1>5, <1>6, <1>7 DEF IInv

(* terminate, on the thread that announces the end.                        *)
LEMMA TerminateInv ==
    ASSUME IInv, NEW t \in Thread, t \notin Joiners, Terminate(t)
    PROVE  IInv'
<1>1. pc[t] = "victory" /\ pc' = [pc EXCEPT ![t] = "unwind"]
  BY DEF Terminate, Go
<1>2. "unwind" \in Place(t)
  BY Roles DEF Place, Leaving
<1>3. TypeOK'
  BY <1>1 DEF IInv, TypeOK, Terminate
<1>4. PlaceInv'
  BY <1>1, <1>2, PlaceStep DEF IInv
<1>5. DepthInv'
  <2>1. /\ BattleDepth(t)' = BattleDepth(t)
        /\ ChannelDepth(t)' = ChannelDepth(t)
        /\ MembersDepth(t)' = MembersDepth(t)
    BY <1>1, Roles DEF IInv, TypeOK, BattleDepth, ChannelDepth, MembersDepth
  <2>. QED  BY <1>1, <2>1, DepthKept DEF IInv, Terminate
<1>6. EndInv'
  BY <1>1, BothFree DEF IInv, TypeOK, EndInv, Guarding, Terminate
<1>7. RefInv'
  BY <1>1, Roles DEF IInv, TypeOK, RefInv, Holding, Leaving, Terminate
<1>. QED  BY <1>3, <1>4, <1>5, <1>6, <1>7 DEF IInv

-----------------------------------------------------------------------------
(* The other actions move one thread and destroy nothing: what they have   *)
(* to respect.                                                             *)
LEMMA StepInv ==
    ASSUME IInv, NEW t \in Thread, NEW q \in Place(t) \ {"destroy"},
           pc' = [pc EXCEPT ![t] = q],
           TypeOK', DepthInv',
           terminated' = terminated, destroyed' = destroyed,
           q \in Guarding => ~terminated,
           refs' = refs \/ (refs # {} /\ refs' = refs \cup {t}),
           q \in Holding(t) => t \in refs',
           destroyed => t # Queue /\ posted' = posted
    PROVE  IInv'
<1>1. PlaceInv'
  BY PlaceStep DEF IInv
<1>2. EndInv'
  BY DEF IInv, TypeOK, EndInv
<1>3. RefInv'
  BY Roles DEF IInv, TypeOK, RefInv, Holding
<1>. QED  BY <1>1, <1>2, <1>3 DEF IInv

(* Most of them leave the mutexes, the references and the queue alone.     *)
LEMMA QuietInv ==
    ASSUME IInv, NEW t \in Thread, NEW f, NEW q \in Place(t) \ {"destroy"},
           Go(t, f, q),
           TypeOK',
           UNCHANGED <<held, terminated, refs, destroyed>>,
           BattleDepth(t)' = BattleDepth(t),
           ChannelDepth(t)' = ChannelDepth(t),
           MembersDepth(t)' = MembersDepth(t),
           q \in Guarding => f \in Guarding,
           q \in Holding(t) => t \in refs,
           destroyed => t # Queue /\ posted' = posted
    PROVE  IInv'
<1>1. pc[t] = f /\ pc' = [pc EXCEPT ![t] = q]
  BY DEF Go
<1>2. DepthInv'
  BY <1>1, DepthKept DEF IInv
<1>3. q \in Guarding => ~terminated
  BY <1>1 DEF IInv, EndInv
<1>4. terminated' = terminated /\ destroyed' = destroyed /\ refs' = refs
  OBVIOUS
<1>. QED  BY <1>1, <1>2, <1>3, <1>4, StepInv

(* The queue thread is in no action once the battle is destroyed.          *)
LEMMA QueueIsAlive ==
    ASSUME IInv, pc[Queue] \notin {"idle", "done"}
    PROVE  ~destroyed
BY DEF IInv, RefInv

-----------------------------------------------------------------------------
(* The queue thread.                                                       *)

(* The beginning of executeTurn takes a reference, or fails for good.      *)
LEMMA StartTurnInv ==
    ASSUME IInv, StartTurn
    PROVE  IInv'
<1>1. pc[Queue] = "idle" /\ ~destroyed
  BY DEF StartTurn, Go, IInv, RefInv, TypeOK
<1>2. TypeOK'
  BY Roles DEF IInv, TypeOK, StartTurn, Go
<1>3. ASSUME NEW q \in {"entered", "thrown"}, pc' = [pc EXCEPT ![Queue] = q],
             refs' = refs \/ (refs # {} /\ refs' = refs \cup {Queue}),
             q = "entered" => Queue \in refs'
      PROVE  IInv'
  <2>1. /\ BattleDepth(Queue)' = BattleDepth(Queue)
        /\ ChannelDepth(Queue)' = ChannelDepth(Queue)
        /\ MembersDepth(Queue)' = MembersDepth(Queue)
    BY <1>1, <1>3, Roles DEF IInv, TypeOK, BattleDepth, ChannelDepth, MembersDepth
  <2>2. DepthInv'
    BY <1>3, <2>1, Roles, DepthKept DEF IInv, StartTurn
  <2>3. /\ q \in Place(Queue) \ {"destroy"}
        /\ q \notin Guarding
        /\ q \in Holding(Queue) => q = "entered"
    BY <1>3, Roles DEF Place, Guarding, Holding, Leaving
  <2>. QED  BY <1>1, <1>2, <1>3, <2>2, <2>3, Roles, StepInv DEF StartTurn
<1>4. CASE refs # {} /\ Go(Queue, "idle", "entered")
                      /\ refs' = refs \cup {Queue}
  BY <1>3, <1>4 DEF Go
<1>5. CASE refs = {} /\ Go(Queue, "idle", "thrown") /\ UNCHANGED refs
  <2>1. pc' = [pc EXCEPT ![Queue] = "thrown"] /\ refs' = refs
    BY <1>5 DEF Go
  <2>. QED  BY <1>3, <2>1
<1>. QED  BY <1>4, <1>5 DEF StartTurn

(* executeTurn locks the battle, unless it has ended.                      *)
LEMMA LockTurnInv ==
    ASSUME IInv, LockTurn
    PROVE  IInv'
<1>1. pc[Queue] = "entered" /\ Queue \in refs /\ ~destroyed
  BY Roles, QueueIsAlive DEF LockTurn, Go, IInv, RefInv, Holding
<1>2. TypeOK'
  BY Roles, TakenDepth DEF IInv, TypeOK, LockTurn, Go, Free, Lock, Taken
<1>3. CASE ~terminated /\ Go(Queue, "entered", "turn")
           /\ held' = Taken(held, "battle", Queue)
  <2>1. /\ "battle" \in Lock
        /\ WellKept(held)
        /\ held["battle"].by \in {Nobody, Queue}
    BY DEF LockTurn, Free, Lock, IInv, DepthInv
  <2>2. /\ WellKept(held')
        /\ Depth(held', "battle", Queue) = Depth(held, "battle", Queue) + 1
        /\ \A u \in Thread, k \in Lock : u # Queue \/ k # "battle" =>
                Depth(held', k, u) = Depth(held, k, u)
    BY <1>3, <2>1, Roles, TakenDepth
  <2>3. /\ Depth(held', "battle", Queue) = BattleDepth(Queue)'
        /\ Depth(held', "channel", Queue) = ChannelDepth(Queue)'
        /\ Depth(held', "members", Queue) = MembersDepth(Queue)'
    BY <1>1, <1>3, <2>2, Roles DEF IInv, TypeOK, DepthInv, BattleDepth,
       ChannelDepth, MembersDepth, Go, Lock
  <2>4. DepthInv'
    BY <1>3, <2>2, <2>3, Roles, DepthStep DEF IInv, Go
  <2>5. "turn" \in Place(Queue) \ {"destroy"}
    BY Roles DEF Place
  <2>. QED  BY <1>1, <1>2, <1>3, <2>4, <2>5, Roles, StepInv DEF LockTurn, Go
<1>4. CASE terminated /\ Go(Queue, "entered", "release") /\ UNCHANGED held
  <2>1. /\ BattleDepth(Queue)' = BattleDepth(Queue)
        /\ ChannelDepth(Queue)' = ChannelDepth(Queue)
        /\ MembersDepth(Queue)' = MembersDepth(Queue)
    BY <1>4, Roles DEF Go, IInv, TypeOK, BattleDepth, ChannelDepth, MembersDepth
  <2>2. "release" \in Place(Queue) \ {"destroy"} /\ "release" \notin Guarding
    BY Roles DEF Place, Guarding
  <2>. QED  BY <1>1, <1>2, <1>4, <2>1, <2>2, Roles, QuietInv DEF LockTurn
<1>. QED  BY <1>3, <1>4 DEF LockTurn

(* requestInactivePokemon gives the mutex back for the wait...             *)
LEMMA AskSelectionInv ==
    ASSUME IInv, AskSelection
    PROVE  IInv'
<1>1. /\ pc[Queue] = "turn" /\ pc' = [pc EXCEPT ![Queue] = "select"]
      /\ Queue \in refs /\ ~destroyed
  BY Roles, QueueIsAlive DEF AskSelection, Go, IInv, RefInv, Holding
<1>2. held' = Dropped(held, "battle") /\ WellKept(held) /\ "battle" \in Lock
  BY DEF AskSelection, IInv, DepthInv, Lock
<1>3. Depth(held, "battle", Queue) = 1
  BY <1>1, Roles DEF IInv, DepthInv, BattleDepth
<1>4. /\ WellKept(held')
      /\ Depth(held', "battle", Queue) = 0
      /\ \A u \in Thread, k \in Lock : u # Queue \/ k # "battle" =>
                Depth(held', k, u) = Depth(held, k, u)
  BY <1>2, <1>3, Roles, DroppedDepth
<1>5. /\ Depth(held', "battle", Queue) = BattleDepth(Queue)'
      /\ Depth(held', "channel", Queue) = ChannelDepth(Queue)'
      /\ Depth(held', "members", Queue) = MembersDepth(Queue)'
  BY <1>1, <1>4, Roles DEF IInv, TypeOK, DepthInv, BattleDepth, ChannelDepth,
     MembersDepth, Lock
<1>6. DepthInv'
  BY <1>1, <1>4, <1>5, Roles, DepthStep DEF IInv
<1>7. TypeOK'
  BY <1>1, <1>4, Roles DEF IInv, TypeOK, WellKept, AskSelection
<1>8. "select" \in Place(Queue) \ {"destroy"} /\ "select" \notin Guarding
  BY Roles DEF Place, Guarding
<1>. QED  BY <1>1, <1>6, <1>7, <1>8, Roles, StepInv DEF AskSelection

(* ... and has it again when it goes on, if the battle goes on.            *)
LEMMA ResumeInv ==
    ASSUME IInv, Resume
    PROVE  IInv'
<1>1. pc[Queue] = "select" /\ Queue \in refs /\ ~destroyed
  BY Roles, QueueIsAlive DEF Resume, IInv, RefInv, Holding
<1>2. CASE /\ waiting
           /\ sleepers' = sleepers \cup {Queue}
           /\ UNCHANGED <<pc, held, selection>>
  <2>1. TypeOK'
    BY <1>2, Roles DEF IInv, TypeOK, Resume
  <2>. QED  BY <1>2, <2>1 DEF Resume, IInv, PlaceInv, Place, DepthInv, EndInv,
            RefInv, BattleDepth, ChannelDepth, MembersDepth
<1>3. ASSUME NEW q \in {"faulted", "turn"}, pc' = [pc EXCEPT ![Queue] = q],
             q = "turn" => ~terminated,
             held' = Taken(held, "battle", Queue), selection' = "none",
             sleepers' \in NotifyOne(sleepers)
      PROVE  IInv'
  <2>1. /\ "battle" \in Lock
        /\ WellKept(held)
        /\ held["battle"].by \in {Nobody, Queue}
    BY DEF Resume, Awake, Free, Lock, IInv, DepthInv
  <2>2. /\ WellKept(held')
        /\ Depth(held', "battle", Queue) = Depth(held, "battle", Queue) + 1
        /\ \A u \in Thread, k \in Lock : u # Queue \/ k # "battle" =>
                Depth(held', k, u) = Depth(held, k, u)
    BY <1>3, <2>1, Roles, TakenDepth
  <2>3. /\ Depth(held', "battle", Queue) = BattleDepth(Queue)'
        /\ Depth(held', "channel", Queue) = ChannelDepth(Queue)'
        /\ Depth(held', "members", Queue) = MembersDepth(Queue)'
    BY <1>1, <1>3, <2>2, Roles DEF IInv, TypeOK, DepthInv, BattleDepth,
       ChannelDepth, MembersDepth, Lock
  <2>4. DepthInv'
    BY <1>3, <2>2, <2>3, Roles, DepthStep DEF IInv
  <2>5. sleepers' \subseteq Thread
    BY <1>3 DEF NotifyOne, IInv, TypeOK
  <2>6. TypeOK'
    BY <1>3, <2>2, <2>5, Roles DEF IInv, TypeOK, WellKept, Resume
  <2>7. q \in Place(Queue) \ {"destroy"} /\ "faulted" \notin Guarding
    BY <1>3, Roles DEF Place, Guarding
  <2>. QED  BY <1>1, <1>3, <2>4, <2>6, <2>7, Roles, StepInv DEF Resume
<1>4. CASE /\ ~waiting
           /\ pc' = [pc EXCEPT ![Queue] = IF terminated THEN "faulted" ELSE "turn"]
           /\ held' = Taken(held, "battle", Queue)
           /\ selection' = "none"
           /\ sleepers' \in NotifyOne(sleepers)
  BY <1>3, <1>4
<1>. QED  BY <1>2, <1>4 DEF Resume

(* A turn that decides the battle still owns its mutex.                    *)
LEMMA WinInv ==
    ASSUME IInv, Win
    PROVE  IInv'
<1>1. /\ Go(Queue, "turn", "victory")
      /\ pc[Queue] = "turn" /\ pc' = [pc EXCEPT ![Queue] = "victory"]
      /\ Queue \in refs /\ ~destroyed
  BY Roles, QueueIsAlive DEF Win, Go, IInv, RefInv, Holding
<1>2. TypeOK'
  BY <1>1 DEF IInv, TypeOK, Win
<1>3. /\ BattleDepth(Queue)' = BattleDepth(Queue)
      /\ ChannelDepth(Queue)' = ChannelDepth(Queue)
      /\ MembersDepth(Queue)' = MembersDepth(Queue)
  BY <1>1, Roles DEF IInv, TypeOK, BattleDepth, ChannelDepth, MembersDepth
<1>4. /\ "victory" \in Place(Queue) \ {"destroy"}
      /\ "turn" \in Guarding
  BY Roles DEF Place, Guarding
<1>. QED  BY <1>1, <1>2, <1>3, <1>4, Roles, QuietInv DEF Win

(* The end of executeTurn gives the mutex back.                            *)
LEMMA EndTurnInv ==
    ASSUME IInv, EndTurn \/ EndBattle
    PROVE  IInv'
<1>1. /\ pc[Queue] \in {"turn", "unwind"}
      /\ pc' = [pc EXCEPT ![Queue] = "release"]
      /\ Queue \in refs /\ ~destroyed
  BY Roles, QueueIsAlive DEF EndTurn, EndBattle, Go, IInv, RefInv, Holding,
     Leaving
<1>2. held' = Dropped(held, "battle") /\ WellKept(held) /\ "battle" \in Lock
  BY DEF EndTurn, EndBattle, IInv, DepthInv, Lock
<1>3. Depth(held, "battle", Queue) = 1
  BY <1>1, Roles DEF IInv, DepthInv, BattleDepth
<1>4. /\ WellKept(held')
      /\ Depth(held', "battle", Queue) = 0
      /\ \A u \in Thread, k \in Lock : u # Queue \/ k # "battle" =>
                Depth(held', k, u) = Depth(held, k, u)
  BY <1>2, <1>3, Roles, DroppedDepth
<1>5. /\ Depth(held', "battle", Queue) = BattleDepth(Queue)'
      /\ Depth(held', "channel", Queue) = ChannelDepth(Queue)'
      /\ Depth(held', "members", Queue) = MembersDepth(Queue)'
  BY <1>1, <1>4, Roles DEF IInv, TypeOK, DepthInv, BattleDepth, ChannelDepth,
     MembersDepth, Lock
<1>6. DepthInv'
  BY <1>1, <1>4, <1>5, Roles, DepthStep DEF IInv
<1>7. TypeOK'
  BY <1>1, <1>4, Roles DEF IInv, TypeOK, WellKept, EndTurn, EndBattle
<1>8. "release" \in Place(Queue) \ {"destroy"} /\ "release" \notin Guarding
  BY Roles DEF Place, Guarding
<1>. QED  BY <1>1, <1>6, <1>7, <1>8, Roles, StepInv DEF EndTurn, EndBattle

-----------------------------------------------------------------------------
(* A worker thread with a turn.                                            *)

(* handleBattleAction takes a reference from the client's list of battles. *)
LEMMA GetBattleInv ==
    ASSUME IInv, NEW t \in Answerers, GetBattle(t)
    PROVE  IInv'
<1>1. /\ pc[t] = "idle" /\ pc' = [pc EXCEPT ![t] = "handleTurn"]
      /\ refs # {} /\ refs' = refs \cup {t} /\ ~destroyed
      /\ t \in Thread /\ t # Queue
  BY Roles DEF GetBattle, Go, IInv, RefInv
<1>2. TypeOK'
  BY <1>1 DEF IInv, TypeOK, GetBattle
<1>3. DepthInv'
  <2>1. /\ BattleDepth(t)' = BattleDepth(t)
        /\ ChannelDepth(t)' = ChannelDepth(t)
        /\ MembersDepth(t)' = MembersDepth(t)
    BY <1>1, Roles DEF IInv, TypeOK, BattleDepth, ChannelDepth, MembersDepth
  <2>. QED  BY <1>1, <2>1, DepthKept DEF IInv, GetBattle
<1>4. "handleTurn" \in Place(t) \ {"destroy"} /\ "handleTurn" \notin Guarding
  BY Roles DEF Place, Guarding
<1>. QED  BY <1>1, <1>2, <1>3, <1>4, StepInv DEF GetBattle

(* handleTurn ignores, posts or answers, and gives back what it locked.    *)
LEMMA AnswerInv ==
    ASSUME IInv, NEW t \in Answerers,
           TurnIgnored(t) \/ TurnPosted(t) \/ TurnSelects(t) \/ Notify(t)
    PROVE  IInv'
<1>1. PICK f \in {"handleTurn", "notify"}, q \in {"notify", "release"} :
            Go(t, f, q)
  BY DEF TurnIgnored, TurnPosted, TurnSelects, Notify
<1>2. /\ pc[t] = f /\ pc' = [pc EXCEPT ![t] = q]
      /\ t \in refs /\ ~destroyed
      /\ t \in Thread /\ t # Queue
  BY <1>1, Roles DEF Go, IInv, RefInv, Holding
<1>3. TypeOK'
  <2>1. pc' \in [Thread -> {"idle", "entered", "turn", "select", "faulted",
                            "thrown", "handleTurn", "notify", "part",
                            "handlePart", "lockBoth", "forfeit",
                            "forfeitWait", "victory", "unwind", "release",
                            "destroy", "enter", "handleJoin", "prepare",
                            "done"}]
    BY <1>2 DEF IInv, TypeOK
  <2>2. sleepers' \subseteq Thread
    BY DEF IInv, TypeOK, TurnIgnored, TurnPosted, TurnSelects, Notify,
       NotifyOne
  <2>3. CASE TurnIgnored(t)
    BY <2>1, <2>2, <2>3 DEF IInv, TypeOK, TurnIgnored
  <2>4. CASE TurnPosted(t)
    <3>1. posted' \in Nat
      BY <2>4 DEF IInv, TypeOK, TurnPosted
    <3>2. asked' \in BOOLEAN
      BY <2>4, Zenon DEF TurnPosted
    <3>. QED  BY <2>1, <2>2, <2>4, <3>1, <3>2, Zenon DEF IInv, TypeOK,
              TurnPosted
  <2>5. CASE TurnSelects(t)
    BY <2>1, <2>2, <2>5 DEF IInv, TypeOK, TurnSelects
  <2>6. CASE Notify(t)
    BY <2>1, <2>2, <2>6 DEF IInv, TypeOK, Notify
  <2>. QED  BY <2>3, <2>4, <2>5, <2>6
<1>4. /\ BattleDepth(t)' = BattleDepth(t)
      /\ ChannelDepth(t)' = ChannelDepth(t)
      /\ MembersDepth(t)' = MembersDepth(t)
  BY <1>2, Roles DEF IInv, TypeOK, BattleDepth, ChannelDepth, MembersDepth
<1>5. q \in Place(t) \ {"destroy"} /\ q \notin Guarding
  BY Roles DEF Place, Guarding
<1>6. UNCHANGED <<held, terminated, refs, destroyed>>
  BY DEF TurnIgnored, TurnPosted, TurnSelects, Notify
<1>7. q \in Guarding => f \in Guarding
  BY <1>5
<1>8. q \in Holding(t) => t \in refs
  BY <1>2
<1>9. destroyed => t # Queue /\ posted' = posted
  BY <1>2
<1>. QED  BY <1>1, <1>2, <1>3, <1>4, <1>5, <1>6, <1>7, <1>8, <1>9, QuietInv

(* handleTurn keeps the battle locked while it removes a player.           *)
LEMMA TurnExpiresInv ==
    ASSUME IInv, NEW t \in Answerers, TurnExpires(t)
    PROVE  IInv'
<1>1. /\ pc[t] = "handleTurn" /\ pc' = [pc EXCEPT ![t] = "part"]
      /\ t \in refs /\ ~destroyed
      /\ t \in Thread /\ t # Queue
  BY Roles DEF TurnExpires, Go, IInv, RefInv, Holding
<1>2. /\ held' = Taken(held, "battle", t)
      /\ "battle" \in Lock
      /\ WellKept(held)
      /\ held["battle"].by \in {Nobody, t}
  BY DEF TurnExpires, Free, Lock, IInv, DepthInv
<1>3. /\ WellKept(held')
      /\ Depth(held', "battle", t) = Depth(held, "battle", t) + 1
      /\ \A u \in Thread, k \in Lock : u # t \/ k # "battle" =>
                Depth(held', k, u) = Depth(held, k, u)
  BY <1>1, <1>2, TakenDepth
<1>4. /\ Depth(held', "battle", t) = BattleDepth(t)'
      /\ Depth(held', "channel", t) = ChannelDepth(t)'
      /\ Depth(held', "members", t) = MembersDepth(t)'
  BY <1>1, <1>3, Roles DEF IInv, TypeOK, DepthInv, BattleDepth, ChannelDepth,
     MembersDepth, Lock
<1>5. DepthInv'
  BY <1>1, <1>3, <1>4, DepthStep DEF IInv
<1>6. TypeOK'
  BY <1>1, <1>3 DEF IInv, TypeOK, WellKept, TurnExpires
<1>7. "part" \in Place(t) \ {"destroy"} /\ "part" \notin Guarding
  BY Roles DEF Place, Guarding, Leaving
<1>. QED  BY <1>1, <1>5, <1>6, <1>7, StepInv DEF TurnExpires

-----------------------------------------------------------------------------
(* A player leaves.                                                        *)

(* Giving back what the caller of part has locked.                         *)
LEMMA BelowDepth ==
    ASSUME NEW h, WellKept(h), NEW t \in Thread,
           t \in Answerers => Depth(h, "battle", t) > 0
    PROVE  /\ WellKept(Below(t, h))
           /\ Depth(Below(t, h), "battle", t) =
                IF t \in Answerers THEN Depth(h, "battle", t) - 1
                ELSE Depth(h, "battle", t)
           /\ \A u \in Thread, k \in Lock : u # t \/ k # "battle" =>
                    Depth(Below(t, h), k, u) = Depth(h, k, u)
<1>1. CASE t \in Answerers
  <2>1. Below(t, h) = Dropped(h, "battle") /\ "battle" \in Lock
    BY <1>1 DEF Below, Lock
  <2>. QED  BY <1>1, <2>1, DroppedDepth
<1>2. CASE t \notin Answerers
  <2>1. Below(t, h) = h
    BY <1>2 DEF Below
  <2>. QED  BY <1>2, <2>1
<1>. QED  BY <1>1, <1>2

(* A player on his way out of the channel has locked the battle only where *)
(* handleTurn had; leaving part gives that back.                           *)
LEMMA PartReturns ==
    ASSUME IInv, NEW t \in Answerers \cup Leavers,
           pc[t] \in {"part", "handlePart", "lockBoth"},
           NEW q \in {"done", "release"},
           pc' = [pc EXCEPT ![t] = q],
           held' = Below(t, held),
           t \in Answerers => q = "release",
           q = "release" => t \in refs,
           TypeOK', terminated' = terminated, destroyed' = destroyed,
           refs' = refs, posted' = posted
    PROVE  IInv'
<1>1. t \in Thread /\ t # Queue
  BY Roles
<1>2. WellKept(held) /\ "battle" \in Lock
  BY DEF IInv, DepthInv, Lock
<1>3. Depth(held, "battle", t) = IF t \in Answerers THEN 1 ELSE 0
  BY <1>1, Roles DEF IInv, DepthInv, BattleDepth
<1>4. /\ WellKept(held')
      /\ Depth(held', "battle", t) = 0
      /\ \A u \in Thread, k \in Lock : u # t \/ k # "battle" =>
                Depth(held', k, u) = Depth(held, k, u)
  BY <1>1, <1>2, <1>3, BelowDepth
<1>5. /\ Depth(held', "battle", t) = BattleDepth(t)'
      /\ Depth(held', "channel", t) = ChannelDepth(t)'
      /\ Depth(held', "members", t) = MembersDepth(t)'
  BY <1>1, <1>4, Roles DEF IInv, TypeOK, DepthInv, BattleDepth, ChannelDepth,
     MembersDepth, Lock
<1>6. DepthInv'
  BY <1>1, <1>4, <1>5, DepthStep DEF IInv
<1>7. q \in Place(t) \ {"destroy"} /\ q \notin Guarding
  BY Roles DEF Place, Guarding
<1>8. q \in Holding(t) => t \in refs'
  BY Roles DEF Holding, Leaving
<1>. QED  BY <1>1, <1>6, <1>7, <1>8, StepInv

(* A player begins to leave.                                               *)
LEMMA BeginLeaveInv ==
    ASSUME IInv, NEW t \in Leavers, BeginLeave(t)
    PROVE  IInv'
<1>1. /\ Go(t, "idle", "part")
      /\ pc[t] = "idle" /\ pc' = [pc EXCEPT ![t] = "part"]
      /\ t \in Thread /\ t # Queue
  BY Roles DEF BeginLeave, Go
<1>2. TypeOK'
  BY <1>1 DEF IInv, TypeOK, BeginLeave
<1>3. /\ BattleDepth(t)' = BattleDepth(t)
      /\ ChannelDepth(t)' = ChannelDepth(t)
      /\ MembersDepth(t)' = MembersDepth(t)
  BY <1>1, Roles DEF IInv, TypeOK, BattleDepth, ChannelDepth, MembersDepth
<1>4. /\ "part" \in Place(t) \ {"destroy"}
      /\ "part" \notin Guarding
      /\ "part" \notin Holding(t)
  BY Roles DEF Place, Guarding, Holding, Leaving
<1>. QED  BY <1>1, <1>2, <1>3, <1>4, QuietInv DEF BeginLeave

(* Channel::part removes him from the members, if he was one.              *)
LEMMA PartInv ==
    ASSUME IInv, NEW t \in Answerers \cup Leavers, NEW p \in Players,
           Part(t, p)
    PROVE  IInv'
<1>1. /\ pc[t] = "part" /\ t \in Thread /\ t # Queue
      /\ t \in Answerers => t \in refs
  BY Roles DEF Part, Go, IInv, RefInv, Holding, Leaving
<1>2. CASE /\ p \in members
           /\ Go(t, "part", "handlePart")
           /\ members' = members \ {p}
           /\ UNCHANGED held
  <2>1. TypeOK'
    BY <1>1, <1>2 DEF IInv, TypeOK, Part, Go
  <2>2. /\ BattleDepth(t)' = BattleDepth(t)
        /\ ChannelDepth(t)' = ChannelDepth(t)
        /\ MembersDepth(t)' = MembersDepth(t)
    BY <1>1, <1>2, Roles DEF Go, IInv, TypeOK, BattleDepth, ChannelDepth,
       MembersDepth
  <2>3. /\ "handlePart" \in Place(t) \ {"destroy"}
        /\ "handlePart" \notin Guarding
        /\ "handlePart" \in Holding(t) => t \in refs
    BY <1>1, Roles DEF Place, Guarding, Holding, Leaving
  <2>. QED  BY <1>1, <1>2, <2>1, <2>2, <2>3, QuietInv DEF Part
<1>3. CASE /\ p \notin members
           /\ Go(t, "part", IF t \in Leavers THEN "done" ELSE "release")
           /\ held' = Below(t, held)
           /\ UNCHANGED members
  <2>. DEFINE q == IF t \in Leavers THEN "done" ELSE "release"
  <2>1. WellKept(held')
    BY <1>1, <1>3, BelowDepth DEF IInv, DepthInv, BattleDepth
  <2>2. TypeOK'
    BY <1>1, <1>3, <2>1 DEF IInv, TypeOK, WellKept, Part, Go
  <2>3. /\ q \in {"done", "release"}
        /\ pc' = [pc EXCEPT ![t] = q]
        /\ t \in Answerers => q = "release"
        /\ q = "release" => t \in refs
    BY <1>1, <1>3, Roles DEF Go
  <2>. QED  BY <1>1, <1>3, <2>2, <2>3, PartReturns DEF Part
<1>. QED  BY <1>2, <1>3 DEF Part

(* handlePart takes a reference, if the battle is still there.             *)
LEMMA HandlePartInv ==
    ASSUME IInv, NEW t \in Answerers \cup Leavers, HandlePart(t)
    PROVE  IInv'
<1>1. /\ pc[t] = "handlePart" /\ t \in Thread /\ t # Queue
      /\ t \in Answerers => t \in refs
  BY Roles DEF HandlePart, Go, IInv, RefInv, Holding, Leaving
<1>2. CASE /\ ~terminated
           /\ Go(t, "handlePart", "lockBoth")
           /\ refs' = refs \cup {t}
           /\ UNCHANGED held
  <2>1. TypeOK'
    BY <1>1, <1>2 DEF IInv, TypeOK, HandlePart, Go
  <2>2. /\ BattleDepth(t)' = BattleDepth(t)
        /\ ChannelDepth(t)' = ChannelDepth(t)
        /\ MembersDepth(t)' = MembersDepth(t)
    BY <1>1, <1>2, Roles DEF Go, IInv, TypeOK, BattleDepth, ChannelDepth,
       MembersDepth
  <2>3. DepthInv'
    BY <1>1, <1>2, <2>2, DepthKept DEF IInv, Go
  <2>4. refs # {}
    BY <1>2 DEF IInv, RefInv
  <2>5. "lockBoth" \in Place(t) \ {"destroy"} /\ "lockBoth" \notin Guarding
    BY <1>1, Roles DEF Place, Guarding, Leaving
  <2>. QED  BY <1>1, <1>2, <2>1, <2>3, <2>4, <2>5, StepInv DEF HandlePart, Go
<1>3. CASE /\ terminated
           /\ Go(t, "handlePart", IF t \in Leavers THEN "done" ELSE "release")
           /\ held' = Below(t, held)
           /\ UNCHANGED refs
  <2>. DEFINE q == IF t \in Leavers THEN "done" ELSE "release"
  <2>1. WellKept(held')
    BY <1>1, <1>3, BelowDepth DEF IInv, DepthInv, BattleDepth
  <2>2. TypeOK'
    BY <1>1, <1>3, <2>1 DEF IInv, TypeOK, WellKept, HandlePart, Go
  <2>3. /\ q \in {"done", "release"}
        /\ pc' = [pc EXCEPT ![t] = q]
        /\ t \in Answerers => q = "release"
        /\ q = "release" => t \in refs
    BY <1>1, <1>3, Roles DEF Go
  <2>. QED  BY <1>1, <1>3, <2>2, <2>3, PartReturns DEF HandlePart
<1>. QED  BY <1>2, <1>3 DEF HandlePart

(* The second block of handlePart takes both mutexes, or finds that the    *)
(* battle has ended meanwhile.                                             *)
LEMMA LockBothInv ==
    ASSUME IInv, NEW t \in Answerers \cup Leavers, LockBoth(t)
    PROVE  IInv'
<1>1. /\ pc[t] = "lockBoth" /\ t \in Thread /\ t # Queue
      /\ t \in refs
  BY Roles DEF LockBoth, Go, IInv, RefInv, Holding, Leaving
<1>2. CASE /\ ~terminated
           /\ Go(t, "lockBoth", "forfeit")
           /\ held' = Taken(Taken(held, "channel", t), "battle", t)
           /\ victory' = TRUE
  <2>. DEFINE h == Taken(held, "channel", t)
  <2>1. /\ "battle" \in Lock /\ "channel" \in Lock /\ "members" \in Lock
        /\ "battle" # "channel"
        /\ WellKept(held)
        /\ held["channel"].by \in {Nobody, t}
        /\ held["battle"].by \in {Nobody, t}
    BY DEF LockBoth, Free, Lock, IInv, DepthInv
  <2>2. /\ WellKept(h)
        /\ Depth(h, "channel", t) = Depth(held, "channel", t) + 1
        /\ \A u \in Thread, k \in Lock : u # t \/ k # "channel" =>
                Depth(h, k, u) = Depth(held, k, u)
    BY <1>1, <2>1, TakenDepth
  <2>3. h["battle"].by \in {Nobody, t}
    BY <2>1 DEF Taken, WellKept
  <2>4. /\ WellKept(held')
        /\ Depth(held', "battle", t) = Depth(h, "battle", t) + 1
        /\ \A u \in Thread, k \in Lock : u # t \/ k # "battle" =>
                Depth(held', k, u) = Depth(h, k, u)
    <3>. HIDE DEF h
    <3>1. held' = Taken(h, "battle", t)
      BY <1>2 DEF h
    <3>. QED  BY <1>1, <2>1, <2>2, <2>3, <3>1, TakenDepth
  <2>5. /\ Depth(held', "battle", t) = Depth(held, "battle", t) + 1
        /\ Depth(held', "channel", t) = Depth(held, "channel", t) + 1
        /\ Depth(held', "members", t) = Depth(held, "members", t)
        /\ \A u \in Thread \ {t}, l \in Lock :
                Depth(held', l, u) = Depth(held, l, u)
    <3>. HIDE DEF h
    <3>. QED  BY <1>1, <2>1, <2>2, <2>4
  <2>6. /\ Depth(held, "battle", t) = BattleDepth(t)
        /\ Depth(held, "channel", t) = ChannelDepth(t)
        /\ Depth(held, "members", t) = MembersDepth(t)
        /\ BattleDepth(t)' = BattleDepth(t) + 1
        /\ ChannelDepth(t)' = ChannelDepth(t) + 1
        /\ MembersDepth(t)' = MembersDepth(t)
    BY <1>1, <1>2, Roles DEF IInv, TypeOK, DepthInv, BattleDepth,
       ChannelDepth, MembersDepth, Go
  <2>7. DepthInv'
    BY <1>1, <1>2, <2>4, <2>5, <2>6, DepthStep DEF IInv, Go
  <2>8. TypeOK'
    BY <1>1, <1>2, <2>4 DEF IInv, TypeOK, WellKept, LockBoth, Go
  <2>9. "forfeit" \in Place(t) \ {"destroy"}
    BY <1>1, Roles DEF Place, Leaving
  <2>. QED  BY <1>1, <1>2, <2>7, <2>8, <2>9, StepInv DEF LockBoth, Go
<1>3. CASE /\ terminated
           /\ Go(t, "lockBoth", "release")
           /\ held' = Below(t, held)
           /\ UNCHANGED victory
  <2>1. WellKept(held')
    BY <1>1, <1>3, BelowDepth DEF IInv, DepthInv, BattleDepth
  <2>2. TypeOK'
    BY <1>1, <1>3, <2>1 DEF IInv, TypeOK, WellKept, LockBoth, Go
  <2>. QED  BY <1>1, <1>3, <2>2, PartReturns DEF LockBoth, Go
<1>. QED  BY <1>2, <1>3 DEF LockBoth

(* handleForfeit gives the battle mutex back once, to wait...              *)
LEMMA PickForWaitingInv ==
    ASSUME IInv, NEW t \in Answerers \cup Leavers, PickForWaiting(t)
    PROVE  IInv'
<1>1. /\ pc[t] = "forfeit" /\ pc' = [pc EXCEPT ![t] = "forfeitWait"]
      /\ t \in Thread /\ t # Queue
      /\ t \in refs /\ ~terminated
  BY Roles DEF PickForWaiting, Go, IInv, RefInv, Holding, Leaving, EndInv,
     Guarding
<1>2. held' = Dropped(held, "battle") /\ WellKept(held) /\ "battle" \in Lock
  BY DEF PickForWaiting, IInv, DepthInv, Lock
<1>3. /\ Depth(held, "battle", t) = BattleDepth(t)
      /\ BattleDepth(t) = BattleDepth(t)' + 1
      /\ BattleDepth(t)' \in Nat
      /\ ChannelDepth(t)' = ChannelDepth(t)
      /\ MembersDepth(t)' = MembersDepth(t)
  BY <1>1, Roles DEF IInv, TypeOK, DepthInv, BattleDepth, ChannelDepth,
     MembersDepth
<1>4. /\ WellKept(held')
      /\ Depth(held', "battle", t) = Depth(held, "battle", t) - 1
      /\ \A u \in Thread, k \in Lock : u # t \/ k # "battle" =>
                Depth(held', k, u) = Depth(held, k, u)
  BY <1>1, <1>2, <1>3, DroppedDepth
<1>5. /\ Depth(held', "battle", t) = BattleDepth(t)'
      /\ Depth(held', "channel", t) = ChannelDepth(t)'
      /\ Depth(held', "members", t) = MembersDepth(t)'
  BY <1>1, <1>3, <1>4 DEF IInv, DepthInv, Lock
<1>6. DepthInv'
  BY <1>1, <1>4, <1>5, DepthStep DEF IInv
<1>7. sleepers' \subseteq Thread
  BY <1>1 DEF PickForWaiting, NotifyOne, IInv, TypeOK
<1>8. TypeOK'
  BY <1>1, <1>4, <1>7 DEF IInv, TypeOK, WellKept, PickForWaiting
<1>9. "forfeitWait" \in Place(t) \ {"destroy"}
  BY <1>1, Roles DEF Place, Leaving
<1>. QED  BY <1>1, <1>6, <1>8, <1>9, StepInv DEF PickForWaiting

(* ... and takes it again before it looks once more.                       *)
LEMMA WakeForfeitInv ==
    ASSUME IInv, NEW t \in Answerers \cup Leavers, WakeForfeit(t)
    PROVE  IInv'
<1>1. /\ pc[t] = "forfeitWait" /\ t \in Thread /\ t # Queue
      /\ t \in refs /\ ~terminated
  BY Roles DEF WakeForfeit, IInv, RefInv, Holding, Leaving, EndInv, Guarding
<1>2. CASE sleepers' = sleepers \cup {t} /\ UNCHANGED <<pc, held>>
  <2>1. TypeOK'
    BY <1>1, <1>2 DEF IInv, TypeOK, WakeForfeit
  <2>. QED  BY <1>2, <2>1 DEF WakeForfeit, IInv, PlaceInv, Place, DepthInv,
            EndInv, RefInv, BattleDepth, ChannelDepth, MembersDepth
<1>3. CASE /\ Go(t, "forfeitWait", "forfeit")
           /\ held' = Taken(held, "battle", t)
           /\ UNCHANGED sleepers
  <2>1. /\ "battle" \in Lock
        /\ WellKept(held)
        /\ held["battle"].by \in {Nobody, t}
    BY DEF WakeForfeit, Awake, Free, Lock, IInv, DepthInv
  <2>2. /\ WellKept(held')
        /\ Depth(held', "battle", t) = Depth(held, "battle", t) + 1
        /\ \A u \in Thread, k \in Lock : u # t \/ k # "battle" =>
                Depth(held', k, u) = Depth(held, k, u)
    BY <1>1, <1>3, <2>1, TakenDepth
  <2>3. /\ Depth(held', "battle", t) = BattleDepth(t)'
        /\ Depth(held', "channel", t) = ChannelDepth(t)'
        /\ Depth(held', "members", t) = MembersDepth(t)'
    BY <1>1, <1>3, <2>2, Roles DEF IInv, TypeOK, DepthInv, BattleDepth,
       ChannelDepth, MembersDepth, Go, Lock
  <2>4. DepthInv'
    BY <1>1, <1>3, <2>2, <2>3, DepthStep DEF IInv, Go
  <2>5. TypeOK'
    BY <1>1, <1>3, <2>2 DEF IInv, TypeOK, WellKept, WakeForfeit, Go
  <2>6. "forfeit" \in Place(t) \ {"destroy"}
    BY <1>1, Roles DEF Place, Leaving
  <2>. QED  BY <1>1, <1>3, <2>4, <2>5, <2>6, StepInv DEF WakeForfeit, Go
<1>. QED  BY <1>2, <1>3, Zenon DEF WakeForfeit

(* handleForfeit goes on to informVictory with what it owns.               *)
LEMMA ConcedeInv ==
    ASSUME IInv, NEW t \in Answerers \cup Leavers, Concede(t)
    PROVE  IInv'
<1>1. /\ Go(t, "forfeit", "victory")
      /\ pc[t] = "forfeit" /\ pc' = [pc EXCEPT ![t] = "victory"]
      /\ t \in Thread /\ t # Queue
      /\ t \in refs
  BY Roles DEF Concede, Go, IInv, RefInv, Holding, Leaving
<1>2. TypeOK'
  BY <1>1 DEF IInv, TypeOK, Concede
<1>3. /\ BattleDepth(t)' = BattleDepth(t)
      /\ ChannelDepth(t)' = ChannelDepth(t)
      /\ MembersDepth(t)' = MembersDepth(t)
  BY <1>1, Roles DEF IInv, TypeOK, BattleDepth, ChannelDepth, MembersDepth
<1>4. /\ "victory" \in Place(t) \ {"destroy"}
      /\ "forfeit" \in Guarding
  BY <1>1, Roles DEF Place, Guarding, Leaving
<1>. QED  BY <1>1, <1>2, <1>3, <1>4, QuietInv DEF Concede

(* On the way out of handlePart everything is given back.                  *)
LEMMA UnwindInv ==
    ASSUME IInv, NEW t \in Answerers \cup Leavers, Unwind(t)
    PROVE  IInv'
<1>. DEFINE h == Dropped(held, "battle")
            k == Dropped(h, "channel")
<1>1. /\ pc[t] = "unwind" /\ pc' = [pc EXCEPT ![t] = "release"]
      /\ held' = Below(t, k)
      /\ t \in Thread /\ t # Queue
      /\ t \in refs
  BY Roles DEF Unwind, Go, IInv, RefInv, Holding, Leaving
<1>2. /\ WellKept(held)
      /\ "battle" \in Lock /\ "channel" \in Lock /\ "members" \in Lock
      /\ "battle" # "channel"
  BY DEF IInv, DepthInv, Lock
<1>3. /\ Depth(held, "battle", t) = IF t \in Answerers THEN 2 ELSE 1
      /\ Depth(held, "channel", t) = 1
      /\ Depth(held, "members", t) = 0
  BY <1>1, Roles DEF IInv, DepthInv, BattleDepth, ChannelDepth, MembersDepth
<1>4. /\ WellKept(h)
      /\ Depth(h, "battle", t) = Depth(held, "battle", t) - 1
      /\ \A u \in Thread, l \in Lock : u # t \/ l # "battle" =>
                Depth(h, l, u) = Depth(held, l, u)
  BY <1>1, <1>2, <1>3, DroppedDepth
<1>. HIDE DEF h
<1>5. /\ WellKept(k)
      /\ Depth(k, "channel", t) = 0
      /\ \A u \in Thread, l \in Lock : u # t \/ l # "channel" =>
                Depth(k, l, u) = Depth(h, l, u)
  BY <1>1, <1>2, <1>3, <1>4, DroppedDepth
<1>. HIDE DEF k
<1>6. Depth(k, "battle", t) = IF t \in Answerers THEN 1 ELSE 0
  BY <1>1, <1>2, <1>3, <1>4, <1>5
<1>7. /\ WellKept(held')
      /\ Depth(held', "battle", t) = 0
      /\ \A u \in Thread, l \in Lock : u # t \/ l # "battle" =>
                Depth(held', l, u) = Depth(k, l, u)
  BY <1>1, <1>5, <1>6, BelowDepth
<1>8. /\ Depth(held', "channel", t) = 0
      /\ Depth(held', "members", t) = 0
      /\ \A u \in Thread \ {t}, l \in Lock :
                Depth(held', l, u) = Depth(held, l, u)
  BY <1>1, <1>2, <1>3, <1>4, <1>5, <1>7
<1>9. /\ BattleDepth(t)' = 0
      /\ ChannelDepth(t)' = 0
      /\ MembersDepth(t)' = 0
  BY <1>1, Roles DEF IInv, TypeOK, BattleDepth, ChannelDepth, MembersDepth
<1>10. DepthInv'
  BY <1>1, <1>7, <1>8, <1>9, DepthStep DEF IInv
<1>11. TypeOK'
  BY <1>1, <1>7 DEF IInv, TypeOK, WellKept, Unwind
<1>12. "release" \in Place(t) \ {"destroy"} /\ "release" \notin Guarding
  BY <1>1, Roles DEF Place, Guarding
<1>. QED  BY <1>1, <1>10, <1>11, <1>12, StepInv DEF Unwind

-----------------------------------------------------------------------------
(* A spectator joins.                                                      *)

(* He takes the channel, and then the membership...                        *)
LEMMA JoinInv ==
    ASSUME IInv, NEW t \in Joiners, Join(t) \/ Enter(t)
    PROVE  IInv'
<1>1. t \in Thread /\ t # Queue /\ t \notin Answerers /\ t \notin Leavers
  BY Roles
<1>2. ASSUME NEW l \in Lock, NEW f, NEW q \in Place(t) \ {"destroy"},
             Go(t, f, q), held' = Taken(held, l, t), Free(l, t),
             \/ l = "channel" /\ f = "idle" /\ q = "enter"
             \/ l = "members" /\ f = "enter" /\ q = "handleJoin"
      PROVE  IInv'
  <2>1. pc[t] = f /\ pc' = [pc EXCEPT ![t] = q] /\ WellKept(held)
    BY <1>2 DEF Go, IInv, DepthInv
  <2>2. /\ WellKept(held')
        /\ Depth(held', l, t) = Depth(held, l, t) + 1
        /\ \A u \in Thread, k \in Lock : u # t \/ k # l =>
                Depth(held', k, u) = Depth(held, k, u)
    BY <1>1, <1>2, <2>1, TakenDepth DEF Free
  <2>3. /\ Depth(held', "battle", t) = BattleDepth(t)'
        /\ Depth(held', "channel", t) = ChannelDepth(t)'
        /\ Depth(held', "members", t) = MembersDepth(t)'
    BY <1>1, <1>2, <2>1, <2>2 DEF IInv, TypeOK, DepthInv, BattleDepth,
       ChannelDepth, MembersDepth, Lock
  <2>4. DepthInv'
    BY <1>1, <2>1, <2>2, <2>3, DepthStep DEF IInv
  <2>5. TypeOK'
    BY <1>1, <1>2, <2>1, <2>2 DEF IInv, TypeOK, WellKept, Join, Enter
  <2>6. ~terminated
    <3>1. pc'[t] = q
      BY <1>1, <2>1 DEF IInv, TypeOK
    <3>2. CASE Enter(t)
      BY <1>1, <3>2 DEF Enter, Go, IInv, EndInv, Guarding
    <3>3. CASE Join(t)
      <4>1. q # "done"
        BY <1>2
      <4>2. Go(t, "idle", "done") => pc'[t] = "done"
        BY <1>1 DEF Go, IInv, TypeOK
      <4>. QED  BY <3>1, <3>3, <4>1, <4>2 DEF Join
    <3>. QED  BY <3>2, <3>3
  <2>7. q \notin Holding(t)
    BY <1>1, Roles DEF Holding
  <2>. QED  BY <1>1, <2>1, <2>4, <2>5, <2>6, <2>7, StepInv DEF Join, Enter
<1>3. CASE terminated /\ Go(t, "idle", "done") /\ UNCHANGED held /\ Join(t)
  <2>1. pc[t] = "idle" /\ pc' = [pc EXCEPT ![t] = "done"]
    BY <1>3 DEF Go
  <2>2. /\ BattleDepth(t)' = BattleDepth(t)
        /\ ChannelDepth(t)' = ChannelDepth(t)
        /\ MembersDepth(t)' = MembersDepth(t)
    BY <1>1, <2>1 DEF IInv, TypeOK, BattleDepth, ChannelDepth, MembersDepth
  <2>3. TypeOK'
    BY <1>3, <2>1 DEF IInv, TypeOK, Join
  <2>4. /\ "done" \in Place(t) \ {"destroy"}
        /\ "done" \notin Guarding
        /\ "done" \notin Holding(t)
    BY <1>1, Roles DEF Place, Guarding, Holding
  <2>. QED  BY <1>1, <1>3, <2>2, <2>3, <2>4, QuietInv DEF Join
<1>4. /\ "enter" \in Place(t) \ {"destroy"}
      /\ "handleJoin" \in Place(t) \ {"destroy"}
      /\ "channel" \in Lock /\ "members" \in Lock
  BY <1>1, Roles DEF Place, Lock
<1>5. CASE Enter(t)
  BY <1>2, <1>4, <1>5 DEF Enter
<1>6. CASE Join(t)
  BY <1>2, <1>3, <1>4, <1>6 DEF Join
<1>. QED  BY <1>5, <1>6

(* ... and gives both back.                                                *)
LEMMA JoinedInv ==
    ASSUME IInv, NEW t \in Joiners, HandleJoin(t) \/ PrepareSpectator(t)
    PROVE  IInv'
<1>1. t \in Thread /\ t # Queue /\ t \notin Answerers /\ t \notin Leavers
  BY Roles
<1>2. ASSUME NEW l \in Lock, NEW f, NEW q \in Place(t) \ {"destroy"},
             Go(t, f, q), held' = Dropped(held, l),
             \/ l = "members" /\ f = "handleJoin" /\ q = "prepare"
             \/ l = "channel" /\ f = "prepare" /\ q = "done"
      PROVE  IInv'
  <2>1. pc[t] = f /\ pc' = [pc EXCEPT ![t] = q] /\ WellKept(held)
    BY <1>2 DEF Go, IInv, DepthInv
  <2>2. Depth(held, l, t) = 1
    BY <1>1, <1>2, <2>1 DEF IInv, DepthInv, ChannelDepth, MembersDepth
  <2>3. /\ WellKept(held')
        /\ Depth(held', l, t) = 0
        /\ \A u \in Thread, k \in Lock : u # t \/ k # l =>
                Depth(held', k, u) = Depth(held, k, u)
    BY <1>1, <1>2, <2>1, <2>2, DroppedDepth
  <2>4. /\ Depth(held', "battle", t) = BattleDepth(t)'
        /\ Depth(held', "channel", t) = ChannelDepth(t)'
        /\ Depth(held', "members", t) = MembersDepth(t)'
    BY <1>1, <1>2, <2>1, <2>3 DEF IInv, TypeOK, DepthInv, BattleDepth,
       ChannelDepth, MembersDepth, Lock
  <2>5. DepthInv'
    BY <1>1, <2>1, <2>3, <2>4, DepthStep DEF IInv
  <2>6. TypeOK'
    BY <1>1, <1>2, <2>1, <2>3 DEF IInv, TypeOK, WellKept, HandleJoin,
       PrepareSpectator
  <2>7. ~terminated
    BY <1>1, <1>2, <2>1 DEF IInv, EndInv, Guarding
  <2>8. q \notin Holding(t)
    BY <1>1, Roles DEF Holding
  <2>. QED  BY <1>1, <2>1, <2>5, <2>6, <2>7, <2>8, StepInv
            DEF HandleJoin, PrepareSpectator
<1>3. /\ "prepare" \in Place(t) \ {"destroy"}
      /\ "done" \in Place(t) \ {"destroy"}
      /\ "channel" \in Lock /\ "members" \in Lock
  BY <1>1, Roles DEF Place, Lock
<1>4. CASE HandleJoin(t)
  BY <1>2, <1>3, <1>4 DEF HandleJoin
<1>5. CASE PrepareSpectator(t)
  BY <1>2, <1>3, <1>5 DEF PrepareSpectator
<1>. QED  BY <1>4, <1>5

-----------------------------------------------------------------------------
(* The theorems.                                                           *)

(* Every step keeps the invariant.                                         *)
LEMMA NextInv == IInv /\ [Next]_vars => IInv'
<1>. SUFFICES ASSUME IInv, [Next]_vars PROVE IInv'
  OBVIOUS
<1>1. CASE QueueStep
  <2>1. Queue \in Thread /\ Queue \notin Joiners
    BY Roles
  <2>. QED  BY <1>1, <2>1, StartTurnInv, LockTurnInv, AskSelectionInv,
            ResumeInv, WinInv, EndTurnInv, TerminateInv, ReleaseInv,
            DestroyInv DEF QueueStep
<1>2. ASSUME NEW t \in Answerers, GetBattle(t) \/ AnswerStep(t)
      PROVE  IInv'
  BY <1>2, GetBattleInv, AnswerInv, TurnExpiresInv DEF AnswerStep
<1>3. ASSUME NEW t \in Leavers, BeginLeave(t)
      PROVE  IInv'
  BY <1>3, BeginLeaveInv
<1>4. ASSUME NEW t \in Answerers \cup Leavers, LeaveStep(t)
      PROVE  IInv'
  <2>1. t \in Thread /\ t \notin Joiners
    BY Roles
  <2>. QED  BY <1>4, <2>1, PartInv, HandlePartInv, LockBothInv,
            PickForWaitingInv, WakeForfeitInv, ConcedeInv, TerminateInv,
            UnwindInv, ReleaseInv, DestroyInv DEF LeaveStep
<1>5. ASSUME NEW t \in Joiners, Join(t) \/ JoinStep(t)
      PROVE  IInv'
  BY <1>5, JoinInv, JoinedInv DEF JoinStep
<1>6. CASE UNCHANGED vars
  BY <1>6 DEF vars, IInv, TypeOK, PlaceInv, Place, DepthInv, EndInv, RefInv,
     BattleDepth, ChannelDepth, MembersDepth
<1>. QED  BY <1>1, <1>2, <1>3, <1>4, <1>5, <1>6 DEF Next

(* The invariant holds in every state of every battle.                     *)
THEOREM InvariantHolds == Spec => []IInv
BY InitInv, NextInv, PTL DEF Spec

(* The variables keep their types.                                         *)
THEOREM TypeCorrect == Spec => []TypeOK
<1>1. IInv => TypeOK
  BY DEF IInv
<1>. QED  BY <1>1, InvariantHolds, PTL

(* Whatever the path out of a handler, every mutex is given back as often  *)
(* as it was taken (NetworkBattle.cpp's handlePart, handleForfeit,         *)
(* terminate, handleTurn and executeTurn, Channel.cpp's join and part).    *)
THEOREM LocksAreBalanced == Spec => []LocksBalanced
<1>1. IInv => LocksBalanced
  <2>. SUFFICES ASSUME IInv PROVE LocksBalanced
    OBVIOUS
  <2>1. \A l \in Lock : held[l].depth = 0 <=> held[l].by = Nobody
    BY DEF IInv, DepthInv, WellKept
  <2>2. ASSUME NEW t \in Thread
        PROVE  /\ BattleDepth(t) = IF Owns("battle", t)
                                   THEN held["battle"].depth ELSE 0
               /\ Owns("channel", t) <=> ChannelDepth(t) = 1
               /\ Owns("members", t) <=> MembersDepth(t) = 1
    <3>1. /\ Depth(held, "battle", t) = BattleDepth(t)
          /\ Depth(held, "channel", t) = ChannelDepth(t)
          /\ Depth(held, "members", t) = MembersDepth(t)
      BY DEF IInv, DepthInv
    <3>2. /\ Owns("channel", t) => held["channel"].depth # 0
          /\ Owns("members", t) => held["members"].depth # 0
      BY <2>1, Roles DEF Owns, Lock
    <3>. QED  BY <3>1, <3>2 DEF Depth, Owns, ChannelDepth, MembersDepth
  <2>3. ASSUME NEW t \in Thread
        PROVE  /\ ChannelDepth(t) = 1 <=>
                    \/ pc[t] \in {"forfeit", "forfeitWait", "enter",
                                  "handleJoin", "prepare"}
                    \/ t # Queue /\ pc[t] \in {"victory", "unwind"}
               /\ MembersDepth(t) = 1 <=> pc[t] = "handleJoin"
    BY DEF ChannelDepth, MembersDepth
  <2>4. ASSUME NEW t \in Thread
        PROVE  /\ BattleDepth(t) = IF Owns("battle", t)
                                   THEN held["battle"].depth ELSE 0
               /\ Owns("channel", t) <=>
                    \/ pc[t] \in {"forfeit", "forfeitWait", "enter",
                                  "handleJoin", "prepare"}
                    \/ t # Queue /\ pc[t] \in {"victory", "unwind"}
               /\ Owns("members", t) <=> pc[t] = "handleJoin"
    BY <2>2, <2>3
  <2>. QED  BY <2>1, <2>4 DEF LocksBalanced
<1>. QED  BY <1>1, InvariantHolds, PTL

(* A battle's end is announced once, although the queue thread and every   *)
(* player who leaves may try (informVictory, handleForfeit).               *)
THEOREM OneEnd == Spec => []EndsOnce
<1>1. IInv => EndsOnce
  <2>. SUFFICES ASSUME IInv, NEW t \in Thread, pc[t] = "victory",
                       NEW u \in Thread, pc[u] = "victory"
                PROVE  ~terminated /\ u = t
    BY DEF EndsOnce
  <2>1. ~terminated
    BY DEF IInv, EndInv, Guarding
  <2>2. ASSUME NEW v \in Thread, pc[v] = "victory"
        PROVE  held["battle"].by = v
    <3>1. Depth(held, "battle", v) = BattleDepth(v) /\ BattleDepth(v) # 0
      BY <2>2 DEF IInv, DepthInv, BattleDepth
    <3>. QED  BY <3>1 DEF Depth
  <2>. QED  BY <2>1, <2>2
<1>. QED  BY <1>1, InvariantHolds, PTL

(* When the last reference is dropped, nobody is inside the battle, nor    *)
(* comes to be (shared_from_this in executeTurn, the references taken by   *)
(* handleBattleAction and handlePart, ~NetworkBattleImpl).                 *)
THEOREM NothingUsedAfterDestruction == Spec => []AliveWhileUsed
<1>1. IInv => AliveWhileUsed
  <2>. SUFFICES ASSUME IInv, destroyed, NEW t \in Thread
                PROVE  \/ pc[t] \in {"idle", "done"}
                       \/ t \in Leavers /\ pc[t] \in {"part", "handlePart"}
    BY DEF AliveWhileUsed
  <2>1. /\ pc[t] \notin Holding(t) /\ pc[t] # "destroy"
        /\ terminated
        /\ pc[Queue] \in {"idle", "done"}
    BY DEF IInv, RefInv
  <2>2. pc[t] \in Place(t) /\ pc[t] \notin Guarding
    BY <2>1 DEF IInv, PlaceInv, EndInv
  <2>. QED  BY <2>1, <2>2, Roles DEF Place, Holding, Guarding, Leaving
<1>. QED  BY <1>1, InvariantHolds, PTL

-----------------------------------------------------------------------------
(* Waiting in a circle.                                                    *)

(* Who owns the channel owns the battle as well, unless it joins or, in    *)
(* handleForfeit, waits for a suspended turn; the membership belongs to    *)
(* joiners only.                                                           *)
Unordered(t) == t \in Joiners \/ pc[t] = "forfeitWait"
LEMMA LockOrder ==
    ASSUME IInv, NEW u \in Thread, ~Unordered(u)
    PROVE  /\ ~Owns("members", u)
           /\ Owns("channel", u) => Owns("battle", u)
           /\ Owns("channel", u) => u # Queue
           /\ Owns("battle", u) =>
                  pc[u] \in {"turn", "faulted", "victory", "unwind", "part",
                             "handlePart", "lockBoth", "forfeit"}
<1>1. /\ Depth(held, "battle", u) = BattleDepth(u)
      /\ Depth(held, "channel", u) = ChannelDepth(u)
      /\ Depth(held, "members", u) = MembersDepth(u)
      /\ "battle" \in Lock /\ "channel" \in Lock /\ "members" \in Lock
      /\ WellKept(held)
  BY DEF IInv, DepthInv, Lock
<1>2. \A l \in Lock : /\ Depth(held, l, u) > 0 => Owns(l, u)
                      /\ Owns(l, u) => Depth(held, l, u) > 0
  BY <1>1, Roles DEF Depth, Owns, WellKept
<1>3. pc[u] \in Place(u) /\ u \notin Joiners /\ pc[u] # "forfeitWait"
  BY DEF IInv, PlaceInv, Unordered
<1>4. pc[u] \notin {"enter", "handleJoin", "prepare"}
  BY <1>3, Roles DEF Place, Leaving
<1>5. MembersDepth(u) = 0
  BY <1>4 DEF MembersDepth
<1>6. ChannelDepth(u) > 0 => BattleDepth(u) > 0 /\ u # Queue
  BY <1>3, <1>4, Roles DEF ChannelDepth, BattleDepth, Place
<1>7. BattleDepth(u) > 0 =>
          pc[u] \in {"turn", "faulted", "victory", "unwind", "part",
                     "handlePart", "lockBoth", "forfeit"}
  BY <1>3 DEF BattleDepth
<1>. QED  BY <1>1, <1>2, <1>5, <1>6, <1>7

(* Two threads do not own the same mutex.                                  *)
LEMMA OneOwner ==
    ASSUME NEW l, NEW t, NEW u, Owns(l, t), Owns(l, u)
    PROVE  t = u
BY DEF Owns

(* A circle of waiting threads has one in it that joins, with the channel  *)
(* taken before the battle, or one that keeps the channel while it waits   *)
(* in handleForfeit: terminate and handlePart, which take both mutexes at  *)
(* once, cannot close a circle (NetworkBattle.cpp:962, 981).               *)
CirclesAreUnordered ==
    \A S \in SUBSET Thread :
        /\ S # {}
        /\ \A t \in S : \E u \in S : WaitsFor(t, u)
        => \E t \in S : Unordered(t)

LEMMA OrderedCircles == IInv => CirclesAreUnordered
<1>. SUFFICES ASSUME IInv, NEW S \in SUBSET Thread, S # {},
                     \A t \in S : \E u \in S : WaitsFor(t, u),
                     \A t \in S : ~Unordered(t)
              PROVE  FALSE
  BY DEF CirclesAreUnordered
<1>1. \A u \in S : /\ ~Owns("members", u)
                   /\ Owns("channel", u) => Owns("battle", u)
                   /\ Owns("battle", u) =>
                        pc[u] \in {"turn", "faulted", "victory", "unwind",
                                   "part", "handlePart", "lockBoth",
                                   "forfeit"}
                   /\ pc[u] # "forfeitWait" /\ u \notin Joiners
  BY LockOrder DEF Unordered
<1>2. \A t \in S : Wants(t) \subseteq Lock
  BY DEF Wants, Lock
<1>3. ASSUME NEW t \in S, Owns("battle", t)
      PROVE  Wants(t) \subseteq {"channel", "battle", "members"}
             /\ ("channel" \in Wants(t) \/ "battle" \in Wants(t) =>
                    pc[t] \in {"handlePart", "lockBoth", "victory"})
  BY <1>1, <1>3 DEF Wants
<1>4. ASSUME NEW t \in S, Owns("battle", t)
      PROVE  FALSE
  <2>1. PICK u \in S : u # t /\ \E l \in Wants(t) : Owns(l, u)
    BY DEF WaitsFor
  <2>2. PICK l \in Wants(t) : Owns(l, u)
    BY <2>1
  <2>3. l \in {"channel", "battle"}
    BY <1>1, <1>3, <1>4, <2>2
  <2>4. Owns("battle", u)
    BY <1>1, <2>2, <2>3
  <2>. QED  BY <1>4, <2>1, <2>4, OneOwner
<1>5. PICK t \in S : TRUE
  OBVIOUS
<1>6. PICK u \in S : \E l \in Wants(t) : Owns(l, u)
  BY DEF WaitsFor
<1>7. Owns("battle", u)
  BY <1>1, <1>2, <1>6 DEF Lock
<1>. QED  BY <1>4, <1>7

(* Whoever plays, watches, is asked for a Pokemon or runs out of time: a   *)
(* circle needs a spectator who joins or a forfeit that waits for a        *)
(* suspended turn.                                                         *)
THEOREM CirclesNeedJoinOrWait == Spec => []CirclesAreUnordered
BY InvariantHolds, OrderedCircles, PTL

(* No turn is suspended where moves ask for no Pokemon, so that no forfeit *)
(* has one to wait for.                                                    *)
Unasked ==
    /\ ~waiting
    /\ \A t \in Thread : pc[t] # "forfeitWait"

LEMMA NeverAsked ==
    ASSUME ~Selections
    PROVE  IInv /\ Unasked /\ [Next]_vars => Unasked'
<1>. SUFFICES ASSUME IInv, Unasked, [Next]_vars PROVE Unasked'
  OBVIOUS
<1>1. pc \in [Thread -> {"idle", "entered", "turn", "select", "faulted",
                          "thrown", "handleTurn", "notify", "part",
                          "handlePart", "lockBoth", "forfeit", "forfeitWait",
                          "victory", "unwind", "release", "destroy", "enter",
                          "handleJoin", "prepare", "done"}]
  BY DEF IInv, TypeOK
<1>2. ASSUME NEW t, NEW q, pc' = [pc EXCEPT ![t] = q], q # "forfeitWait"
      PROVE  \A u \in Thread : pc'[u] # "forfeitWait"
  BY <1>1, <1>2 DEF Unasked
<1>3. ASSUME NEW t, NEW f, NEW q, Go(t, f, q), q # "forfeitWait"
      PROVE  \A u \in Thread : pc'[u] # "forfeitWait"
  BY <1>2, <1>3 DEF Go
<1>4. CASE QueueStep
  <2>1. ASSUME StartTurn \/ LockTurn \/ Win \/ EndTurn \/ EndBattle
        PROVE  Unasked'
    BY <1>3, <2>1 DEF StartTurn, LockTurn, Win, EndTurn, EndBattle, Unasked
  <2>2. ASSUME Resume
        PROVE  Unasked'
    BY <1>2, <2>2 DEF Resume, Unasked
  <2>3. ~AskSelection
    BY DEF AskSelection
  <2>4. ASSUME Terminate(Queue) \/ Destroy(Queue)
        PROVE  Unasked'
    BY <1>3, <2>4 DEF Terminate, Destroy, Unasked
  <2>5. ASSUME Release(Queue)
        PROVE  Unasked'
    BY <1>2, <2>5 DEF Release, Unasked
  <2>. QED  BY <1>4, <2>1, <2>2, <2>3, <2>4, <2>5 DEF QueueStep
<1>5. ASSUME NEW t \in Answerers, GetBattle(t) \/ AnswerStep(t)
      PROVE  Unasked'
  BY <1>3, <1>5 DEF GetBattle, AnswerStep, TurnIgnored, TurnPosted,
     TurnSelects, TurnExpires, Notify, Unasked
<1>6. ASSUME NEW t \in Leavers, BeginLeave(t)
      PROVE  Unasked'
  BY <1>3, <1>6 DEF BeginLeave, Unasked
<1>7. ASSUME NEW t \in Answerers \cup Leavers, LeaveStep(t)
      PROVE  Unasked'
  <2>1. ASSUME NEW p \in Players, Part(t, p)
        PROVE  Unasked'
    BY <1>3, <2>1 DEF Part, Unasked
  <2>2. ASSUME HandlePart(t) \/ LockBoth(t)
        PROVE  Unasked'
    BY <1>3, <2>2 DEF HandlePart, LockBoth, Unasked
  <2>3. ~PickForWaiting(t)
    BY DEF PickForWaiting, Unasked
  <2>4. ~WakeForfeit(t)
    BY <1>7, Roles DEF WakeForfeit, Unasked
  <2>5. ASSUME Concede(t) \/ Unwind(t) \/ Terminate(t) \/ Destroy(t)
        PROVE  Unasked'
    BY <1>3, <2>5 DEF Concede, Unwind, Terminate, Destroy, Unasked
  <2>6. ASSUME Release(t)
        PROVE  Unasked'
    BY <1>2, <2>6 DEF Release, Unasked
  <2>. QED  BY <1>7, <2>1, <2>2, <2>3, <2>4, <2>5, <2>6 DEF LeaveStep
<1>8. ASSUME NEW t \in Joiners, Join(t) \/ JoinStep(t)
      PROVE  Unasked'
  BY <1>3, <1>8 DEF Join, JoinStep, Enter, HandleJoin, PrepareSpectator,
     Unasked
<1>9. CASE UNCHANGED vars
  BY <1>9 DEF vars, Unasked
<1>. QED  BY <1>4, <1>5, <1>6, <1>7, <1>8, <1>9 DEF Next

(* Without spectators and without moves that ask for a Pokemon, with a     *)
(* timer or not, the threads of a battle never wait for each other in a    *)
(* circle, however many players leave and whenever they do.                *)
THEOREM NoCircles ==
    ASSUME Spectators = {}, ~Selections
    PROVE  Spec => []NoCircularWait
<1>1. Init => Unasked
  BY DEF Init, Unasked
<1>2. IInv /\ Unasked /\ [Next]_vars => Unasked'
  BY NeverAsked
<1>3. IInv /\ Unasked => NoCircularWait
  <2>. SUFFICES ASSUME IInv, Unasked, NEW S \in SUBSET Thread, S # {},
                       \A t \in S : \E u \in S : WaitsFor(t, u)
                PROVE  FALSE
    BY DEF NoCircularWait
  <2>1. PICK t \in S : Unordered(t)
    BY OrderedCircles DEF CirclesAreUnordered
  <2>2. Joiners = {}
    BY DEF Joiners
  <2>. QED  BY <2>1, <2>2 DEF Unordered, Unasked
<1>. QED  BY <1>1, <1>2, <1>3, InvariantHolds, PTL DEF Spec

=============================================================================
