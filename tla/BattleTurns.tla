---------------------------- MODULE BattleTurns ----------------------------
(***************************************************************************)
(* How a battle collects the actions of its two players and executes them: *)
(* NetworkBattleImpl's request and turn lists (src/network/NetworkBattle)  *)
(* over the part of the field that decides who is asked for what           *)
(* (src/shoddybattle/BattleField): who is in which slot and who fainted.   *)
(*                                                                         *)
(* Every handler runs under the battle mutex, which the queue thread holds *)
(* for the whole of executeTurn and gives up only while it waits for the   *)
(* choice of an inactive Pokemon.  So a handler is one action, enabled     *)
(* when "stage" says that the queue thread is not inside a turn; a turn is *)
(* a series of actions between which no handler is enabled.  The mutexes   *)
(* themselves are the subject of module BattleLocks.                       *)
(*                                                                         *)
(* What a move does is abstracted to what the protocol can tell apart: who *)
(* faints, who is replaced, and whether the mover asks for an inactive     *)
(* Pokemon.                                                                *)
(*                                                                         *)
(* Definitions named Mutant... are wrong versions of the one that follows; *)
(* they are not used: they are there to see the properties fail.           *)
(***************************************************************************)
EXTENDS Integers, Sequences, FiniteSets

CONSTANTS
    PartySize,  \* slots of a party (m_partySize)
    TeamSize    \* TeamSize[p]: Pokemon on the team of party p

Party == 0 .. 1         \* TEAM_COUNT = 2
Slot == 0 .. PartySize - 1
Mon(p) == 0 .. TeamSize[p] - 1

ASSUME SizesAssumption ==
    /\ PartySize \in Nat \ {0}
    /\ TeamSize \in [Party -> Nat \ {0}]

NoMon == -1             \* an empty slot
NoParty == -1
NoSelection == [party |-> NoParty, mon |-> NoMon]
NoUser == [party |-> NoParty, mon |-> NoMon, type |-> "move", id |-> 0]

VARIABLES
    active,       \* active[p][s]: the Pokemon in slot s of party p, or NoMon
    fainted,      \* fainted[p]: the fainted Pokemon of party p
    requests,     \* m_requests[p]: the slots party p is asked about, in order
    turns,        \* m_turns[p]: its answers so far
    replacement,  \* m_replacement
    waiting,      \* m_waiting: the turn waits for the choice of a Pokemon
    selection,    \* m_selection: who waits, then who was chosen
    victory,      \* m_victory
    terminated,   \* m_terminated
    queue,        \* m_queue: turns posted to the queue thread
    stage,        \* where the queue thread is
    pending,      \* actions of the executing turn not executed yet
    user,         \* the Pokemon in whose move the turn is suspended
    forfeit       \* the party whose forfeit waits for the turn to end

vars == <<active, fainted, requests, turns, replacement, waiting, selection,
          victory, terminated, queue, stage, pending, user, forfeit>>
field == <<active, fainted>>

Turn == [type : {"move", "switch"}, id : Nat, by : Nat \cup {NoMon}]
Action == [party : Party, mon : Nat, type : {"move", "switch"}, id : Nat]
Stage == {"idle",       \* waiting for a posted turn
          "turn",       \* in processTurn
          "replace",    \* in processReplacements
          "select",     \* suspended in requestInactivePokemon
          "blocked",    \* in terminate, behind the channel mutex of a forfeit
          "thrown",     \* a BattleFieldException left executeTurn
          "faulted"}    \* a turn went on after its field was reset

-----------------------------------------------------------------------------
(* The field: BattleField.cpp.                                             *)

Alive(p) == Mon(p) \ fainted[p]
OnField(p) == {active[p][s] : s \in Slot} \ {NoMon}
Reserve(p) == Alive(p) \ OnField(p)
ActiveSlots(p) == {s \in Slot : active[p][s] \in Alive(p)}
FaintedSlots(p) == {s \in Slot : active[p][s] \in fainted[p]}

(* getFaintedPokemon: as many fainted slots, from the first, as the party  *)
(* has reserves.                                                           *)
ToReplace(p) ==
    {s \in FaintedSlots(p) :
        Cardinality({t \in FaintedSlots(p) : t < s}) < Cardinality(Reserve(p))}

(* The loops over the slots visit a set of slots in increasing order.      *)
InSlotOrder(S) ==
    [i \in 1 .. Cardinality(S) |->
        CHOOSE s \in S : Cardinality({t \in S : t < s}) = i - 1]

(* The Pokemon processTurn or processReplacements pairs with the turns of  *)
(* a batch, position by position: party 0 by slot, then party 1.           *)
PokemonOf(p, S) ==
    [i \in 1 .. Cardinality(S) |->
        [party |-> p, mon |-> active[p][InSlotOrder(S)[i]]]]
InTurn ==
    LET S(p) == IF replacement THEN ToReplace(p) ELSE ActiveSlots(p)
    IN  PokemonOf(0, S(0)) \o PokemonOf(1, S(1))

AllFainted(p) == Alive(p) = {}

-----------------------------------------------------------------------------
(* Collecting the turns of a round: NetworkBattle.cpp.                     *)

(* The mutex is free: no turn runs, or the turn is suspended.              *)
Unlocked == stage \in {"idle", "select"}

(* isTurnLegal.  Whether a Pokemon that is not being replaced may switch   *)
(* (isSwitchLegal) and whether its move and target are legal depend on the *)
(* moves and statuses, which are abstracted: such a turn may be refused,   *)
(* and a refused turn changes nothing, it only repeats the request.        *)
TurnLegal(p, t) ==
    IF t.type = "switch" THEN t.id \in Reserve(p) ELSE ~replacement

(* The double choice of a Pokemon is not refused.                          *)
MutantAlreadyChosen(p, t) == FALSE

AlreadyChosen(p, t) ==
    /\ t.type = "switch"
    /\ \E i \in 1 .. Len(turns[p]) :
            turns[p][i].type = "switch" /\ turns[p][i].id = t.id

(* One complete party is enough to post the turn.                          *)
MutantPostEarly(ts) ==
    IF \E p \in Party : Len(requests[p]) = Len(ts[p])
    THEN /\ queue' = Append(queue, ts[0] \o ts[1])
         /\ turns' = [p \in Party |-> <<>>]
         /\ requests' = [p \in Party |-> <<>>]
    ELSE /\ turns' = ts
         /\ UNCHANGED <<queue, requests>>

(* maybeExecuteTurn on the turn lists ts.                                  *)
MaybeExecuteTurn(ts) ==
    IF \A p \in Party : Len(requests[p]) = Len(ts[p])
    THEN /\ queue' = Append(queue, ts[0] \o ts[1])
         /\ turns' = [p \in Party |-> <<>>]
         /\ requests' = [p \in Party |-> <<>>]
    ELSE /\ turns' = ts
         /\ UNCHANGED <<queue, requests>>

(* handleTurn: a client of party p answers its next request with t.        *)
HandleTurn(p, t) ==
    /\ Unlocked
    /\ ~terminated
    /\ Len(turns[p]) # Len(requests[p])
    /\ TurnLegal(p, t)
    /\ ~AlreadyChosen(p, t)
    /\ LET slot == requests[p][Len(turns[p]) + 1]
           answer == [type |-> t.type, id |-> t.id, by |-> active[p][slot]]
           answered == [turns EXCEPT ![p] = Append(@, answer)]
       IN  \/ /\ Len(answered[p]) < Len(requests[p])
              /\ turns' = answered
              /\ UNCHANGED <<queue, requests, waiting, selection>>
           \/ /\ Len(answered[p]) = Len(requests[p])
              /\ waiting
              /\ waiting' = FALSE
              /\ selection' = [party |-> p, mon |-> t.id]
              /\ turns' = [turns EXCEPT ![p] = <<>>]
              /\ requests' = [requests EXCEPT ![p] = <<>>]
              /\ UNCHANGED queue
           \/ /\ Len(answered[p]) = Len(requests[p])
              /\ ~waiting
              /\ MaybeExecuteTurn(answered)
              /\ UNCHANGED <<waiting, selection>>
    /\ UNCHANGED <<field, replacement, victory, terminated, stage, pending,
                   user, forfeit>>

(* handleCancelTurn: take back the last answer unless all are in.          *)
HandleCancelTurn(p) ==
    /\ Unlocked
    /\ ~terminated
    /\ Len(requests[p]) # Len(turns[p])
    /\ turns[p] # <<>>
    /\ turns' = [turns EXCEPT ![p] = SubSeq(@, 1, Len(@) - 1)]
    /\ UNCHANGED <<field, requests, replacement, waiting, selection, victory,
                   terminated, queue, stage, pending, user, forfeit>>

-----------------------------------------------------------------------------
(* Executing a turn on the queue thread.                                   *)

(* executeTurn, up to the first action.  A batch that does not fit the     *)
(* field makes processTurn or processReplacements throw.                   *)
ExecuteTurn ==
    /\ stage = "idle"
    /\ queue # <<>>
    /\ queue' = Tail(queue)
    /\ LET batch == Head(queue)
           fits == /\ Len(batch) = Len(InTurn)
                   /\ replacement => \A i \in 1 .. Len(batch) :
                                            batch[i].type = "switch"
       IN  \/ terminated /\ UNCHANGED <<stage, pending>>
           \/ ~terminated /\ ~fits /\ stage' = "thrown" /\ UNCHANGED pending
           \/ /\ ~terminated
              /\ fits
              /\ stage' = IF replacement THEN "replace" ELSE "turn"
              /\ pending' = {[party |-> InTurn[i].party, mon |-> InTurn[i].mon,
                              type |-> batch[i].type, id |-> batch[i].id] :
                                i \in 1 .. Len(batch)}
    /\ UNCHANGED <<field, requests, turns, replacement, waiting, selection,
                   victory, terminated, user, forfeit>>

(* sortInTurnOrder: switches come before moves, those of a party by the    *)
(* position of the Pokemon that leaves.  Priority, speed, the host's       *)
(* precedence and the coin flip are abstracted to any order.               *)
NextInOrder(a) ==
    /\ a \in pending
    /\ \A b \in pending \ {a} :
            /\ a.type = "move" => b.type = "move"
            /\ (b.type = "switch" /\ a.party = b.party) => a.mon < b.mon

(* Pokemon faint, some that were or are now on the field: by a move, an    *)
(* effect, an entry hazard, or a Pursuit that catches one leaving.         *)
SomeFaint ==
    \E f0 \in SUBSET (OnField(0) \cup OnField(0)'),
       f1 \in SUBSET (OnField(1) \cup OnField(1)') :
        fainted' = [p \in Party |-> fainted[p] \cup (IF p = 0 THEN f0 ELSE f1)]

(* withdrawPokemon and sendOutPokemon: Pokemon m of party p, which is      *)
(* active, makes room for Pokemon r of its team.                           *)
Replace(p, m, r) ==
    active' = [active EXCEPT ![p] =
                  [s \in Slot |-> IF active[p][s] = m THEN r ELSE active[p][s]]]

(* determineVictory found a winner: a team has nobody left, or the effect  *)
(* of a clause says so.  informVictory and terminate end the battle, unless *)
(* a forfeit in progress holds the channel mutex that terminate needs.     *)
Win ==
    /\ victory' = TRUE
    /\ pending' = {}
    /\ IF forfeit = NoParty
       THEN terminated' = TRUE /\ stage' = "idle"
       ELSE stage' = "blocked" /\ UNCHANGED terminated

GoOn(s, rest) ==
    /\ \A p \in Party : ~AllFainted(p)'
    /\ stage' = s
    /\ pending' = rest
    /\ UNCHANGED <<victory, terminated>>

(* Fainted Pokemon are asked about though nobody can replace them.         *)
MutantAskForFainted ==
    IF victory
    THEN UNCHANGED <<requests, replacement>>
    ELSE /\ replacement' = (\E p \in Party : FaintedSlots(p)' # {})
         /\ requests' = [p \in Party |->
                requests[p] \o InSlotOrder(IF replacement' THEN ToReplace(p)'
                                                         ELSE ActiveSlots(p)')]

(* The players are asked although the battle was given up.                 *)
MutantAskAfterVictory ==
    /\ replacement' = (\E p \in Party : ToReplace(p)' # {})
    /\ requests' = [p \in Party |->
            requests[p] \o InSlotOrder(IF replacement' THEN ToReplace(p)'
                                                     ELSE ActiveSlots(p)')]

(* The end of executeTurn: ask for replacements (requestReplacements), or, *)
(* if there are none to ask for, begin the next turn (requestMoves).       *)
AskNext ==
    IF victory
    THEN UNCHANGED <<requests, replacement>>
    ELSE /\ replacement' = (\E p \in Party : ToReplace(p)' # {})
         /\ requests' = [p \in Party |->
                requests[p] \o InSlotOrder(IF replacement' THEN ToReplace(p)'
                                                         ELSE ActiveSlots(p)')]

(* executePendingAction: an action is executed unless the Pokemon fainted  *)
(* or left the field before its turn came.                                 *)
CanAct(a) == a.mon \in OnField(a.party) /\ a.mon \notin fainted[a.party]

(* Only one who left the field is skipped.                                 *)
MutantSkipAction(a) ==
    /\ stage = "turn"
    /\ NextInOrder(a)
    /\ a.mon \notin OnField(a.party)
    /\ pending' = pending \ {a}
    /\ UNCHANGED <<field, requests, turns, replacement, waiting, selection,
                   victory, terminated, queue, stage, user, forfeit>>

SkipAction(a) ==
    /\ stage = "turn"
    /\ NextInOrder(a)
    /\ ~CanAct(a)
    /\ pending' = pending \ {a}
    /\ UNCHANGED <<field, requests, turns, replacement, waiting, selection,
                   victory, terminated, queue, stage, user, forfeit>>

(* executeSwitchAction from processTurn or processReplacements.            *)
SwitchAction(a) ==
    /\ \/ stage = "turn" /\ CanAct(a)
       \/ stage = "replace"
    /\ NextInOrder(a)
    /\ a.type = "switch"
    /\ Replace(a.party, a.mon, a.id)
    /\ SomeFaint
    /\ Win \/ GoOn(stage, pending \ {a})
    /\ UNCHANGED <<requests, turns, replacement, waiting, selection, queue,
                   user, forfeit>>

(* makeRandomSwitchMove: a Pokemon of a party is dragged out and one from   *)
(* the bench takes its place.                                              *)
DragOut ==
    \E p \in Party : \E m \in OnField(p) \cap Alive(p), r \in Reserve(p) :
        Replace(p, m, r)

(* executePendingMoveAction: a move, which may drag a Pokemon off the      *)
(* field (makeRandomSwitchMove).                                           *)
MoveAction(a) ==
    /\ stage = "turn"
    /\ NextInOrder(a)
    /\ CanAct(a)
    /\ a.type = "move"
    /\ UNCHANGED active \/ DragOut
    /\ SomeFaint
    /\ Win \/ GoOn("turn", pending \ {a})
    /\ UNCHANGED <<requests, turns, replacement, waiting, selection, queue,
                   user, forfeit>>

(* A move (U-turn, Baton Pass, Healing Wish) asks its user's player for an *)
(* inactive Pokemon: requestInactivePokemon, up to the wait.               *)
RequestInactivePokemon(a) ==
    /\ stage = "turn"
    /\ NextInOrder(a)
    /\ CanAct(a)
    /\ a.type = "move"
    /\ Reserve(a.party) # {}
    /\ UNCHANGED active
    /\ SomeFaint
    /\ a.mon \notin fainted'[a.party]
    /\ ~AllFainted(1 - a.party)'
    /\ selection' = [party |-> a.party, mon |-> a.mon]
    /\ waiting' = TRUE
    /\ replacement' = TRUE
    /\ requests' = [requests EXCEPT ![a.party] =
            Append(@, CHOOSE s \in Slot : active[a.party][s] = a.mon)]
    /\ user' = a
    /\ pending' = pending \ {a}
    /\ stage' = "select"
    /\ UNCHANGED <<turns, victory, terminated, queue, forfeit>>

(* The queue thread wakes up with the chosen Pokemon, which takes the      *)
(* user's slot.  If the battle was terminated under it, the field that the *)
(* script goes on to use is gone.                                          *)
ResumeTurn ==
    /\ stage = "select"
    /\ ~waiting
    /\ selection' = NoSelection
    /\ user' = NoUser
    /\ \/ /\ terminated
          /\ stage' = "faulted"
          /\ UNCHANGED <<field, victory, terminated, pending>>
       \/ /\ ~terminated
          /\ Replace(user.party, user.mon, selection.mon)
          /\ SomeFaint
          /\ Win \/ GoOn("turn", pending)
    /\ UNCHANGED <<requests, turns, replacement, waiting, queue, forfeit>>

(* The end of processTurn, tickEffects, and the end of executeTurn.        *)
EndTurn ==
    /\ stage = "turn"
    /\ pending = {}
    /\ UNCHANGED active
    /\ SomeFaint
    /\ \/ Win /\ UNCHANGED <<requests, replacement>>
       \/ GoOn("idle", {}) /\ AskNext
    /\ UNCHANGED <<turns, waiting, selection, queue, user, forfeit>>

EndReplacements ==
    /\ stage = "replace"
    /\ pending = {}
    /\ stage' = "idle"
    /\ UNCHANGED field
    /\ AskNext
    /\ UNCHANGED <<turns, waiting, selection, victory, terminated, queue,
                   pending, user, forfeit>>

-----------------------------------------------------------------------------
(* Leaving: BattleChannel::handlePart and handleForfeit.                   *)

(* The Pokemon is picked from the whole bench, the fainted included.       *)
MutantPickFainted ==
    /\ waiting
    /\ \E m \in Mon(selection.party) \ OnField(selection.party) :
            selection' = [party |-> selection.party, mon |-> m]
    /\ waiting' = FALSE
    /\ requests' = [requests EXCEPT ![selection.party] = <<>>]
    /\ turns' = [turns EXCEPT ![selection.party] = <<>>]

(* getRandomInactivePokemon answers for the player a turn waits for.       *)
PickForWaiting ==
    /\ waiting
    /\ \E m \in Reserve(selection.party) :
            selection' = [party |-> selection.party, mon |-> m]
    /\ waiting' = FALSE
    /\ requests' = [requests EXCEPT ![selection.party] = <<>>]
    /\ turns' = [turns EXCEPT ![selection.party] = <<>>]

(* A player leaves.  A suspended turn is first given a random Pokemon to   *)
(* go on with, and ended; otherwise the battle terminates at once.         *)
HandleForfeit(p) ==
    /\ Unlocked
    /\ ~terminated
    /\ forfeit = NoParty
    /\ victory' = TRUE
    /\ \/ /\ PickForWaiting
          /\ forfeit' = p
          /\ UNCHANGED terminated
       \/ /\ ~waiting
          /\ terminated' = TRUE
          /\ UNCHANGED <<requests, turns, waiting, selection, forfeit>>
    /\ UNCHANGED <<field, replacement, queue, stage, pending, user>>

(* The forfeiting thread gets the mutex back when the turn it let go on    *)
(* ends, or asks for another Pokemon.                                      *)
FinishForfeit ==
    /\ Unlocked
    /\ forfeit # NoParty
    /\ ~(selection # NoSelection /\ ~waiting)
    /\ \/ /\ PickForWaiting
          /\ UNCHANGED <<terminated, forfeit>>
       \/ /\ ~waiting
          /\ terminated' = TRUE
          /\ forfeit' = NoParty
          /\ UNCHANGED <<requests, turns, waiting, selection>>
    /\ UNCHANGED <<field, replacement, victory, queue, stage, pending, user>>

-----------------------------------------------------------------------------
(* The constructor and beginBattle: the first Pokemon of each team take    *)
(* the slots, and the first turn is asked for.                             *)
Init ==
    /\ active = [p \in Party |->
                    [s \in Slot |-> IF s < TeamSize[p] THEN s ELSE NoMon]]
    /\ fainted = [p \in Party |-> {}]
    /\ requests = [p \in Party |-> InSlotOrder(ActiveSlots(p))]
    /\ turns = [p \in Party |-> <<>>]
    /\ replacement = FALSE
    /\ waiting = FALSE
    /\ selection = NoSelection
    /\ victory = FALSE
    /\ terminated = FALSE
    /\ queue = <<>>
    /\ stage = "idle"
    /\ pending = {}
    /\ user = NoUser
    /\ forfeit = NoParty

(* What a client may send: any move, or a switch to a member of its team.  *)
Answers(p) ==
    [type : {"move"}, id : {0}] \cup [type : {"switch"}, id : Mon(p)]

Clients ==
    \E p \in Party :
        \/ \E t \in Answers(p) : HandleTurn(p, t)
        \/ HandleCancelTurn(p)
        \/ HandleForfeit(p)

QueueThread ==
    \/ ExecuteTurn
    \/ \E a \in pending :
            \/ SkipAction(a)
            \/ SwitchAction(a)
            \/ MoveAction(a)
            \/ RequestInactivePokemon(a)
    \/ ResumeTurn
    \/ EndTurn
    \/ EndReplacements

Next == Clients \/ QueueThread \/ FinishForfeit

Spec == Init /\ [][Next]_vars

-----------------------------------------------------------------------------
TypeOK ==
    /\ active \in [Party -> [Slot -> Nat \cup {NoMon}]]
    /\ fainted \in [Party -> SUBSET Nat]
    /\ requests \in [Party -> Seq(Slot)]
    /\ turns \in [Party -> Seq(Turn)]
    /\ replacement \in BOOLEAN
    /\ waiting \in BOOLEAN
    /\ selection \in [party : Party, mon : Nat] \cup {NoSelection}
    /\ victory \in BOOLEAN
    /\ terminated \in BOOLEAN
    /\ queue \in Seq(Seq(Turn))
    /\ stage \in Stage
    /\ pending \subseteq Action
    /\ user \in Action \cup {NoUser}
    /\ forfeit \in Party \cup {NoParty}

(* No turn is posted, none runs and the battle goes on: the players are    *)
(* being asked.                                                            *)
Collecting ==
    stage = "idle" /\ queue = <<>> /\ ~terminated /\ ~victory

Asked(p) == IF replacement THEN ToReplace(p) ELSE ActiveSlots(p)

(* While the players are asked, the request list of each party holds       *)
(* exactly the slots that processTurn or processReplacements will read,    *)
(* with nothing left over from an earlier round, a cancelled answer or a   *)
(* mid-turn selection; and each answer was checked for the Pokemon that    *)
(* will execute it (requestMoves and requestReplacements append to lists   *)
(* that only maybeExecuteTurn and handleTurn clear).                       *)
RequestsFitField ==
    Collecting =>
        \A p \in Party :
            /\ requests[p] = InSlotOrder(Asked(p))
            /\ Len(turns[p]) <= Len(requests[p])
            /\ \A i \in 1 .. Len(turns[p]) :
                    turns[p][i].by = active[p][requests[p][i]]

(* A posted batch is what executeTurn expects of it: it is the only one,   *)
(* nobody is asked while it waits, its turns are those of the Pokemon they *)
(* will be paired with, position by position, and a replacement is a       *)
(* switch.  So processTurn and processReplacements never throw.            *)
BatchFitsField ==
    /\ stage # "thrown"
    /\ (queue # <<>> /\ ~terminated) =>
        /\ stage = "idle"
        /\ Len(queue) = 1
        /\ \A p \in Party : requests[p] = <<>> /\ turns[p] = <<>>
        /\ Len(Head(queue)) = Len(InTurn)
        /\ \A i \in 1 .. Len(Head(queue)) :
                /\ Head(queue)[i].by = InTurn[i].mon
                /\ replacement => Head(queue)[i].type = "switch"

(* From the question to the execution the lists fit the field: what is     *)
(* asked, what was answered, and what is posted to the queue thread.       *)
FitsField == RequestsFitField /\ BatchFitsField

(* A switch, once accepted, can still be executed when its turn comes: the *)
(* Pokemon it sends out is on the bench and has not fainted, and no other  *)
(* accepted switch of the party sends out the same one.                    *)
SwitchTargetsFree ==
    ~terminated =>
    /\ \A p \in Party : \A i \in 1 .. Len(turns[p]) :
            turns[p][i].type = "switch" =>
                /\ turns[p][i].id \in Reserve(p)
                /\ \A j \in 1 .. i - 1 : turns[p][j].type = "switch"
                                        => turns[p][j].id # turns[p][i].id
    /\ \A a \in pending : a.type = "switch" =>
            /\ a.id \in Reserve(a.party)
            /\ \A b \in pending : (b # a /\ b.party = a.party
                                        /\ b.type = "switch") => b.id # a.id

(* No Pokemon is in two slots at once.                                     *)
OneSlotEach ==
    \A p \in Party : \A s, t \in Slot :
        (active[p][s] = active[p][t] /\ active[p][s] # NoMon) => s = t

(* Switches are carried out as they were accepted: their targets are still *)
(* free when their turn comes, and nobody is in two slots after them.      *)
SwitchesFit == SwitchTargetsFree /\ OneSlotEach

(* While a turn waits for a selection only the player who was asked can    *)
(* answer, and when it is resumed, by an answer or by a forfeit, it gets a *)
(* healthy Pokemon from the bench of the one who asked, who is on the      *)
(* field.                                                                  *)
SelectionIsUsable ==
    /\ waiting => /\ stage = "select"
                  /\ Len(requests[user.party]) = 1
                  /\ requests[1 - user.party] = <<>>
                  /\ selection = [party |-> user.party, mon |-> user.mon]
    /\ (stage = "select" /\ ~terminated) =>
            /\ user.mon \in OnField(user.party)
            /\ ~waiting => /\ selection.party = user.party
                           /\ selection.mon \in Reserve(user.party)

-----------------------------------------------------------------------------
(* The round as module TurnRounds sees it.                                 *)
Phase ==
    IF stage = "thrown" THEN "thrown"
    ELSE IF terminated THEN "over"
    ELSE IF stage = "idle"
         THEN IF victory THEN "ended" ELSE IF queue = <<>> THEN "asking" ELSE "sealed"
    ELSE IF stage = "select"
         THEN IF waiting THEN "paused" ELSE "chosen"
    ELSE "running"

Questions(n) ==
    IF terminated THEN {}
    ELSE UNION {{<<p, requests[p][i]>> : i \in 1 .. n[p]} : p \in Party}

Rounds == INSTANCE TurnRounds WITH
    Question <- Party \X Slot,
    phase <- Phase,
    closing <- victory,
    asked <- Questions([p \in Party |-> Len(requests[p])]),
    answered <- Questions([p \in Party |-> Len(turns[p])])

(* Collecting and executing turns implements the abstract rounds: no round *)
(* is executed with an answer missing or left over, none is changed after  *)
(* it was posted, and nothing is asked after the battle was decided.       *)
ImplementsRounds == Rounds!Spec

-----------------------------------------------------------------------------
(* Fairness: the queue thread runs (ThreadedQueue), a forfeit that was     *)
(* begun goes on, and a player who is asked keeps answering, at every      *)
(* position of his turn however often he cancels (his clock runs while he  *)
(* owes an answer, and Timer::tick makes him leave when it runs out).      *)
Fairness ==
    /\ WF_vars(QueueThread)
    /\ WF_vars(FinishForfeit)
    /\ \A p \in Party : \A k \in 0 .. PartySize - 1 :
            SF_vars(Len(turns[p]) = k /\ \E t \in Answers(p) : HandleTurn(p, t))

FairSpec == Spec /\ Fairness

(* Every round is played: the players are not asked forever, whatever they *)
(* cancel and in whatever order their answers come.                        *)
EveryRoundIsPlayed == Collecting ~> ~Collecting

(* A turn that runs, and one suspended for a selection, comes to its end:  *)
(* the players are asked again or the battle is over, unless the turn is   *)
(* stuck behind the mutex of a forfeit.                                    *)
EveryTurnEnds ==
    stage \in {"turn", "replace", "select"}
        ~> (stage = "idle" \/ terminated \/ stage = "blocked")

=============================================================================
