------------------------------- MODULE Choices -------------------------------
(***************************************************************************)
(* What a pokemon may do and has to do: the legality of answers, turns     *)
(* that are forced and Struggle, moves that bind their user for several    *)
(* turns, effects that forbid moves, and the PP that moves cost            *)
(* (BattleField, Pokemon and MoveObject in src/src, scripts in resources). *)
(*                                                                         *)
(* What a move does otherwise is one of its possible ends: it misses or    *)
(* not, and its target or its user faints.  An effect that stops a         *)
(* pokemon (paralysis, flinching and so on) may do so whenever it is asked.*)
(* The order of the turns is in TurnOrder, switches first.                 *)
(*                                                                         *)
(* Definitions named Mutant... are wrong versions of the one that follows; *)
(* they are not used: they are there to see the properties fail.           *)
(***************************************************************************)
EXTENDS Integers, Sequences, FiniteSets

CONSTANTS
    Fighter,
    SideOf,         \* 0 or 1
    Starters,       \* the slot in which each begins, 0 on the bench
    Slots,          \* BattleField::getPartySize
    Known,          \* the sequence of moves of each
    Points,         \* bound: PP of the moves
    Choosy,         \* who holds a choice item
    Pressing,       \* who has Pressure
    Trapping        \* who has Shadow Tag

Template ==
    [Tackle      |-> [target |-> "nonuser", binds |-> "no", other |-> FALSE],
     Outrage     |-> [target |-> "random", binds |-> "rampage", other |-> FALSE],
     HyperBeam   |-> [target |-> "nonuser", binds |-> "recharge", other |-> FALSE],
     Fly         |-> [target |-> "nonuser", binds |-> "charge", other |-> FALSE],
     Taunt       |-> [target |-> "nonuser", binds |-> "no", other |-> TRUE],
     Disable     |-> [target |-> "nonuser", binds |-> "no", other |-> TRUE],
     Torment     |-> [target |-> "nonuser", binds |-> "no", other |-> TRUE],
     HelpingHand |-> [target |-> "ally", binds |-> "no", other |-> TRUE],
     Struggle    |-> [target |-> "random", binds |-> "no", other |-> FALSE]]
IsTargeted(m) == Template[m].target \in {"nonuser", "ally"}

ASSUME ChoicesAssumption ==
    /\ SideOf \in [Fighter -> {0, 1}]
    /\ Slots \in Nat \ {0} /\ Starters \in [Fighter -> 0 .. Slots]
    /\ \A side \in {0, 1} : \E x \in Fighter : SideOf[x] = side /\ Starters[x] > 0
    /\ \A x \in Fighter : Known[x] \in Seq(DOMAIN Template \ {"Struggle"}) /\ Known[x] /= <<>>
    /\ Points \in [DOMAIN Template -> Nat \ {0}]
    /\ Choosy \cup Pressing \cup Trapping \subseteq Fighter

VARIABLES
    field,          \* m_slot, 0 on the bench
    dead,           \* m_fainted
    pp,             \* m_pp
    forced,         \* m_forcedTurn, m_forcedType and m_forcedMove, or Free
    lastMove,       \* m_lastMove, or NoMove
    bound,          \* the statuses of each, with what they count or name
    orders,         \* m_turn, or NoTurn
    stage,          \* "think", "ask", "act", "prepare", "use", "finish", "over"
    acting,         \* the execution that is on top, or Nothing
    answers         \* bound: free answers that chose each move, up to its PP

choiceVars == <<field, dead, pp, forced, lastMove, bound, orders, stage, acting, answers>>

Free == [type |-> "none"]
NoMove == "none"
NoTurn == [type |-> "none"]
Nothing == [by |-> "nobody"]
Nowhere == <<>>         \* a target of -1

On(side) == {x \in Fighter : SideOf[x] = side /\ field[x] > 0}
Standing(side) == On(side) \ dead
Fighting == Standing(0) \cup Standing(1)
Bench(side) == {x \in Fighter : SideOf[x] = side} \ (On(side) \cup dead)
Lost(side) == Standing(side) \cup Bench(side) = {}
Position(x) == <<SideOf[x], field[x]>>
At(place) == {x \in Fighter \ dead : Position(x) = place}
Slot(x, m) == {i \in DOMAIN Known[x] : Known[x][i] = m}
HasEffect(x, effect) == effect \in DOMAIN bound[x]
With(b, effect, v) == [e \in DOMAIN b \cup {effect} |-> IF e = effect THEN v ELSE b[e]]
Without(b, effect) == [e \in DOMAIN b \ {effect} |-> b[e]]

-----------------------------------------------------------------------------
(* Legality.                                                               *)

(* vetoSelection: the effects of everybody on the field are asked, and     *)
(* choice items, Taunt, Disable and Torment forbid something to the one    *)
(* who has them.                                                           *)
ForbidsSelection(y, x, m) ==
    /\ y = x
    /\ \/ HasEffect(y, "locked") /\ bound[y]["locked"] /= m
       \/ HasEffect(y, "taunt") /\ Template[m].other
       \/ HasEffect(y, "disable") /\ bound[y]["disable"] = m
       \/ HasEffect(y, "torment") /\ lastMove[y] = m
VetoSelection(x, m) == \E y \in Fighting : ForbidsSelection(y, x, m)

(* vetoSwitch: a move that binds its user, or Shadow Tag of an enemy.      *)
VetoSwitch(x) ==
    \/ \E e \in {"rampage", "recharge", "charge"} : HasEffect(x, e)
    \/ x \notin Trapping /\ Standing(1 - SideOf[x]) \cap Trapping /= {}

LegalMoves(x) == {i \in DOMAIN Known[x] : pp[x][i] > 0 /\ ~VetoSelection(x, Known[x][i])}

ClearForcedTurn(x) == [forced EXCEPT ![x] = Free]
ForcedMove(m, place, type) == [type |-> type, move |-> m, target |-> place]

(* Struggle is for those who have no PP left.                              *)
MutantMustStruggle(x) == forced[x] = Free /\ \A i \in DOMAIN Known[x] : pp[x][i] = 0
MustStruggle(x) == forced[x] = Free /\ LegalMoves(x) = {}

(* requestMoves has every active pokemon determine what is legal: what it  *)
(* keeps of that (m_legalMove, m_legalSwitch) holds until all are asked.   *)
DetermineLegalActions ==
    /\ stage = "think" /\ stage' = "ask"
    /\ forced' = [x \in Fighter |->
            IF x \in Fighting /\ MustStruggle(x)
            THEN ForcedMove("Struggle", Nowhere, "move") ELSE forced[x]]
    /\ UNCHANGED <<field, dead, pp, lastMove, bound, orders, acting, answers>>

TurnOf(type, id, target) == [type |-> type, id |-> id, target |-> target]
Places == {0, 1} \X (1 .. Slots)
MoveAnswers(x) == {TurnOf("move", i, place) : i \in DOMAIN Known[x], place \in Places}
SwitchAnswers(x) == {TurnOf("switch", y, Nowhere) : y \in {z \in Fighter : SideOf[z] = SideOf[x]}}

TargetLegal(x, place, class) ==
    \E y \in At(place) :
        \/ class = "nonuser" /\ y /= x
        \/ class = "ally" /\ place[1] = SideOf[x] /\ (Slots > 1 => y /= x)

(* isTurnLegal, for a pokemon that is asked for an action.                 *)
IsTurnLegal(x, t) ==
    \/ /\ t.type = "switch"
       /\ ~VetoSwitch(x) /\ forced[x].type /= "action"
       /\ t.id \in Bench(SideOf[x])
    \/ t.type = "move" /\ forced[x] /= Free
    \/ /\ t.type = "move"
       /\ t.id \in LegalMoves(x)
       /\ IsTargeted(Known[x][t.id])
            => TargetLegal(x, t.target, Template[Known[x][t.id]].target)

Awaited == {x \in Fighting : orders[x] = NoTurn}

GiveAnswer(x, t) ==
    /\ stage = "ask" /\ x \in Awaited
    /\ IsTurnLegal(x, t)
    /\ t.type = "switch" => \A y \in Fighting : orders[y] /= t
    /\ orders' = [orders EXCEPT ![x] = t]
    /\ answers' = IF /\ t.type = "move" /\ forced[x] = Free
                     /\ answers[x][t.id] < Points[Known[x][t.id]]
                  THEN [answers EXCEPT ![x][t.id] = @ + 1] ELSE answers
    /\ UNCHANGED <<field, dead, pp, forced, lastMove, bound, stage, acting>>

-----------------------------------------------------------------------------
(* The turn.                                                               *)

(* processTurn: a forced action replaces any answer, a forced move any but *)
(* a switch.                                                               *)
Imposed(x) == forced[x].type = "action" \/ (forced[x] /= Free /\ orders[x].type /= "switch")
ProcessTurn ==
    /\ stage = "ask" /\ Awaited = {}
    /\ stage' = "act"
    /\ orders' = [x \in Fighter |->
            IF x \in Fighting /\ Imposed(x) THEN TurnOf("forced", 0, forced[x].target)
            ELSE orders[x]]
    /\ UNCHANGED <<field, dead, pp, answers, forced, lastMove, bound, acting>>

(* determineVictory follows every action, and the turn ends with it.       *)
Ready(x) ==
    /\ stage = "act" /\ x \in Fighting /\ orders[x] /= NoTurn
    /\ \A side \in {0, 1} : ~Lost(side)
    /\ orders[x].type /= "switch" => \A y \in Fighting : orders[y].type /= "switch"

(* switchOut drops what the pokemon was forced to and bound by.            *)
ExecuteSwitch(x) ==
    /\ Ready(x) /\ orders[x].type = "switch"
    /\ field' = [field EXCEPT ![orders[x].id] = field[x], ![x] = 0]
    /\ forced' = ClearForcedTurn(x)
    /\ bound' = [bound EXCEPT ![x] = <<>>]
    /\ lastMove' = [lastMove EXCEPT ![x] = NoMove]
    /\ orders' = [orders EXCEPT ![x] = NoTurn]
    /\ UNCHANGED <<dead, pp, answers, stage, acting>>

(* getTargetList, and before it the target of the turn: another one if     *)
(* nobody is there any more.                                               *)
TargetsFor(x, m, place) ==
    IF IsTargeted(m) /\ place /= Nowhere /\ At(place) /= {} THEN At(place)
    ELSE Standing(1 - SideOf[x])

(* vetoExecution, without a target: the same effects, and the need to rest.*)
ForbidsExecution(y, x, m) ==
    /\ y = x
    /\ \/ HasEffect(y, "taunt") /\ Template[m].other
       \/ HasEffect(y, "disable") /\ bound[y]["disable"] = m
       \/ HasEffect(y, "recharge")
VetoExecution(x, m) == \E y \in Fighting : ForbidsExecution(y, x, m)

(* executePendingMoveAction, as far as executeMove has its targets.  The   *)
(* forced turn is over with that, carried out or not.                      *)
BeginExecution(x, stopped) ==
    /\ Ready(x) /\ orders[x].type /= "switch"
    /\ LET choice == orders[x].type = "move"
           m == IF choice THEN Known[x][orders[x].id] ELSE forced[x].move
           vetoed == stopped \/ VetoExecution(x, m)
           targets == TargetsFor(x, m, orders[x].target)
           goes == ~vetoed /\ targets /= {}
       IN  /\ \E y \in IF goes THEN targets ELSE {x} :
                acting' = [by |-> x, move |-> m, id |-> orders[x].id, choice |-> choice,
                           target |-> y, done |-> ~vetoed]
           /\ stage' = IF goes THEN "prepare" ELSE "finish"
    /\ forced' = ClearForcedTurn(x)
    /\ lastMove' = [lastMove EXCEPT ![x] = NoMove]
    /\ orders' = [orders EXCEPT ![x] = NoTurn]
    /\ UNCHANGED <<field, dead, pp, answers, bound>>

Pressed(x, m) ==
    IF acting.target \in Pressing /\ acting.target /= x
    THEN [i \in DOMAIN pp[x] |->
            IF i \in Slot(x, m) /\ pp[x][i] > 0 THEN pp[x][i] - 1 ELSE pp[x][i]]
    ELSE pp[x]

(* informTargeted, and prepareSelf of a move that binds its user.          *)
PrepareSelf ==
    /\ stage = "prepare" /\ stage' = "use"
    /\ LET x == acting.by
           m == acting.move
           binds == Template[m].binds
       IN  /\ pp' = [pp EXCEPT ![x] = Pressed(x, m)]
           /\ \/ /\ binds = "rampage"
                 /\ forced' = [forced EXCEPT ![x] = ForcedMove(m, Nowhere, "action")]
                 /\ \E turns \in {2, 3} : bound' = [bound EXCEPT ![x] =
                        IF HasEffect(x, "rampage") THEN @ ELSE With(@, "rampage", turns)]
              \/ /\ binds = "charge" /\ ~HasEffect(x, "charge")
                 /\ forced' = [forced EXCEPT ![x] =
                                    ForcedMove(m, Position(acting.target), "action")]
                 /\ bound' = [bound EXCEPT ![x] = With(@, "charge", 2)]
              \/ /\ binds /= "rampage" /\ (binds = "charge" => HasEffect(x, "charge"))
                 /\ UNCHANGED <<forced, bound>>
    /\ UNCHANGED <<field, dead, answers, lastMove, orders, acting>>

-----------------------------------------------------------------------------
(* useMove.                                                                *)

Uses == stage = "use" /\ stage' = "finish"
Rest == UNCHANGED <<field, pp, answers, lastMove, orders, acting>>

(* It missed, was vetoed for its target, or only charges.                  *)
Misses ==
    /\ Uses /\ Rest
    /\ UNCHANGED <<dead, forced, bound>>

(* A rampage that does no damage ends.                                     *)
DoesNoDamage ==
    /\ Uses /\ Rest
    /\ Template[acting.move].binds = "rampage"
    /\ forced' = ClearForcedTurn(acting.by)
    /\ bound' = [bound EXCEPT ![acting.by] = Without(@, "rampage")]
    /\ UNCHANGED dead

(* Either may faint of the blow.                                           *)
Strikes(casualties) ==
    /\ Uses /\ Rest
    /\ ~Template[acting.move].other
    /\ Template[acting.move].binds = "charge" => bound[acting.by]["charge"] = 1
    /\ dead' = dead \cup casualties
    /\ IF Template[acting.move].binds = "recharge"
       THEN /\ forced' = [forced EXCEPT ![acting.by] =
                            ForcedMove(acting.move, Position(acting.target), "action")]
            /\ bound' = [bound EXCEPT ![acting.by] = With(@, "recharge", 2)]
       ELSE UNCHANGED <<forced, bound>>

(* Disable needs a move that its target used and has PP for.               *)
Forbids ==
    /\ Uses /\ Rest
    /\ LET y == acting.target
       IN  \/ /\ acting.move \in {"Taunt", "Torment"}
              /\ bound' = [bound EXCEPT ![y] =
                    With(@, IF acting.move = "Taunt" THEN "taunt" ELSE "torment", 0)]
           \/ /\ acting.move = "Disable" /\ ~HasEffect(y, "disable")
              /\ \E i \in Slot(y, lastMove[y]) : pp[y][i] > 0
              /\ bound' = [bound EXCEPT ![y] = With(@, "disable", lastMove[y])]
    /\ UNCHANGED <<dead, forced>>

-----------------------------------------------------------------------------
(* deductPp, setLastMove and informFinishedExecution.                      *)

(* deductPp looks for the move that was used.                              *)
MutantDeducted(x) ==
    [i \in DOMAIN pp[x] |-> IF acting.done /\ i \in Slot(x, acting.move) /\ pp[x][i] > 0
                            THEN pp[x][i] - 1 ELSE pp[x][i]]
(* What was not chosen freely costs nothing, nor does what was vetoed.     *)
Deducted(x) ==
    [i \in DOMAIN pp[x] |-> IF acting.done /\ acting.choice /\ i = acting.id /\ pp[x][i] > 0
                            THEN pp[x][i] - 1 ELSE pp[x][i]]

Counted(b, effect) ==
    IF effect \notin DOMAIN b THEN b
    ELSE IF b[effect] = 1 THEN Without(b, effect) ELSE With(b, effect, b[effect] - 1)

(* The effects of x hear that it is finished; with m it used.              *)
RampageEnds(x, m) == HasEffect(x, "rampage") /\ (m = NoMove \/ bound[x]["rampage"] = 1)
Finished(x, m) ==
    LET one == Counted(Counted(bound[x], "recharge"), "charge")
        two == IF RampageEnds(x, m) THEN Without(one, "rampage") ELSE Counted(one, "rampage")
    IN  IF x \in Choosy /\ Slot(x, m) /= {} /\ ~HasEffect(x, "locked")
        THEN With(two, "locked", m) ELSE two

(* Disable is over after a number of moves of its subject, or without PP.  *)
FinishExecution ==
    /\ stage = "finish" /\ stage' = "act"
    /\ LET x == acting.by
           m == IF acting.done THEN acting.move ELSE NoMove
       IN  /\ pp' = [pp EXCEPT ![x] = Deducted(x)]
           /\ lastMove' = [lastMove EXCEPT ![x] = m]
           /\ \E over \in {b \in BOOLEAN : b => HasEffect(x, "disable")} :
                bound' = [bound EXCEPT ![x] =
                    IF over THEN Without(Finished(x, m), "disable") ELSE Finished(x, m)]
           /\ forced' = IF RampageEnds(x, m) THEN ClearForcedTurn(x) ELSE forced
    /\ acting' = Nothing
    /\ UNCHANGED <<field, dead, answers, orders>>

-----------------------------------------------------------------------------
(* After the turn: victory, or effects end and the fainted are replaced.   *)

Win ==
    /\ stage = "act"
    /\ \E side \in {0, 1} : Lost(side)
    /\ stage' = "over"
    /\ UNCHANGED <<field, dead, pp, answers, forced, lastMove, bound, orders, acting>>

(* tickEffects: Taunt may be over.                                         *)
EndTurn ==
    /\ stage = "act"
    /\ \A x \in Fighting : orders[x] = NoTurn
    /\ \A side \in {0, 1} : ~Lost(side)
    /\ stage' = "replace"
    /\ \E over \in SUBSET {x \in Fighting : HasEffect(x, "taunt")} :
            bound' = [x \in Fighter |-> IF x \in over THEN Without(bound[x], "taunt") ELSE bound[x]]
    /\ orders' = [x \in Fighter |-> NoTurn]
    /\ UNCHANGED <<field, dead, pp, answers, forced, lastMove, acting>>

ToReplace == {x \in dead : field[x] > 0 /\ Bench(SideOf[x]) /= {}}
Replacement(x, y) ==
    /\ stage = "replace"
    /\ x \in ToReplace /\ y \in Bench(SideOf[x])
    /\ field' = [field EXCEPT ![y] = field[x], ![x] = 0]
    /\ UNCHANGED <<dead, pp, answers, forced, lastMove, bound, orders, stage, acting>>

NextRound ==
    /\ stage = "replace" /\ ToReplace = {}
    /\ stage' = "think"
    /\ UNCHANGED <<field, dead, pp, answers, forced, lastMove, bound, orders, acting>>

-----------------------------------------------------------------------------
Start(at) ==
    /\ field = Starters /\ dead = {}
    /\ pp = [x \in Fighter |-> [i \in DOMAIN Known[x] |-> Points[Known[x][i]]]]
    /\ forced = [x \in Fighter |-> Free]
    /\ lastMove = [x \in Fighter |-> NoMove]
    /\ bound = [x \in Fighter |-> <<>>]
    /\ orders = [x \in Fighter |-> NoTurn]
    /\ stage = at /\ acting = Nothing
    /\ answers = [x \in Fighter |-> [i \in DOMAIN Known[x] |-> 0]]

ChoicesInit == Start("think")

ChoicesNext ==
    \/ DetermineLegalActions \/ ProcessTurn
    \/ /\ stage = "ask"
       /\ \E x \in Awaited : \E t \in MoveAnswers(x) \cup SwitchAnswers(x) : GiveAnswer(x, t)
    \/ \E x \in Fighter : ExecuteSwitch(x) \/ \E stopped \in BOOLEAN : BeginExecution(x, stopped)
    \/ PrepareSelf \/ Misses \/ DoesNoDamage \/ Forbids
    \/ stage = "use" /\ \E casualties \in SUBSET {acting.by, acting.target} : Strikes(casualties)
    \/ FinishExecution \/ Win \/ EndTurn \/ NextRound
    \/ \E x, y \in Fighter : Replacement(x, y)

ChoicesSpec == ChoicesInit /\ [][ChoicesNext]_choiceVars

-----------------------------------------------------------------------------
(* Whoever is asked can answer: if nothing is legal, Struggle is forced,   *)
(* and then any move will do.  Otherwise the battle would ask for good.    *)
SomethingIsLegal ==
    stage = "ask" => \A x \in Awaited :
        \E t \in MoveAnswers(x) \cup SwitchAnswers(x) : IsTurnLegal(x, t)

(* Whoever knows a rampage and also a move to rest after or to go up with. *)
(* A rampage that finds no target goes on without forcing its user, who    *)
(* may then use the other move; when the rampage ends meanwhile, it clears *)
(* what the other move forces him to.                                      *)
Knows(x, kind) == \E i \in DOMAIN Known[x] : Template[Known[x][i]].binds = kind
Mixes(x) == Knows(x, "rampage") /\ (Knows(x, "recharge") \/ Knows(x, "charge"))

(* Whoever is asked while he has to rest or to come down has no choice, or *)
(* his move would come to nothing; and nobody is forced to go on with a    *)
(* move whose effect is over, whatever stopped it.                         *)
BoundAreForced ==
    stage = "ask" => \A x \in Fighting :
        /\ ~Mixes(x) /\ (HasEffect(x, "recharge") \/ HasEffect(x, "charge"))
                => forced[x].type = "action"
        /\ forced[x].type = "action" =>
                \E e \in {"rampage", "recharge", "charge"} : HasEffect(x, e)

(* A move that goes on for several turns costs one point, as it was chosen *)
(* once: if nobody else has Pressure, no move has lost more points than    *)
(* there were answers that chose it freely.                                *)
OnePointEach ==
    \A x \in Fighter : Pressing \subseteq {x} =>
        \A i \in DOMAIN Known[x] : Points[Known[x][i]] - pp[x][i] <= answers[x][i]

(* A move that goes on for several turns forces its user as long as it     *)
(* binds him, and costs him once, whatever vetoes, misses, stops or        *)
(* switches come between (setForcedTurn, clearForcedTurn, deductPp).       *)
MovesGoOn == BoundAreForced /\ OnePointEach
=============================================================================
