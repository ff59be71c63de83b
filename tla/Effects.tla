------------------------------- MODULE Effects -------------------------------
(***************************************************************************)
(* What a move does to the pokemon on the field: executing it, losing      *)
(* health, fainting, status effects, abilities and items, leaving and      *)
(* entering, and the end of a turn (src/src/shoddybattle/Pokemon.cpp and   *)
(* BattleField.cpp, with the scripts under src/resources).                 *)
(*                                                                         *)
(* The program does this in C++ calls that call scripts that call C++      *)
(* again: a blow makes the ability of its victim hurt the attacker, who    *)
(* faints in the middle of his own move.  The calls that are still to be   *)
(* made are the sequence calls, the next one first; a step makes the first *)
(* one and puts what it calls before the rest.                             *)
(*                                                                         *)
(* A singles battle.  Any order of speed is allowed.  Of the effects there *)
(* are those that react to others; what they do to the health is one unit  *)
(* each.  Not here: types, accuracy, vetoes, stat levels, effects of a     *)
(* whole party and the narration.                                          *)
(*                                                                         *)
(* Definitions named Mutant... are wrong versions of the one that follows; *)
(* they are not used: they are there to see the properties fail.           *)
(***************************************************************************)
EXTENDS Integers, Sequences, SequencesExt, FiniteSets

CONSTANTS
    Pokemon,
    PartyOf,        \* the party of each, 0 or 1
    Leads,          \* the pokemon that the two parties send out first
    Natural,        \* the abilities the teams may have: functions on Pokemon
    Holdings,       \* the items they may hold: functions on Pokemon
    Moves,          \* the moves that are chosen
    MaxHp,
    MaxTurn,        \* bound: the turns of a battle
    None

Abilities == {"RoughSkin", "Aftermath", "Static", "Synchronize", "Limber",
              "NaturalCure", "Insomnia"}
Items == {"StickyBarb", "JabocaBerry", "EnigmaBerry"}
Statuses == {"Poison", "Paralysis"}
Kinds == Abilities \cup Items \cup Statuses \cup {"GastroAcid"}
AllMoves == {"Tackle", "Explosion", "PoisonJab", "Roar", "UTurn",
             "WorrySeed", "GastroAcid"}

ASSUME EffectsAssumption ==
    /\ PartyOf \in [Pokemon -> {0, 1}]
    /\ Leads \in [{0, 1} -> Pokemon]
    /\ \A i \in {0, 1} : PartyOf[Leads[i]] = i
    /\ Natural \subseteq [Pokemon -> Abilities]
    /\ Holdings \subseteq [Pokemon -> Items \cup {None}]
    /\ Moves \subseteq AllMoves
    /\ MaxHp \in Nat \ {0} /\ MaxTurn \in Nat
    /\ None \notin Pokemon /\ None \notin Items /\ None \notin Abilities
    /\ IsFiniteSet(Pokemon)

VARIABLES
    name,           \* Pokemon::m_abilityName
    itemName,       \* Pokemon::m_itemName, None if empty
    hp,             \* m_hp
    fainted,        \* m_fainted
    told,           \* how often BattleField::informFainted was called for it
    effects,        \* m_effects, in order: objects with an identity, a kind,
                    \* and whether their state is STATE_REMOVABLE
    ability, item,  \* m_ability and m_item: identities, 0 if NULL
    memory,         \* the users in m_memory
    active,         \* the pokemon in the one slot of each party
    executing,      \* the stack of moves that are executed, topmost first
    calls,          \* the calls to be made
    phase,          \* where the turn is
    todo,           \* the pokemon that have yet to act in the turn
    ticks,          \* the effects that tickEffects has yet to tick
    turn

vars == <<name, itemName, hp, fainted, told, effects, ability, item, memory, active,
          executing, calls, phase, todo, ticks, turn>>
names == <<name, itemName>>
body == <<hp, fainted, told>>
held == <<effects, ability, item>>
round == <<phase, todo, ticks, turn>>

Foe(p) == active[1 - PartyOf[p]]
OnField(p) == active[PartyOf[p]] = p
Reserves(i) == {q \in Pokemon : PartyOf[q] = i /\ ~fainted[q] /\ ~OnField(q)}

-----------------------------------------------------------------------------
(* Lists of effects.                                                       *)

Living(list) == {e \in ToSet(list) : ~e.gone}
Has(list, kind) == \E e \in Living(list) : e.kind = kind
(* StatusEffect.SPECIAL_EFFECT is the only lock there is here.             *)
Lock(kind) == IF kind \in Statuses THEN 2 ELSE 0
(* StatusObject::isActive: an ability asks for Gastro Acid first.          *)
IsActive(list, e) ==
    ~e.gone /\ (e.kind \in Abilities => ~Has(list, "GastroAcid"))

(* Another effect of the same lock or of the same name is in the way.      *)
Blocked(list, kind) ==
    \/ Lock(kind) /= 0 /\ \E e \in Living(list) : Lock(e.kind) = Lock(kind)
    \/ Has(list, kind)

(* An identity that no list entry and no pointer of p uses.                *)
Fresh(list, pointers) ==
    LET used == {e.id : e \in ToSet(list)} \cup pointers
    IN  CHOOSE i \in 1 .. Cardinality(used) + 1 : i \notin used

(* Pokemon::removeStatus of the object i: dispose leaves it in the list.   *)
Dispose(list, i) ==
    [k \in DOMAIN list |-> IF list[k].id = i THEN [list[k] EXCEPT !.gone = TRUE]
                                             ELSE list[k]]

(* Pokemon::setAbility and setItem: the object that m_ability or m_item    *)
(* points to is removed, a copy of the new one is applied.  No effect that *)
(* is modelled transforms or answers the application of either.            *)
Replaced(list, pointers, i, kind) ==
    LET rest == Dispose(list, i)
        fresh == Fresh(list, pointers)
    IN  IF kind = None \/ Blocked(rest, kind)
        THEN [list |-> rest, id |-> 0]
        ELSE [list |-> Append(rest, [id |-> fresh, kind |-> kind, gone |-> FALSE]),
              id |-> fresh]

-----------------------------------------------------------------------------
(* Calls.  Each is a record; the operators make them.                      *)

Execute(user, target, move) ==
    [op |-> "executeMove", user |-> user, on |-> target, move |-> move]
Use(user, target, move) ==
    [op |-> "use", user |-> user, on |-> target, move |-> move]
Pop == [op |-> "popExecution"]
Hurt(p, n) == [op |-> "setHp", on |-> p, loss |-> n]
(* The rest of setHp after the damage was reported.                        *)
CheckHp(p) == [op |-> "checkHp", on |-> p]
Die(p) == [op |-> "faint", on |-> p]
(* sendMessage("informDamaged"), at the i-th effect.                       *)
Damaged(p, user, move, i) ==
    [op |-> "informDamaged", on |-> p, user |-> user, move |-> move, at |-> i]
Apply(p, inducer, kind) ==
    [op |-> "applyStatus", on |-> p, inducer |-> inducer, kind |-> kind]
Applied(p, inducer, kind, i) ==
    [op |-> "informEffectApplied", on |-> p, inducer |-> inducer,
     kind |-> kind, at |-> i]
SetAbility(p, kind) == [op |-> "setAbility", on |-> p, kind |-> kind]
SetItem(p, kind) == [op |-> "setItem", on |-> p, kind |-> kind]
PassItem(p, user) == [op |-> "passItem", on |-> p, user |-> user]
Secondary(p, user, kind) ==
    [op |-> "secondary", on |-> p, user |-> user, kind |-> kind]
Turn(user, target) == [op |-> "uturn", on |-> target, user |-> user]
Consume(p, i) == [op |-> "consume", on |-> p, id |-> i]
SwitchOut(p) == [op |-> "switchOut", on |-> p]
SendOut(p) == [op |-> "sendOut", on |-> p]

(* The first call is op; what it calls comes before the rest.              *)
First(op) == calls /= <<>> /\ Head(calls).op = op
Calls(inner) == calls' = inner \o Tail(calls)

-----------------------------------------------------------------------------
(* The scripts: what a listener calls, one sequence for each outcome that  *)
(* its dice allow.                                                         *)

Contact(move) == move \in {"Tackle", "UTurn", "PoisonJab"}

(* informDamaged of an effect e of p, hurt by a move of user.              *)
OnDamage(p, user, move, e) ==
    IF p = user THEN {<<>>} ELSE
    CASE e.kind = "RoughSkin" /\ Contact(move) -> {<<Hurt(user, 1)>>}
      [] e.kind = "Aftermath" /\ Contact(move) /\ hp[p] <= 0 ->
            {<<Hurt(user, 1)>>}
      [] e.kind = "Static" /\ Contact(move) ->
            {<<>>, <<Apply(user, p, "Paralysis")>>}
      [] e.kind = "StickyBarb" /\ Contact(move) ->
            {<<Hurt(user, 1), PassItem(p, user)>>}
      [] e.kind = "JabocaBerry" /\ hp[p] > 0 ->
            {<<Hurt(user, 1), Consume(p, e.id)>>}
      [] e.kind = "EnigmaBerry" /\ ~fainted[p] ->
            {<<>>, <<Hurt(p, -1), Consume(p, e.id)>>}
      [] OTHER -> {<<>>}

(* informEffectApplied of an effect e of p: only Synchronize listens.      *)
OnApplied(p, inducer, kind, e) ==
    IF e.kind = "Synchronize" /\ inducer /= p /\ kind \in Statuses
    THEN <<Apply(inducer, inducer, kind)>> ELSE <<>>

(* transformStatus: Limber rejects paralysis of its bearer, as long as he  *)
(* is on the field and has not fainted.                                    *)
Rejected(p, kind) ==
    /\ kind = "Paralysis" /\ OnField(p) /\ ~fainted[p]
    /\ \E e \in ToSet(effects[p]) : e.kind = "Limber" /\ IsActive(effects[p], e)

-----------------------------------------------------------------------------
(* Executing a move (Pokemon::executeMove).  A target that fainted is no   *)
(* target.  The target remembers the user; the move is on the stack while  *)
(* it is prepared and used.                                                *)
ExecuteMove ==
    /\ First("executeMove")
    /\ LET c == Head(calls)
       IN  IF fainted[c.on]
           THEN Calls(<<>>) /\ UNCHANGED <<memory, executing>>
           ELSE /\ memory' = [memory EXCEPT ![c.on] = @ \cup {c.user}]
                /\ executing' = <<[user |-> c.user, move |-> c.move]>> \o executing
                /\ Calls((IF c.move = "Explosion" THEN <<Die(c.user)>> ELSE <<>>)
                         \o <<Use(c.user, c.on, c.move), Pop>>)
    /\ UNCHANGED <<names, body, held, active, round>>

(* A light blow, and one that takes more than there can be: setHp does not *)
(* stop at zero.                                                           *)
Damage == {1, MaxHp + 1}

(* Pokemon::useMove: it may miss; otherwise the script of the move.        *)
Outcomes(user, p, move) ==
    CASE move \in {"Tackle", "Explosion"} -> {<<Hurt(p, n)>> : n \in Damage}
      [] move = "PoisonJab" ->
            {<<Hurt(p, n), Secondary(p, user, "Poison")>> : n \in Damage}
      [] move = "UTurn" -> {<<Hurt(p, n), Turn(user, p)>> : n \in Damage}
      [] move = "Roar" ->
            IF Reserves(PartyOf[p]) = {} THEN {<<>>}
            ELSE {<<SwitchOut(p), SendOut(q)>> : q \in Reserves(PartyOf[p])}
      [] move = "WorrySeed" -> {<<SetAbility(p, "Insomnia")>>}
      [] move = "GastroAcid" -> {<<Apply(p, user, "GastroAcid")>>}

UseMove ==
    /\ First("use")
    /\ LET c == Head(calls)
       IN  \E inner \in Outcomes(c.user, c.on, c.move) \cup {<<>>} : Calls(inner)
    /\ UNCHANGED <<names, body, held, memory, active, executing, round>>

PopExecution ==
    /\ First("popExecution")
    /\ executing' = Tail(executing)
    /\ Calls(<<>>)
    /\ UNCHANGED <<names, body, held, memory, active, round>>

(* The status that a damaging move may cause, unless its target fainted.   *)
SecondaryEffect ==
    /\ First("secondary")
    /\ LET c == Head(calls)
       IN  \/ Calls(<<>>)
           \/ ~fainted[c.on] /\ Calls(<<Apply(c.on, c.user, c.kind)>>)
    /\ UNCHANGED <<names, body, held, memory, active, executing, round>>

(* U-turn once its damage is done: the user is replaced, unless he has no  *)
(* health left or the blow ended the battle.                               *)
UTurn ==
    /\ First("uturn")
    /\ LET c == Head(calls)
           i == PartyOf[c.user]
       IN  IF \/ hp[c.user] <= 0
              \/ \A q \in Pokemon : PartyOf[q] = PartyOf[c.on] => fainted[q]
              \/ Reserves(i) = {}
           THEN Calls(<<>>)
           ELSE \E q \in Reserves(i) : Calls(<<SwitchOut(c.user), SendOut(q)>>)
    /\ UNCHANGED <<names, body, held, memory, active, executing, round>>

-----------------------------------------------------------------------------
(* Health.                                                                 *)

MutantSetHp ==
    /\ First("setHp")
    /\ LET c == Head(calls)
           p == c.on
           left == IF hp[p] - c.loss > MaxHp THEN MaxHp ELSE hp[p] - c.loss
       IN  IF left = hp[p]
           THEN Calls(<<>>) /\ UNCHANGED hp
           ELSE /\ hp' = [hp EXCEPT ![p] = left]
                /\ Calls((IF left < hp[p] /\ executing /= <<>>
                          THEN <<Damaged(p, executing[1].user, executing[1].move, 1)>>
                          ELSE <<>>) \o <<CheckHp(p)>>)
    /\ UNCHANGED <<names, fainted, told, held, memory, active, executing, round>>

(* Pokemon::setHp: nothing happens to a fainted pokemon; the listeners are *)
(* told of damage while a move is executed, before it is seen whether the  *)
(* pokemon faints.                                                         *)
SetHp ==
    /\ First("setHp")
    /\ LET c == Head(calls)
           p == c.on
           left == IF hp[p] - c.loss > MaxHp THEN MaxHp ELSE hp[p] - c.loss
       IN  IF fainted[p] \/ left = hp[p]
           THEN Calls(<<>>) /\ UNCHANGED hp
           ELSE /\ hp' = [hp EXCEPT ![p] = left]
                /\ Calls((IF left < hp[p] /\ executing /= <<>>
                          THEN <<Damaged(p, executing[1].user, executing[1].move, 1)>>
                          ELSE <<>>) \o <<CheckHp(p)>>)
    /\ UNCHANGED <<names, fainted, told, held, memory, active, executing, round>>

(* The loop of sendMessage over the living list of effects.                *)
InformDamaged ==
    /\ First("informDamaged")
    /\ LET c == Head(calls)
           list == effects[c.on]
           next == <<[c EXCEPT !.at = @ + 1]>>
       IN  IF c.at > Len(list) THEN Calls(<<>>)
           ELSE IF ~IsActive(list, list[c.at]) THEN Calls(next)
           ELSE \E inner \in OnDamage(c.on, c.user, c.move, list[c.at]) :
                    Calls(inner \o next)
    /\ UNCHANGED <<names, body, held, memory, active, executing, round>>

CheckDeath ==
    /\ First("checkHp")
    /\ Calls(IF hp[Head(calls).on] <= 0 THEN <<Die(Head(calls).on)>> ELSE <<>>)
    /\ UNCHANGED <<names, body, held, memory, active, executing, round>>

(* Pokemon::clearMemory, of p, on the pokemon on the field.                *)
Forget(p) ==
    [q \in Pokemon |-> IF OnField(q) THEN memory[q] \ {p} ELSE memory[q]]

MutantFaint ==
    /\ First("faint")
    /\ LET p == Head(calls).on
       IN  /\ fainted' = [fainted EXCEPT ![p] = TRUE]
           /\ hp' = [hp EXCEPT ![p] = IF @ > 0 THEN 0 ELSE @]
           /\ told' = [told EXCEPT ![p] = IF @ < 2 THEN @ + 1 ELSE @]
           /\ UNCHANGED memory
    /\ Calls(<<>>)
    /\ UNCHANGED <<names, held, active, executing, round>>

(* Pokemon::faint; told stops at two.                                      *)
Faint ==
    /\ First("faint")
    /\ LET p == Head(calls).on
       IN  /\ fainted' = [fainted EXCEPT ![p] = TRUE]
           /\ hp' = [hp EXCEPT ![p] = IF @ > 0 THEN 0 ELSE @]
           /\ told' = [told EXCEPT ![p] = IF @ < 2 THEN @ + 1 ELSE @]
           /\ memory' = Forget(p)
    /\ Calls(<<>>)
    /\ UNCHANGED <<names, held, active, executing, round>>

-----------------------------------------------------------------------------
(* Effects.                                                                *)

Pointers(p) == {ability[p], item[p]}
Object(p, kind) ==
    [id |-> Fresh(effects[p], Pointers(p)), kind |-> kind, gone |-> FALSE]

(* Pokemon::applyStatus, and BattleField::transformStatus in it.  The type *)
(* of the pokemon may make it immune to a status.                          *)
ApplyStatus ==
    /\ First("applyStatus")
    /\ LET c == Head(calls)
       IN  \/ /\ \/ c.kind \in Statuses
                 \/ Blocked(effects[c.on], c.kind)
              /\ Calls(<<>>)
              /\ UNCHANGED effects
           \/ /\ ~Blocked(effects[c.on], c.kind) /\ ~Rejected(c.on, c.kind)
              /\ effects' = [effects EXCEPT ![c.on] = Append(@, Object(c.on, c.kind))]
              /\ Calls(<<Applied(c.on, c.inducer, c.kind, 1)>>)
    /\ UNCHANGED <<names, body, ability, item, memory, active, executing, round>>

InformEffectApplied ==
    /\ First("informEffectApplied")
    /\ LET c == Head(calls)
           list == effects[c.on]
           next == <<[c EXCEPT !.at = @ + 1]>>
       IN  IF c.at > Len(list) THEN Calls(<<>>)
           ELSE IF ~IsActive(list, list[c.at]) THEN Calls(next)
           ELSE Calls(OnApplied(c.on, c.inducer, c.kind, list[c.at]) \o next)
    /\ UNCHANGED <<names, body, held, memory, active, executing, round>>

ReplaceAbility ==
    /\ First("setAbility")
    /\ LET c == Head(calls)
           r == Replaced(effects[c.on], Pointers(c.on), ability[c.on], c.kind)
       IN  /\ effects' = [effects EXCEPT ![c.on] = r.list]
           /\ ability' = [ability EXCEPT ![c.on] = r.id]
    /\ Calls(<<>>)
    /\ UNCHANGED <<names, body, item, memory, active, executing, round>>

ReplaceItem ==
    /\ First("setItem")
    /\ LET c == Head(calls)
           r == Replaced(effects[c.on], Pointers(c.on), item[c.on], c.kind)
       IN  /\ effects' = [effects EXCEPT ![c.on] = r.list]
           /\ item' = [item EXCEPT ![c.on] = r.id]
    /\ Calls(<<>>)
    /\ UNCHANGED <<names, body, ability, memory, active, executing, round>>

(* Pokemon::getItem: whether p holds an item that was not removed.         *)
Holds(p) == \E e \in Living(effects[p]) : e.id = item[p]

(* A Sticky Barb goes to the one who touched it, if he has no item.        *)
PassSticky ==
    /\ First("passItem")
    /\ LET c == Head(calls)
       IN  Calls(IF Holds(c.user) THEN <<>>
                 ELSE <<SetItem(c.user, "StickyBarb"), SetItem(c.on, None)>>)
    /\ UNCHANGED <<names, body, held, memory, active, executing, round>>

(* HoldItem.consume.                                                       *)
ConsumeItem ==
    /\ First("consume")
    /\ LET c == Head(calls)
       IN  effects' = IF fainted[c.on] THEN effects
                      ELSE [effects EXCEPT ![c.on] = Dispose(@, c.id)]
    /\ Calls(<<>>)
    /\ UNCHANGED <<names, body, ability, item, memory, active, executing, round>>

-----------------------------------------------------------------------------
(* Leaving and entering the field.                                         *)

(* switchOutPredicate for the i-th entry of the list that remove_if is     *)
(* rearranging: entries that stay are copied to the front, so that what is *)
(* found there by getStatus depends on the order.  Natural Cure removes    *)
(* the special status of the one who leaves.                               *)
Leave(s, i) ==
    LET e == s.list[i]
        leaves == IsActive(s.list, e) /\ e.kind \notin Items \cup Statuses
        special == {x \in Living(s.list) : Lock(x.kind) = 2}
        cured == IF leaves /\ e.kind = "NaturalCure" /\ special /= {}
                 THEN Dispose(s.list, (CHOOSE x \in special : TRUE).id)
                 ELSE s.list
    IN  IF leaves THEN [s EXCEPT !.list = cured]
        ELSE [list |-> [s.list EXCEPT ![s.to] = e], to |-> s.to + 1]

(* removeStatuses(m_effects, switchOutPredicate).                          *)
Left(list) ==
    LET s == FoldLeft(Leave, [list |-> list, to |-> 1], [i \in DOMAIN list |-> i])
    IN  SubSeq(s.list, 1, s.to - 1)

(* Pokemon::switchOut: effects that do not survive go, the original        *)
(* ability comes back, and the pokemon forgets and is forgotten.           *)
SwitchOutPokemon ==
    /\ First("switchOut")
    /\ LET p == Head(calls).on
           r == Replaced(Left(effects[p]), Pointers(p), ability[p], name[p])
       IN  /\ effects' = [effects EXCEPT ![p] = r.list]
           /\ ability' = [ability EXCEPT ![p] = r.id]
           /\ memory' = [Forget(p) EXCEPT ![p] = {}]
    /\ Calls(<<>>)
    /\ UNCHANGED <<names, body, item, active, executing, round>>

(* BattleField::sendOutPokemon.                                            *)
SendOutPokemon ==
    /\ First("sendOut")
    /\ LET q == Head(calls).on
       IN  active' = [active EXCEPT ![PartyOf[q]] = q]
    /\ Calls(<<>>)
    /\ UNCHANGED <<names, body, held, memory, executing, round>>

Call ==
    \/ ExecuteMove \/ UseMove \/ PopExecution \/ SecondaryEffect \/ UTurn
    \/ SetHp \/ InformDamaged \/ CheckDeath \/ Faint
    \/ ApplyStatus \/ InformEffectApplied
    \/ ReplaceAbility \/ ReplaceItem \/ PassSticky \/ ConsumeItem
    \/ SwitchOutPokemon \/ SendOutPokemon

-----------------------------------------------------------------------------
(* A turn: the pokemon on the field act, the effects tick, those who       *)
(* fainted are replaced.                                                   *)

(* BattleField::determineVictory.                                          *)
Decided == \E i \in {0, 1} : \A p \in Pokemon : PartyOf[p] = i => fainted[p]
Quiet == calls = <<>> /\ ~Decided

(* executePendingAction: of one who fainted or was dragged out nothing is  *)
(* executed.                                                               *)
Act(p) ==
    /\ Quiet /\ phase = "actions"
    /\ p \in todo
    /\ todo' = todo \ {p}
    /\ \/ (fainted[p] \/ ~OnField(p)) /\ UNCHANGED calls
       \/ /\ ~fainted[p] /\ OnField(p)
          /\ \/ \E m \in Moves : calls' = <<Execute(p, Foe(p), m)>>
             \/ \E q \in Reserves(PartyOf[p]) : calls' = <<SwitchOut(p), SendOut(q)>>
    /\ UNCHANGED <<names, body, held, memory, active, executing, phase, ticks, turn>>

(* tickEffects: what is active on the field before the first effect ticks. *)
Ticking == {"Limber", "Poison", "StickyBarb"}
BeginTick ==
    /\ Quiet /\ phase = "actions" /\ todo = {}
    /\ phase' = "ticks"
    /\ ticks' = UNION {{[on |-> p, id |-> e.id, kind |-> e.kind] :
                          e \in {x \in ToSet(effects[p]) :
                                   x.kind \in Ticking /\ IsActive(effects[p], x)}} :
                        p \in {q \in Pokemon : OnField(q) /\ ~fainted[q]}}
    /\ UNCHANGED <<names, body, held, memory, active, executing, calls, todo, turn>>

(* Tiers first, then the speed of the subjects, then subtiers.             *)
Tier(kind) == IF kind = "Limber" THEN 0 ELSE 6
Subtier(kind) == IF kind = "Poison" THEN 4 ELSE 18
Earlier(t, u) ==
    \/ Tier(t.kind) < Tier(u.kind)
    \/ Tier(t.kind) = Tier(u.kind) /\ t.on = u.on /\ Subtier(t.kind) < Subtier(u.kind)

Tick ==
    /\ Quiet /\ phase = "ticks"
    /\ \E t \in ticks :
        LET list == effects[t.on]
            on == /\ ~fainted[t.on]
                  /\ \E e \in ToSet(list) : e.id = t.id /\ IsActive(list, e)
            cured == {e \in Living(list) : e.kind = "Paralysis"}
        IN  /\ \A u \in ticks : ~Earlier(u, t)
            /\ ticks' = ticks \ {t}
            /\ IF on /\ t.kind = "Limber" /\ cured /= {}
               THEN /\ effects' = [effects EXCEPT
                                     ![t.on] = Dispose(@, (CHOOSE e \in cured : TRUE).id)]
                    /\ UNCHANGED calls
               ELSE /\ calls' = IF on /\ t.kind /= "Limber" THEN <<Hurt(t.on, 1)>> ELSE <<>>
                    /\ UNCHANGED effects
    /\ UNCHANGED <<names, body, ability, item, memory, active, executing, phase, todo, turn>>

(* Pokemon::removeStatuses: what is not STATE_REMOVABLE stays, in order.   *)
Unremoved(list) ==
    LET Keep(rest, e) == IF e.gone THEN rest ELSE Append(rest, e)
    IN  FoldLeft(Keep, <<>>, list)

(* The end of tickEffects: removable effects of those who are alive on the *)
(* field are erased.                                                       *)
EndTick ==
    /\ Quiet /\ phase = "ticks" /\ ticks = {}
    /\ phase' = "replacements"
    /\ effects' = [p \in Pokemon |->
                     IF OnField(p) /\ ~fainted[p]
                     THEN Unremoved(effects[p]) ELSE effects[p]]
    /\ UNCHANGED <<names, body, ability, item, memory, active, executing, calls,
                   todo, ticks, turn>>

Due == {i \in {0, 1} : fainted[active[i]] /\ Reserves(i) /= {}}

(* processReplacements: withdrawing a fainted pokemon does not switch it   *)
(* out.                                                                    *)
Replace(q) ==
    /\ Quiet /\ phase = "replacements"
    /\ PartyOf[q] \in Due /\ q \in Reserves(PartyOf[q])
    /\ calls' = <<SendOut(q)>>
    /\ UNCHANGED <<names, body, held, memory, active, executing, round>>

NextTurn ==
    /\ Quiet /\ phase = "replacements" /\ Due = {}
    /\ turn < MaxTurn
    /\ turn' = turn + 1
    /\ phase' = "actions"
    /\ todo' = {active[0], active[1]}
    /\ UNCHANGED <<names, body, held, memory, active, executing, calls, ticks>>

(* Pokemon::initialise: the ability, then the item.                        *)
Init ==
    /\ name \in Natural
    /\ itemName \in Holdings
    /\ effects = [p \in Pokemon |->
          <<[id |-> 1, kind |-> name[p], gone |-> FALSE]>> \o
          IF itemName[p] = None THEN <<>>
          ELSE <<[id |-> 2, kind |-> itemName[p], gone |-> FALSE]>>]
    /\ item = [p \in Pokemon |-> IF itemName[p] = None THEN 0 ELSE 2]
    /\ ability = [p \in Pokemon |-> 1]
    /\ hp = [p \in Pokemon |-> MaxHp]
    /\ fainted = [p \in Pokemon |-> FALSE]
    /\ told = [p \in Pokemon |-> 0]
    /\ memory = [p \in Pokemon |-> {}]
    /\ active = Leads
    /\ executing = <<>> /\ calls = <<>>
    /\ phase = "actions" /\ todo = {Leads[0], Leads[1]} /\ ticks = {} /\ turn = 1

Next ==
    \/ Call
    \/ \E p \in Pokemon : Act(p) \/ Replace(p)
    \/ BeginTick \/ Tick \/ EndTick \/ NextTurn

Spec == Init /\ [][Next]_vars

-----------------------------------------------------------------------------
(* A pokemon's fainting is announced once, whatever hits it while it is    *)
(* going down or after it (Pokemon::setHp and faint); and when every call  *)
(* has returned, exactly those without health have fainted.                *)
FaintsOnce ==
    \A p \in Pokemon :
        /\ told[p] <= 1
        /\ calls = <<>> =>
             /\ fainted[p] <=> hp[p] <= 0
             /\ fainted[p] <=> told[p] = 1

(* A pokemon has one ability, the one m_ability points to: replaced in the *)
(* field, silenced by Gastro Acid or not, it is never left without one nor *)
(* with two, and off the field it has its own again (switchOut).           *)
AbilityAgrees ==
    calls = <<>> =>
        \A p \in Pokemon : ~fainted[p] =>
            \E e \in Living(effects[p]) :
                /\ {x \in Living(effects[p]) : x.kind \in Abilities} = {e}
                /\ e.id = ability[p]
                /\ ~OnField(p) => e.kind = name[p]

(* What an unfainted pokemon on the field remembers is on the field and    *)
(* has not fainted: m_memory holds bare pointers, and moves are aimed at   *)
(* them (getMemoryPokemon, T_NONE).                                        *)
MemoryOnField ==
    calls = <<>> =>
        \A p \in Pokemon :
            /\ OnField(p) /\ ~fainted[p] =>
                 \A q \in memory[p] : OnField(q) /\ ~fainted[q]
            /\ ~OnField(p) /\ ~fainted[p] => memory[p] = {}

(* A Sticky Barb that is handed on in the middle of a blow is neither      *)
(* doubled nor lost, whoever faints: when every call has returned there    *)
(* are as many as at the start, each held by the pokemon it is on.         *)
ItemsKept ==
    LET bearers == {p \in Pokemon : Has(effects[p], "StickyBarb")}
    IN  calls = <<>> =>
          /\ Cardinality(bearers) =
             Cardinality({p \in Pokemon : itemName[p] = "StickyBarb"})
          /\ \A p \in bearers :
               \E e \in Living(effects[p]) : e.id = item[p] /\ e.kind = "StickyBarb"

(* What two parts of the code keep of a battle agrees when every call has  *)
(* returned, in whatever order effects answered each other, fainted,       *)
(* switched and replaced pokemon.                                          *)
BooksAgree == AbilityAgrees /\ MemoryOnField /\ ItemsKept
=============================================================================
