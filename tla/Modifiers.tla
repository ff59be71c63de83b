------------------------------ MODULE Modifiers ------------------------------
(***************************************************************************)
(* Effects on the whole field, and the modifiers of statistics and damage  *)
(* that all effects have (src/src/shoddybattle/BattleField.cpp and         *)
(* Pokemon.cpp, src/src/scripting/StatusObject.cpp, with the scripts under *)
(* src/resources).                                                         *)
(*                                                                         *)
(* An effect on the field is one object that is in the list of the field   *)
(* and in the list of every pokemon that stands on it; it is asked for its *)
(* modifier, and ticked, once for each list.  What makes it count once are *)
(* the keys of the modifiers, of which a later one replaces an earlier,    *)
(* and a flag that the scripts reset every turn.                           *)
(*                                                                         *)
(* Objects are known by their number.  Abilities, items and a burn are in  *)
(* the lists of their pokemon for good.  Not here: what the effects do to  *)
(* the health, but for a weather that may be fatal, and Cloud Nine.        *)
(*                                                                         *)
(* Definitions named Mutant... are wrong versions of the one that follows; *)
(* they are not used: they are there to see the properties fail.           *)
(***************************************************************************)
EXTENDS Integers, Sequences, SequencesExt, FiniteSets

CONSTANTS
    Mon,            \* the pokemon
    Side,           \* of each, 0 (the host's) or 1
    Lineups,        \* who may stand in the slots of each side at first
    Own,            \* the effects of its own that each has
    Duration,       \* five turns, in the scripts
    MaxDeeds,       \* bound: moves and abilities that change the field
    Vacant          \* a slot that is empty

(* GlobalEffect.EFFECTS, those that are here in their order; makePartyBuff-*)
(* Move makes Reflect.                                                     *)
EFFECTS == <<"Rain", "Sand", "Sun", "Gravity", "TrickRoom">>
Weather == 1 .. 3
Flagged == DOMAIN EFFECTS

ASSUME ModifiersAssumption ==
    /\ Side \in [Mon -> {0, 1}] /\ DOMAIN Own = Mon
    /\ \A x \in Mon : Own[x] \in Seq(STRING)
    /\ \A l \in Lineups : /\ DOMAIN l = {0, 1} /\ \A s \in {0, 1} : l[s] \in Seq(Mon \cup {Vacant})
                          /\ \A s \in {0, 1} : \A k \in DOMAIN l[s] :
                                l[s][k] /= Vacant => /\ Side[l[s][k]] = s
                                                     /\ \A n \in DOMAIN l[s] \ {k} : l[s][n] /= l[s][k]
    /\ Duration \in Nat \ {0} /\ Vacant \notin Mon

VARIABLES
    objects,        \* the effects on the field that were ever made
    forces,         \* BattleFieldImpl::effects
    lists,          \* Pokemon::m_effects, as far as they are of the field
    flags,          \* the flags of the GlobalEffectController
    slots,          \* the pokemon that stand on the field
    downed,         \* those that have fainted
    moment,         \* where the turn is
    due,            \* the effects that tickEffects has yet to tick
    deeds

fieldVars == <<objects, forces, lists, flags, slots, downed, moment, due, deeds>>

Spots == UNION {{<<s, k>> : k \in DOMAIN slots[s]} : s \in {0, 1}}
Holder(place) == slots[place[1]][place[2]]
Afoot == {Holder(place) : place \in Spots} \ (downed \cup {Vacant})
Reserve(s) == {x \in Mon \ downed : Side[x] = s /\ x \notin ToSet(slots[s])}
Beaten(s) == \A x \in Mon : Side[x] = s => x \in downed

-----------------------------------------------------------------------------
(* Lists of objects: what removeStatuses leaves of one, or a loop that     *)
(* passes over what is not active, in the order of the list.  A world is   *)
(* what the calls below change.                                            *)
Kept(list, ids) ==
    FoldLeft(LAMBDA rest, i : IF i \in ids THEN Append(rest, i) ELSE rest, <<>>, list)

World == [made |-> objects, lists |-> lists, forces |-> forces, on |-> Afoot]
Becomes(w) == objects' = w.made /\ lists' = w.lists /\ forces' = w.forces
IsWeather(i) == objects[i].kind \in {EFFECTS[g] : g \in Weather}
InForce(ids, made) == {i \in ToSet(ids) : ~made[i].gone}

(* Pokemon::applyStatus, of an effect that has no lock: one of the same    *)
(* name is in the way, and makePartyBuffMove's is for one side.            *)
Takes(x, i, w) ==
    /\ \A j \in InForce(w.lists[x], w.made) : w.made[j].kind /= w.made[i].kind
    /\ w.made[i].kind = "Reflect" => Side[x] = w.made[i].side

(* BattleField::applyStatus; nothing comes of it if nobody takes it.       *)
Impose(w, kind, s, turns) ==
    LET i == Len(w.made) + 1
        all == [w EXCEPT !.made = Append(@, [kind |-> kind, turns |-> turns,
                                             side |-> IF kind = "Reflect" THEN s ELSE 0,
                                             gone |-> FALSE, ticked |-> FALSE, age |-> 0])]
        takers == {x \in w.on : Takes(x, i, all)}
    IN  [all EXCEPT !.lists = [x \in Mon |-> IF x \in takers THEN Append(@[x], i) ELSE @[x]],
                    !.forces = IF takers = {} THEN @ ELSE Append(@, i)]

(* removeGlobalEffect, of those of a set that have their flag: the objects *)
(* stay in the lists.                                                      *)
Lifted(gs, w) ==
    [w EXCEPT !.made = [i \in DOMAIN @ |->
        IF @[i].kind \in {EFFECTS[g] : g \in gs \cap flags} THEN [@[i] EXCEPT !.gone = TRUE]
                                                            ELSE @[i]]]

(* applyEffects to a pokemon that comes in.                                *)
Entered(x, w) ==
    LET taken == {i \in InForce(w.forces, w.made) : Takes(x, i, w)}
    IN  [w EXCEPT !.lists[x] = @ \o Kept(w.forces, taken)]

(* switchOut: what is in force leaves the list with its pokemon.           *)
Departed(x, w) == [w EXCEPT !.lists[x] = Kept(@, {i \in DOMAIN w.made : w.made[i].gone})]

-----------------------------------------------------------------------------
(* What pokemon do.                                                        *)

Deed == /\ moment = "acting" /\ deeds < MaxDeeds /\ deeds' = deeds + 1
        /\ UNCHANGED <<slots, downed, moment, due>>

(* applyWeather.  Of several weathers at once the last may be called again.*)
Refused(g) ==
    LET on == {h \in Weather : h \in flags}
        newest == CHOOSE h \in on : \A f \in on : f <= h
    IN  g \in IF Cardinality(on) > 1 THEN on \ {newest} ELSE on
Called(x, g, turns) ==
    /\ Becomes(Impose(Lifted(Weather, World), EFFECTS[g], Side[x], turns))
    /\ flags' = (flags \ Weather) \cup {g}
UseWeather(x, g) == Deed /\ ~Refused(g) /\ Called(x, g, Duration)
(* makeWeatherAbility: the weather stays, even one that is there.          *)
ActivateWeather(x, g) ==
    /\ Deed
    /\ IF ~Refused(g) THEN Called(x, g, -1)
       ELSE /\ objects' = [i \in DOMAIN objects |->
                 IF i \in InForce(lists[x], objects) /\ objects[i].kind = EFFECTS[g]
                 THEN [objects[i] EXCEPT !.turns = -1] ELSE objects[i]]
            /\ UNCHANGED <<forces, lists, flags>>

UseGravity(x) ==
    /\ Deed /\ 4 \notin flags
    /\ Becomes(Impose(World, EFFECTS[4], Side[x], Duration)) /\ flags' = flags \cup {4}
UseTrickRoom(x) ==
    /\ Deed
    /\ Becomes(IF 5 \in flags THEN Lifted({5}, World)
               ELSE Impose(World, EFFECTS[5], Side[x], Duration))
    /\ flags' = IF 5 \in flags THEN flags \ {5} ELSE flags \cup {5}
UseReflect(x) ==
    /\ Deed /\ \A i \in InForce(lists[x], objects) : objects[i].kind /= "Reflect"
    /\ Becomes(Impose(World, "Reflect", Side[x], Duration)) /\ UNCHANGED flags

(* executeSwitchAction.                                                    *)
Switch(place, y) ==
    /\ moment = "acting" /\ Holder(place) \in Afoot /\ y \in Reserve(place[1])
    /\ slots' = [slots EXCEPT ![place[1]][place[2]] = y]
    /\ Becomes(Entered(y, Departed(Holder(place), World)))
    /\ UNCHANGED <<flags, downed, moment, due, deeds>>

(* simulateBufferOverflow: the host's Pursuit kills one that is leaving.   *)
AcidRain(first, w) ==
    FoldLeft(LAMBDA v, g : Impose(v, EFFECTS[g], 0, -1), w, [g \in 1 .. first - 1 |-> g])
Pursue(place, y) ==
    LET x == Holder(place)
        first == IF flags = {} THEN 1 ELSE CHOOSE g \in flags : \A h \in flags : g <= h
    IN  /\ moment = "acting" /\ place[1] = 1 /\ x \in Afoot /\ y \in Reserve(1)
        /\ \E z \in Afoot : Side[z] = 0
        /\ downed' = downed \cup {x}
        /\ slots' = [slots EXCEPT ![1][place[2]] = y]
        /\ Becomes(Entered(y, AcidRain(first, [World EXCEPT !.on = @ \ {x}])))
        /\ flags' = flags \cup 1 .. first - 1
        /\ UNCHANGED <<moment, due, deeds>>

GoDown(x) ==
    /\ moment = "acting" /\ x \in Afoot
    /\ downed' = downed \cup {x}
    /\ UNCHANGED <<objects, forces, lists, flags, slots, moment, due, deeds>>

-----------------------------------------------------------------------------
(* tickEffects.                                                            *)

(* beginTick of each effect: a weather has not been ticked, and Reflect    *)
(* counts its turns here.  Only weathers do anything when a pokemon ticks. *)
BeginTicks ==
    LET counted == [i \in DOMAIN objects |->
            IF i \notin InForce(forces, objects) THEN objects[i]
            ELSE IF objects[i].kind = "Reflect"
                 THEN [objects[i] EXCEPT !.turns = @ - 1, !.gone = objects[i].turns = 1]
                 ELSE [objects[i] EXCEPT !.ticked = FALSE]]
    IN  /\ moment = "acting" /\ moment' = "ticking"
        /\ objects' = counted
        /\ due' = UNION {{<<x, i>> : i \in {j \in InForce(lists[x], counted) : IsWeather(j)}} :
                             x \in Afoot}
        /\ UNCHANGED <<forces, lists, flags, slots, downed, deeds>>

GlobalOf(i) == CHOOSE g \in Flagged : EFFECTS[g] = objects[i].kind
(* tickField, and its like of Gravity and Trick Room.                      *)
Ends(i) == objects[i].turns = 1
TickedDown(i) == [objects[i] EXCEPT !.turns = IF @ = -1 THEN -1 ELSE @ - 1,
                                    !.ticked = TRUE, !.gone = Ends(i)]
Sooner(e, f) == GlobalOf(e[2]) < GlobalOf(f[2])     \* effectComparator

(* The first tick of a weather is for the field, and later ones are not.   *)
FirstTick(i) == ~objects[i].ticked
TickWeather(x, i, fatal) ==
    LET idle == x \in downed \/ objects[i].gone
        first == ~idle /\ FirstTick(i)
    IN  /\ moment = "ticking" /\ <<x, i>> \in due
        /\ \A other \in due : ~Sooner(other, <<x, i>>)
        /\ fatal => ~idle /\ 2 \in flags /\ ~(first /\ Ends(i))
        /\ due' = due \ {<<x, i>>}
        /\ objects' = IF first THEN [objects EXCEPT ![i] = TickedDown(i)] ELSE objects
        /\ flags' = IF first /\ Ends(i) THEN flags \ {GlobalOf(i)} ELSE flags
        /\ downed' = IF fatal THEN downed \cup {x} ELSE downed
        /\ UNCHANGED <<forces, lists, slots, moment, deeds>>

(* endTick of each effect: a weather that nobody ticked is counted now.    *)
(* Then what is removed leaves the lists of those who stand, and that of   *)
(* the field.                                                              *)
EndTicks ==
    LET late == {i \in InForce(forces, objects) : objects[i].kind /= "Reflect" /\ ~objects[i].ticked}
        made == [i \in DOMAIN objects |->
                    [(IF i \in late THEN TickedDown(i) ELSE objects[i])
                        EXCEPT !.age = IF i \in ToSet(forces) /\ objects[i].turns /= -1
                                       THEN @ + 1 ELSE @]]
    IN  /\ moment = "ticking" /\ due = {}
        /\ moment' = IF \E s \in {0, 1} : Beaten(s) THEN "over" ELSE "replacing"
        /\ objects' = made
        /\ flags' = flags \ {GlobalOf(i) : i \in {j \in late : Ends(j)}}
        /\ lists' = [x \in Mon |-> IF x \in Afoot
                        THEN Kept(lists[x], InForce(lists[x], made)) ELSE lists[x]]
        /\ forces' = Kept(forces, InForce(forces, made))
        /\ UNCHANGED <<slots, downed, due, deeds>>

(* determineVictory, between two tiers.                                    *)
WinBetweenTiers ==
    /\ moment = "ticking" /\ \E s \in {0, 1} : Beaten(s)
    /\ moment' = "over"
    /\ UNCHANGED <<objects, forces, lists, flags, slots, downed, due, deeds>>

SendIn(place, y) ==
    /\ moment = "replacing" /\ Holder(place) \in downed /\ y \in Reserve(place[1])
    /\ slots' = [slots EXCEPT ![place[1]][place[2]] = y]
    /\ Becomes(Entered(y, World))
    /\ UNCHANGED <<flags, downed, moment, due, deeds>>

TurnEnds ==
    /\ moment = "replacing"
    /\ \A place \in Spots : Holder(place) \in downed => Reserve(place[1]) = {}
    /\ moment' = "acting"
    /\ UNCHANGED <<objects, forces, lists, flags, slots, downed, due, deeds>>

-----------------------------------------------------------------------------
ModifiersInit ==
    /\ objects = <<>> /\ forces = <<>> /\ lists = [x \in Mon |-> <<>>] /\ flags = {}
    /\ slots \in Lineups /\ downed = {} /\ moment = "acting" /\ due = {} /\ deeds = 0

ModifiersNext ==
    \/ \E x \in Afoot :
         \/ \E g \in Weather : UseWeather(x, g) \/ ActivateWeather(x, g)
         \/ UseGravity(x) \/ UseTrickRoom(x) \/ UseReflect(x) \/ GoDown(x)
    \/ \E place \in Spots, y \in Mon : Switch(place, y) \/ Pursue(place, y) \/ SendIn(place, y)
    \/ BeginTicks \/ EndTicks \/ WinBetweenTiers \/ TurnEnds
    \/ \E e \in due, fatal \in BOOLEAN : TickWeather(e[1], e[2], fatal)

ModifiersSpec == ModifiersInit /\ [][ModifiersNext]_fieldVars

-----------------------------------------------------------------------------
(* Modifiers.  A question is about a number, with a user and a target.  An *)
(* effect speaks for its holder, who must be the user, the target, anybody *)
(* or one of the target's side; keys are a position and a priority, and    *)
(* those of statistics have no position.                                   *)

Speaks(about, whose, priority) ==
    [about |-> about, whose |-> whose, key |-> <<IF about = "damage" THEN 1 ELSE -1, priority>>]
Modifier ==
    [Compoundeyes |-> Speaks("accuracy", "user", 2), BrightPowder |-> Speaks("accuracy", "target", 8),
     SandVeil |-> Speaks("accuracy", "target", 3), WideLens |-> Speaks("accuracy", "user", 9),
     Gravity |-> Speaks("accuracy", "anybody", 12),
     Burn |-> Speaks("damage", "user", 0), Reflect |-> Speaks("damage", "side", 1),
     Rain |-> Speaks("damage", "anybody", 3), Sun |-> Speaks("damage", "anybody", 4),
     Sand |-> Speaks("defence", "anybody", 3),
     SwiftSwim |-> Speaks("speed", "user", 1), ChoiceScarf |-> Speaks("speed", "user", 4)]
Says(kind, holder, what) ==
    /\ kind \in DOMAIN Modifier /\ Modifier[kind].about = what.about
    /\ kind = "SandVeil" => 2 \in flags
    /\ kind = "SwiftSwim" => 1 \in flags
    /\ \/ Modifier[kind].whose = "user" /\ holder = what.user
       \/ Modifier[kind].whose = "target" /\ holder = what.target
       \/ Modifier[kind].whose = "side" /\ Side[holder] = Side[what.target]
       \/ Modifier[kind].whose = "anybody"

(* getModifiers and getStatModifiers: of the same key, the last one stays. *)
KindsOf(x) ==
    LET on == Kept(lists[x], InForce(lists[x], objects))
    IN  Own[x] \o [k \in DOMAIN on |-> objects[on[k]].kind]
MutantPut(mods, key, kind) ==
    [k \in DOMAIN mods \cup {key} |-> IF k /= key THEN mods[k]
        ELSE IF key \in DOMAIN mods THEN Append(mods[key], kind) ELSE <<kind>>]
Put(mods, key, kind) ==
    [k \in DOMAIN mods \cup {key} |-> IF k = key THEN <<kind>> ELSE mods[k]]
AskedOf(x, what, mods) ==
    FoldLeft(LAMBDA m, kind : IF Says(kind, x, what) THEN Put(m, Modifier[kind].key, kind) ELSE m,
             mods, KindsOf(x))
GetModifiers(what) ==
    FoldLeft(LAMBDA m, x : IF x \in Afoot THEN AskedOf(x, what, m) ELSE m,
             <<>>, slots[0] \o slots[1])

-----------------------------------------------------------------------------
(* Every effect that bears on a question counts in the answer, and once:   *)
(* neither does one that is in several lists count more often, nor does    *)
(* one hide another, whichever weathers Acid Rain has let in.              *)
Questions ==
    {[about |-> about, user |-> x, target |-> y] :
        about \in {"accuracy", "speed", "defence", "damage"}, x \in Afoot,
        y \in Afoot}
Bears(what) ==
    {kind \in UNION {ToSet(Own[x]) : x \in Afoot} :
        \E x \in Afoot : kind \in ToSet(Own[x]) /\ Says(kind, x, what)}
    \cup {objects[i].kind : i \in {j \in InForce(forces, objects) :
            \E x \in Afoot : /\ objects[j].kind = "Reflect" => objects[j].side = Side[x]
                             /\ Says(objects[j].kind, x, what)}}
CountsOnce ==
    moment \in {"acting", "replacing"} =>
        \A what \in Questions :
            LET mods == GetModifiers(what)
            IN  \A kind \in Bears(what) \cup UNION {ToSet(mods[k]) : k \in DOMAIN mods} :
                    Cardinality({at \in (DOMAIN mods) \X (1 .. 9) :
                        at[2] \in DOMAIN mods[at[1]] /\ mods[at[1]][at[2]] = kind}) = 1

(* An effect on the field is in the list of everybody who stands there and *)
(* whom it concerns, has its flag, and lasts its turns from the one it was *)
(* made in, unless it is called off, however many pokemon tick it and      *)
(* whoever comes, leaves or faints meanwhile.                              *)
LastsItsTurns ==
    moment \in {"acting", "replacing"} =>
         /\ \A i \in InForce(forces, objects), x \in Afoot :
              (objects[i].kind = "Reflect" => objects[i].side = Side[x])
                  => Cardinality({k \in DOMAIN lists[x] : lists[x][k] = i}) = 1
         /\ \A i \in DOMAIN objects :
              \/ objects[i].turns = -1
              \/ objects[i].gone /\ objects[i].turns > 0
              \/ objects[i].turns + objects[i].age = Duration
         /\ \A x \in Afoot : InForce(lists[x], objects) \subseteq InForce(forces, objects)
         /\ {objects[i].kind : i \in InForce(forces, objects)} \ {"Reflect"}
                = {EFFECTS[g] : g \in flags}

(* An effect that is in many lists is one effect: it lasts its turns and,  *)
(* while it does, counts once.                                             *)
OneOfMany == CountsOnce /\ LastsItsTurns
=============================================================================
