------------------------------ MODULE TurnOrder ------------------------------
(***************************************************************************)
(* In what order pokemon act in a turn (BattleFieldImpl::sortInTurnOrder), *)
(* and in what order the targets of a move are hit                         *)
(* (BattleField::getTargetList, which calls sortBySpeed), both in          *)
(* src/src/shoddybattle/BattleField.cpp.                                   *)
(*                                                                         *)
(* Both call std::sort with a comparator that flips a coin for a tie and   *)
(* remembers the outcome, in a map that is part of the comparator: it is   *)
(* copied with it.  Neither "a before b iff not b before a" nor            *)
(* transitivity holds of such answers, and std::sort promises nothing for  *)
(* them.  So the sort itself is modelled, as libstdc++ does it for at most *)
(* sixteen elements: by insertion, with a copy of the comparator for each  *)
(* element that is not the first so far, and without a check for the       *)
(* beginning of the vector.                                                *)
(*                                                                         *)
(* Definitions named Mutant... are wrong versions of the one that follows; *)
(* they are not used: they are there to see the properties fail.           *)
(***************************************************************************)
EXTENDS Integers, Sequences, SequencesExt, FiniteSets

CONSTANTS
    PartySize,      \* the slots of a party
    Benched,        \* the pokemon of a team that are in no slot
    Speeds,
    Priorities,     \* of moves
    Inherent        \* the priorities that items and abilities give

ASSUME TurnOrderAssumption ==
    /\ PartySize \in Nat \ {0} /\ Benched \in Nat
    /\ Speeds \subseteq Nat /\ Priorities \subseteq Int /\ Inherent \subseteq Int

Parties == {0, 1}
(* A pokemon is its party and its position in the team.  Those in the      *)
(* slots come first.                                                       *)
Active == Parties \X (1 .. PartySize)
Team(i) == {i} \X (1 .. PartySize + Benched)

VARIABLES
    entities,       \* the vector that is sorted
    descendingSpeed, host,
    flips,          \* the map of the comparator: ordered pairs to outcomes
    copied,         \* the map of its copy
    next,           \* the index of the element to be inserted
    value,          \* the element that is being inserted
    hole,           \* the index where it would go, 0 if none is
    given           \* what the vector held at the start

orderVars == <<entities, descendingSpeed, host, flips, copied, next, value, hole, given>>
order == <<descendingSpeed, host, given>>

-----------------------------------------------------------------------------
(* The elements.                                                           *)

Switching(p) ==
    [pokemon |-> p, move |-> FALSE, priority |-> 0, inherent |-> 0, speed |-> 0]
Moving(p, priority, inherent, speed) ==
    [pokemon |-> p, move |-> TRUE, priority |-> priority, inherent |-> inherent,
     speed |-> speed]

(* The loops over parties and over slots, or over the team, find pokemon   *)
(* in this order.                                                          *)
FoundFirst(p, q) == p[1] < q[1] \/ (p[1] = q[1] /\ p[2] < q[2])
AsFound(found) ==
    CHOOSE f \in [1 .. Cardinality(found) -> found] :
        \A j, k \in DOMAIN f : j < k => FoundFirst(f[j], f[k])

(* The turns of the pokemon in the slots.                                  *)
TurnsOf(living) ==
    LET list == AsFound(living)
        turns == UNION {{Switching(p)} \cup
                         {Moving(p, m, n, v) : m \in Priorities, n \in Inherent, v \in Speeds} :
                            p \in living}
    IN  {s \in [1 .. Cardinality(living) -> turns] :
            \A k \in DOMAIN s : s[k].pokemon = list[k]}

(* getTargetList, for the classes of moves that have more than one target: *)
(* those who are alive among the enemies, all but the user, everybody, the *)
(* user's team.                                                            *)
TargetClasses == {"ENEMIES", "OTHERS", "ALL", "ALLIES"}
TargetList(class, user, living) ==
    LET party == user[1]
    IN  CASE class = "ENEMIES" -> {p \in Active \cap living : p[1] /= party}
          [] class = "OTHERS" -> (Active \cap living) \ {user}
          [] class = "ALL" -> Active \cap living
          [] class = "ALLIES" -> Team(party) \cap living

(* What sortBySpeed compares: nothing but the speed.                       *)
TargetsOf(class, user, living) ==
    LET targets == TargetList(class, user, living)
        list == AsFound(targets)
    IN  {s \in [1 .. Cardinality(targets) -> {Moving(p, 0, 0, v) : p \in targets, v \in Speeds}] :
            \A k \in DOMAIN s : s[k].pokemon = list[k]}

-----------------------------------------------------------------------------
(* The comparator.                                                         *)

MutantFlip(map, a, b) == {[yes |-> v, map |-> map] : v \in BOOLEAN}
(* The coin that is flipped for a tie, or the one that was.                *)
Flip(map, a, b) ==
    LET pair == <<a.pokemon, b.pokemon>>
    IN  IF pair \in DOMAIN map THEN {[yes |-> map[pair], map |-> map]}
        ELSE {[yes |-> v, map |-> [x \in DOMAIN map \cup {pair} |->
                                     IF x = pair THEN v ELSE map[x]]] : v \in BOOLEAN}

Faster(a, b) == IF descendingSpeed THEN a.speed > b.speed ELSE a.speed < b.speed

(* turnOrderComparator and speedComparator: whether a comes before b, and  *)
(* the map afterwards.                                                     *)
Compare(map, a, b) ==
    LET Certainly(v) == {[yes |-> v, map |-> map]}
    IN  IF a.move /= b.move THEN Certainly(~a.move)
        ELSE IF ~a.move
        THEN Certainly(IF a.pokemon[1] = b.pokemon[1]
                       THEN a.pokemon[2] < b.pokemon[2] ELSE a.pokemon[1] = host)
        ELSE IF a.priority /= b.priority THEN Certainly(a.priority > b.priority)
        ELSE IF a.inherent /= b.inherent THEN Certainly(a.inherent > b.inherent)
        ELSE IF a.speed /= b.speed THEN Certainly(Faster(a, b))
        ELSE Flip(map, a, b)

-----------------------------------------------------------------------------
(* std::sort.                                                              *)

NoFlips == [pair \in {} |-> TRUE]
Nobody == Switching(<<0, 0>>)
Sorting == next <= Len(entities)

MovedToFront(s, n) ==
    [k \in DOMAIN s |-> IF k = 1 THEN s[n] ELSE IF k <= n THEN s[k - 1] ELSE s[k]]

(* The next element is compared with the first.  If it goes before it, the *)
(* others make room; otherwise its place is looked for from its own end,   *)
(* with a copy of the comparator.                                          *)
TakeNext ==
    /\ Sorting /\ hole = 0
    /\ \E answer \in Compare(flips, entities[next], entities[1]) :
        /\ flips' = answer.map
        /\ IF answer.yes
           THEN /\ entities' = MovedToFront(entities, next)
                /\ next' = next + 1
                /\ UNCHANGED <<copied, value, hole>>
           ELSE /\ copied' = answer.map
                /\ value' = entities[next]
                /\ hole' = next
                /\ UNCHANGED <<entities, next>>
    /\ UNCHANGED order

(* The unguarded search: nothing stops it at the first element but the     *)
(* comparator.                                                             *)
Search ==
    /\ Sorting /\ hole > 1
    /\ \E answer \in Compare(copied, value, entities[hole - 1]) :
        IF answer.yes
        THEN /\ entities' = [entities EXCEPT ![hole] = entities[hole - 1]]
             /\ copied' = answer.map
             /\ hole' = hole - 1
             /\ UNCHANGED <<next, value>>
        ELSE /\ entities' = [entities EXCEPT ![hole] = value]
             /\ next' = next + 1
             /\ copied' = NoFlips /\ value' = Nobody /\ hole' = 0
    /\ UNCHANGED <<order, flips>>

OrderInit ==
    /\ descendingSpeed \in BOOLEAN /\ host \in Parties
    /\ \/ \E living \in SUBSET Active : entities \in TurnsOf(living)
       \/ \E user \in Active, class \in TargetClasses, living \in SUBSET (Active \cup Team(0)) :
            entities \in TargetsOf(class, user, living)
    /\ given = entities
    /\ flips = NoFlips /\ copied = NoFlips
    /\ next = 2 /\ value = Nobody /\ hole = 0

OrderNext == TakeNext \/ Search

OrderSpec == OrderInit /\ [][OrderNext]_orderVars

-----------------------------------------------------------------------------
(* The search never runs past the beginning of the vector, whatever the    *)
(* coins say: the copy of the comparator has the answer of the first       *)
(* comparison (sortInTurnOrder, sortBySpeed).                              *)
StaysInside == hole /= 1

(* The rank of an element, most significant first: who switches before who *)
(* moves, the host's party and the position in it, or the priority of the  *)
(* move, that of the bearer, and the speed.                                *)
Rank(e) ==
    IF e.move
    THEN <<1, -e.priority, -e.inherent, IF descendingSpeed THEN -e.speed ELSE e.speed>>
    ELSE <<0, IF e.pokemon[1] = host THEN 0 ELSE 1, e.pokemon[2], 0>>
Precedes(a, b) ==
    \E k \in 1 .. 4 : /\ Rank(a)[k] < Rank(b)[k]
                      /\ \A j \in 1 .. k - 1 : Rank(a)[j] = Rank(b)[j]

(* Coins only decide between those who are tied: when the sort has ended,  *)
(* nobody is missing or there twice, and nobody comes after one he         *)
(* precedes.                                                               *)
ActsInOrder ==
    ~Sorting =>
        /\ Len(entities) = Len(given) /\ ToSet(entities) = ToSet(given)
        /\ \A i \in DOMAIN entities, j \in DOMAIN entities :
            i < j => ~Precedes(entities[j], entities[i])

(* Although coins are tossed while it compares, the sort stays inside its  *)
(* vector, loses nobody and leaves nobody after one he precedes.           *)
SortsInOrder == StaysInside /\ ActsInOrder
=============================================================================
