------------------------------ MODULE Mechanics ------------------------------
(***************************************************************************)
(* The numbers of a battle (src/src/mechanics/JewelMechanics.cpp, stat.cpp *)
(* and the modifiers collected by Pokemon.cpp and BattleField.cpp): stats, *)
(* effective accuracy, type effectiveness and damage.                      *)
(*                                                                         *)
(* Every step of the code is in int and truncates; a factor is a double.   *)
(* Here it is a fraction <<numerator, denominator>>: for the factors that  *)
(* occur and the values below a few thousand both truncate to the same.    *)
(* An int of the code has 32 bits; the inputs are chosen so that no        *)
(* product exceeds them, and the README says where they are exceeded.      *)
(*                                                                         *)
(* Definitions named Mutant... are wrong versions of the one that follows; *)
(* they are not used: they are there to see the properties fail.           *)
(***************************************************************************)
EXTENDS Integers, Sequences, SequencesExt, FiniteSets

CONSTANTS
    Users, Targets, \* records of a pokemon: species base, iv, ev, level and
                    \* nature of the stat that counts, and its stat level
    MoveKinds,      \* records of a move: power, accuracy, whether the user
                    \* gets the bonus for its type, whether it explodes
    Surroundings    \* records of what the effects on the field give: the
                    \* modifiers of the stat, of the power and of the
                    \* damage, the immunities, the factors of the types

VARIABLE hit        \* the hit that is calculated, and what became of it

-----------------------------------------------------------------------------
(* x *= m                                                                  *)
Times(x, m) == (x * m[1]) \div m[2]
MultiplyBy(x, factors) == FoldLeft(Times, x, factors)

StatMultiplier(level) == IF level >= 0 THEN <<2 + level, 2>> ELSE <<2, 2 - level>>
AccuracyMultiplier(level) ==
    <<<<300, 266, 250, 200, 166, 133, 100, 75, 60, 50, 43, 36, 33>>[7 - level], 100>>

(* calculateStat of a stat other than the health.                          *)
CalculateStat(p) ==
    Times(((2 * p.base + p.iv + p.ev \div 4) * p.level) \div 100 + 5, p.nature)

-----------------------------------------------------------------------------
(* attemptHit: the accuracy of a move in percent, zero of one that cannot  *)
(* miss.                                                                   *)
Between(lower, upper, x) == IF x < lower THEN lower ELSE IF x > upper THEN upper ELSE x
EffectiveAccuracy(user, target, move, mods) ==
    MultiplyBy(move.accuracy,
               <<AccuracyMultiplier(Between(-6, 6, user.accuracy - target.evasion))>> \o mods)
Hits(accuracy, roll) == accuracy = 0 \/ roll <= accuracy

-----------------------------------------------------------------------------
(* Pokemon::getImmunities over the effects in their order: a vulnerability *)
(* takes an immunity back that was found before it.                        *)
Immunities(effects) ==
    FoldLeft(LAMBDA found, e :
                CASE e = "immunity" -> found \cup {"immunity"}
                  [] e = "vulnerability" ->
                        IF "immunity" \in found THEN found \ {"immunity"}
                        ELSE found \cup {"vulnerability"},
             {}, effects)

(* getEffectiveness: the factors that are multiplied; a factor of zero     *)
(* counts unless there is a vulnerability.                                 *)
Factors(around) ==
    SelectSeq(around.types,
              LAMBDA f : f[1] /= 0 \/ "vulnerability" \notin Immunities(around.effects))
NoEffect(around) ==
    \/ "immunity" \in Immunities(around.effects)
    \/ \E f \in ToSet(Factors(around)) : f[1] = 0

-----------------------------------------------------------------------------
(* calculateDamage.                                                        *)

MutantCountedLevel(critical, level, worse) ==
    IF critical /\ ~worse THEN 0 ELSE level
(* A critical hit ignores a stat level that is worse for the attacker.     *)
CountedLevel(critical, level, worse) == IF critical /\ worse THEN 0 ELSE level

Attack(user, critical, around) ==
    MultiplyBy(CalculateStat(user),
               <<StatMultiplier(CountedLevel(critical, user.level0, user.level0 < 0))>>
               \o around.attack)
(* Explosion is an effect of its own that halves the defence.              *)
Defence(target, critical, around, move) ==
    MultiplyBy(CalculateStat(target),
               <<StatMultiplier(CountedLevel(critical, target.level0, target.level0 > 0))>>
               \o around.defence \o IF move.explodes THEN <<<<1, 2>>>> ELSE <<>>)

(* With no defence left the division traps.                                *)
Defined(h, critical) == Defence(h.target, critical, h.around, h.move) > 0

(* roll is the random weight; the factor of a critical hit is three for    *)
(* the bearers of an ability.                                              *)
CalculateDamage(h, critical, roll) ==
    LET power == MultiplyBy(h.move.power, h.around.power)
        base == ((((h.user.level * 2) \div 5 + 2) * power
                    * Attack(h.user, critical, h.around)) \div 50)
                \div Defence(h.target, critical, h.around, h.move)
        spread == MultiplyBy(base, h.around.mod1
                                   \o IF h.targets > 1 THEN <<<<3, 4>>>> ELSE <<>>) + 2
        strong == MultiplyBy(IF critical THEN spread * h.user.critical ELSE spread,
                             h.around.mod2)
        weighted == ((strong * (roll * 100)) \div 255) \div 100
        typed == MultiplyBy(weighted, (IF h.move.stab THEN <<<<3, 2>>>> ELSE <<>>)
                                      \o Factors(h.around))
        final == MultiplyBy(typed, h.around.mod3)
    IN  IF NoEffect(h.around) THEN 0 ELSE IF final < 1 THEN 1 ELSE final

Rolls == {217, 236, 255}

-----------------------------------------------------------------------------
Untouched == [state |-> "none"]

Aimed ==
    \E user \in Users, target \in Targets, move \in MoveKinds, around \in Surroundings,
      n \in {1, 2} :
        /\ user.level = target.level
        /\ hit = [state |-> "aimed", user |-> user, target |-> target, move |-> move,
                  around |-> around, targets |-> n]

(* attemptHit with the best and the worst of the hundred rolls.            *)
Miss ==
    /\ hit.state = "aimed"
    /\ ~Hits(EffectiveAccuracy(hit.user, hit.target, hit.move, hit.around.accuracy), 100)
    /\ hit' = [hit EXCEPT !.state = "missed"]

Strike ==
    /\ hit.state = "aimed"
    /\ Hits(EffectiveAccuracy(hit.user, hit.target, hit.move, hit.around.accuracy), 1)
    /\ \E critical \in BOOLEAN, roll \in Rolls :
        /\ Defined(hit, critical)
        /\ hit' = [state |-> "hit", damage |-> CalculateDamage(hit, critical, roll)]

HitNext == Miss \/ Strike

-----------------------------------------------------------------------------
(* The hit h with one thing in the attacker's favour.                      *)
Stronger(h) ==
    {[h EXCEPT !.user.base = @ + 10], [h EXCEPT !.user.level = @ + 1],
     [h EXCEPT !.move.power = @ + 10], [h EXCEPT !.targets = 1],
     [h EXCEPT !.target.ev = 0]}
    \cup {x \in {[h EXCEPT !.user.level0 = @ + 1]} : x.user.level0 <= 6}
    \cup {x \in {[h EXCEPT !.target.level0 = @ - 1]} : x.target.level0 >= -6}

Accuracy(h) == EffectiveAccuracy(h.user, h.target, h.move, h.around.accuracy)

(* Rounding at every step and the exceptions for critical hits never turn  *)
(* an advantage into a loss.  More attack, level or power, a better stat   *)
(* level, a weaker target, a critical hit, do at least as much damage; a   *)
(* hit does nothing to whom it does not affect, and something to everybody *)
(* else (calculateDamage).  More evasion makes no move that can miss hit   *)
(* more often, nor one that cannot miss out of it (attemptHit).            *)
AdvantagesHelp ==
    hit.state = "aimed" =>
        /\ LET evaded == [hit EXCEPT !.target.evasion = @ + 1]
           IN  IF hit.move.accuracy = 0 THEN Accuracy(evaded) = 0
               ELSE 0 < Accuracy(evaded) /\ Accuracy(evaded) <= Accuracy(hit)
        /\ \A roll \in Rolls, critical \in BOOLEAN :
            Defined(hit, critical) =>
                LET d == CalculateDamage(hit, critical, roll)
                IN  /\ d = 0 <=> NoEffect(hit.around)
                    /\ ~critical /\ Defined(hit, TRUE) => d <= CalculateDamage(hit, TRUE, roll)
                    /\ \A h \in Stronger(hit) :
                        Defined(h, critical) => d <= CalculateDamage(h, critical, roll)

=============================================================================
