-------------------------------- MODULE Teams --------------------------------
(***************************************************************************)
(* What becomes of a team that a client sends: readPokemon, validateTeam,  *)
(* MetagameQueue::queueClient and the two handlers of a challenge in       *)
(* src/src/network/network.cpp, Pokemon::validate in Pokemon.cpp, and      *)
(* JewelMechanics::validateHiddenStats.  What is wrong with it is told in  *)
(* numbers that say which pokemon and which condition is meant, and the    *)
(* number of pokemon that they are to be read with.                        *)
(*                                                                         *)
(* Definitions named Mutant... are wrong versions of the one that follows; *)
(* they are not used: they are there to see the properties fail.           *)
(***************************************************************************)
EXTENDS Integers, Sequences, SequencesExt, FiniteSets

CONSTANTS
    SentTeams,      \* the teams that clients send: sequences of pokemon
    Learnset,       \* the moves that the species can learn
    Combinations,   \* its illegal combinations: moves, ability and gender
    AbilitiesOf,    \* its abilities
    Genders,        \* its genders, without G_NONE, which is 0
    MaxMoves,       \* P_MOVE_COUNT
    MaxTeamLength,  \* of the metagame, or of the challenge
    ClauseLists,    \* the sequences of clauses that may be in force
    IdxOf           \* the number of each clause

ASSUME TeamsAssumption ==
    /\ MaxMoves \in Nat /\ MaxTeamLength \in Nat \ {0}
    /\ \A clauses \in ClauseLists : \A c \in ToSet(clauses) : IdxOf[c] \in Nat

VARIABLES
    sent,           \* the team as it is in the message
    clauses,        \* those of the battle
    reply           \* what became of it

teamVars == <<sent, clauses, reply>>

-----------------------------------------------------------------------------
(* The constructor: moves that the species cannot learn are skipped.       *)
MovesOf(p) == SelectSeq(p.moves, LAMBDA m : m \in Learnset)

(* validateMoveCombinations: a combination counts if all its moves are     *)
(* there, and the ability and the gender if it names any.                  *)
NoCombination(p, moves) ==
    \A c \in Combinations :
        ~(/\ \A m \in c.moves : m \in ToSet(moves)
          /\ c.ability = "" \/ c.ability = p.ability
          /\ c.gender = 0 \/ c.gender = p.gender)

EvTotal(p) == FoldLeft(LAMBDA x, y : x + y, 0, p.evs)
(* validateHiddenStats, of one representative stat.                        *)
HiddenStats(p) ==
    /\ p.level >= 1 /\ p.level <= 100
    /\ p.iv >= 0 /\ p.iv <= 31
    /\ \A i \in DOMAIN p.evs : p.evs[i] >= 0 /\ p.evs[i] <= 255
    /\ EvTotal(p) <= 510

(* Pokemon::validate and the rest of validateTeam: the conditions that a   *)
(* pokemon breaks.  Four, the item, is not implemented.                    *)
Violations(p) ==
    LET moves == MovesOf(p)
        n == Len(moves)
    IN  {c \in 0 .. 8 :
           \/ c = 0 /\ (n <= 0 \/ n > MaxMoves \/ \E i, j \in 1 .. n : i < j /\ moves[i] = moves[j])
           \/ c = 1 /\ n /= Len(p.ppUps)
           \/ c = 2 /\ ~NoCombination(p, moves)
           \/ c = 3 /\ \E i \in DOMAIN p.ppUps : p.ppUps[i] < 0 \/ p.ppUps[i] > 3
           \/ c = 5 /\ p.ability \notin AbilitiesOf
           \/ c = 6 /\ p.gender \notin Genders /\ (p.gender /= 0 \/ Genders /= {})
           \/ c = 7 /\ ~HiddenStats(p)
           \/ c = 8 /\ p.banned}

(* The clauses, each by what it asks of a team and what it makes of it.    *)
ClauseHolds(clause, team) ==
    CASE clause = "Species Clause" ->
            \A i, j \in DOMAIN team : i /= j => team[i].species /= team[j].species
      [] clause = "Level 50 Clause" -> \A i \in DOMAIN team : team[i].level <= 50
      [] OTHER -> TRUE
Transformed(clause, team) ==
    IF clause = "Level Balance"
    THEN [i \in DOMAIN team |-> [team[i] EXCEPT !.level = 80]] ELSE team

(* The number for a condition that the i-th pokemon breaks.                *)
Code(size, i, condition) == -(i - 1) - 1 - (size * condition)

(* validateTeam: the clauses are asked first; if they are content, they    *)
(* transform the team, and every pokemon is looked at.                     *)
ValidateTeam(team) ==
    LET broken == {c \in ToSet(clauses) : ~ClauseHolds(c, team)}
        made == FoldLeft(LAMBDA t, c : Transformed(c, t), team, clauses)
        codes == IF broken /= {} THEN {IdxOf[c] : c \in broken}
                 ELSE UNION {{Code(Len(made), i, c) : c \in Violations(made[i])} :
                             i \in DOMAIN made}
    IN  [team |-> made, codes |-> codes]

(* The team is accepted or refused, with the numbers and with the size     *)
(* that they are to be read with.                                          *)
Answer(team, size) ==
    LET result == ValidateTeam(team)
    IN  reply' = IF result.codes = {} THEN [kind |-> "accepted", team |-> result.team]
                 ELSE [kind |-> "refused", codes |-> result.codes, size |-> size]

Pending == reply.kind = "none"

(* queueClient: a team that is too long is refused without a word.         *)
QueueClient ==
    /\ Pending
    /\ IF Len(sent) > MaxTeamLength THEN reply' = [kind |-> "ignored"]
       ELSE Answer(sent, Len(sent))
    /\ UNCHANGED <<sent, clauses>>

MutantChallengeTeam ==
    /\ Pending
    /\ Answer(sent, Len(sent))
    /\ UNCHANGED <<sent, clauses>>
(* handleResolveChallenge and handleChallengeTeam: it is cut to the length *)
(* of the challenge; the size is the one it had before.                    *)
ChallengeTeam ==
    /\ Pending
    /\ Answer(SubSeq(sent, 1, IF Len(sent) > MaxTeamLength THEN MaxTeamLength ELSE Len(sent)),
              Len(sent))
    /\ UNCHANGED <<sent, clauses>>

TeamInit ==
    /\ sent \in SentTeams
    /\ clauses \in ClauseLists
    /\ reply = [kind |-> "none"]

TeamNext == QueueClient \/ ChallengeTeam

TeamSpec == TeamInit /\ [][TeamNext]_teamVars

-----------------------------------------------------------------------------
(* A pokemon that may be played, as the rules have it.                     *)
Legal(p) ==
    /\ p.moves /= <<>> /\ Len(p.moves) <= MaxMoves
    /\ Cardinality(ToSet(p.moves)) = Len(p.moves) /\ ToSet(p.moves) \subseteq Learnset
    /\ ToSet(p.ppUps) \subseteq 0 .. 3
    /\ p.ability \in AbilitiesOf
    /\ p.gender \in (IF Genders = {} THEN {0} ELSE Genders)
    /\ \A c \in Combinations :
        c.moves \subseteq ToSet(p.moves) =>
            c.ability \notin {"", p.ability} \/ c.gender \notin {0, p.gender}
    /\ p.level \in 1 .. 100 /\ p.iv \in 0 .. 31 /\ ToSet(p.evs) \subseteq 0 .. 255
    /\ EvTotal(p) <= 510
    /\ ~p.banned

(* Whatever way a team takes, it is played only if each of its pokemon may *)
(* be, with the level that a clause gave it, and there are no more of them *)
(* than fit; and a refusal says what is wrong: read with the size that     *)
(* comes with it, its numbers name exactly the pokemon that may not be     *)
(* played and those clauses that are broken (validateTeam).  But of a team *)
(* that was cut, the size is not the one the numbers were made with.       *)
RefusalsNameTheFault ==
    LET named == {((-c - 1) % reply.size) + 1 : c \in {x \in reply.codes : x < 0}}
        asked == {c \in reply.codes : c >= 0}
    IN  /\ reply.kind = "accepted" =>
            /\ Len(reply.team) <= MaxTeamLength
            /\ \A i \in DOMAIN reply.team : Legal(reply.team[i])
        /\ reply.kind = "refused" /\ Len(sent) <= MaxTeamLength =>
            IF asked /= {}
            THEN named = {} /\ asked = {IdxOf[c] : c \in {d \in ToSet(clauses) : ~ClauseHolds(d, sent)}}
            ELSE LET balanced == "Level Balance" \in ToSet(clauses)
                     level(p) == IF balanced THEN 80 ELSE p.level
                 IN  named = {i \in DOMAIN sent : ~Legal([sent[i] EXCEPT !.level = level(sent[i])])}

=============================================================================
