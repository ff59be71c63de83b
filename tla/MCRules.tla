------------------------------- MODULE MCRules -------------------------------
(* The rules of a battle, one at a time, for they share no state: what     *)
(* moves do (Effects, watched by a spectator), in which order, with which  *)
(* numbers, to which teams, what the players may choose, the effects on    *)
(* the field, and teams that are read from files.                          *)
EXTENDS Spectators, TurnOrder, Mechanics, Teams, Choices, Modifiers, TeamFiles, TLC

CONSTANTS p1, p2, p3

(* Effects: a pokemon with a reserve against one.                          *)
PartiesOf == (p1 :> 0) @@ (p2 :> 0) @@ (p3 :> 1)
LeadsOf == (0 :> p1) @@ (1 :> p3)
NaturalOf ==
    {(p1 :> x[1]) @@ (p2 :> "Limber") @@ (p3 :> x[2]) :
        x \in {<<"Aftermath", "RoughSkin">>, <<"Static", "Synchronize">>,
               <<"NaturalCure", "RoughSkin">>}}
NoItem == [x \in Pokemon |-> None]
HoldingsOf == {[NoItem EXCEPT ![p1] = "StickyBarb", ![p3] = "JabocaBerry"]}
(* What FaintsOnce does not survive: a lethal blow is answered by a berry. *)
Enigma == {[NoItem EXCEPT ![p3] = "EnigmaBerry"]}

(* Hits: levels 5 and 99, the lowest and the highest stat levels.          *)
UsersOf ==
    {[base |-> x[1], iv |-> 31, ev |-> x[2], level |-> x[3], nature |-> x[4],
      level0 |-> s, accuracy |-> s, critical |-> 2 + (x[1] % 2)] :
        x \in {<<5, 0, 5, <<9, 10>>>>, <<120, 252, 5, <<11, 10>>>>,
               <<60, 0, 99, <<9, 10>>>>, <<120, 252, 99, <<11, 10>>>>},
        s \in {-6, 0, 6}}
TargetsOfHits ==
    {[base |-> x[1], iv |-> x[2], ev |-> 252, level |-> x[3], nature |-> <<9, 10>>,
      level0 |-> s, evasion |-> s] :
        x \in {<<5, 0, 5>>, <<80, 31, 5>>, <<60, 0, 99>>, <<80, 31, 99>>}, s \in {-6, 6}}
MovesOfHits ==
    {[power |-> x[1], accuracy |-> x[2], stab |-> x[3], explodes |-> x[4]] :
        x \in {<<40, 100, FALSE, FALSE>>, <<120, 70, TRUE, FALSE>>, <<250, 100, TRUE, TRUE>>,
               <<150, 30, FALSE, FALSE>>, <<80, 0, FALSE, FALSE>>}}
Around(stat, power, accuracy, m, types, listed) ==
    [attack |-> stat, defence |-> <<>>, power |-> power, accuracy |-> accuracy,
     mod1 |-> m, mod2 |-> m, mod3 |-> m, types |-> types, effects |-> listed]
SurroundingsOf ==
    {Around(<<>>, <<>>, <<>>, <<>>, <<<<1, 1>>>>, <<>>),
     Around(<<<<3, 2>>>>, <<>>, <<<<9, 10>>, <<4, 5>>>>, <<<<1, 2>>>>,
            <<<<1, 2>>, <<1, 2>>>>, <<>>),
     Around(<<>>, <<<<6, 5>>>>, <<<<5, 3>>>>, <<<<6, 5>>>>,
            <<<<2, 1>>, <<2, 1>>>>, <<"immunity", "vulnerability">>),
     Around(<<>>, <<>>, <<>>, <<>>, <<<<0, 1>>, <<2, 1>>>>, <<"vulnerability">>),
     Around(<<>>, <<>>, <<>>, <<>>, <<<<0, 1>>, <<2, 1>>>>, <<>>),
     Around(<<>>, <<>>, <<>>, <<>>, <<<<1, 1>>>>, <<"vulnerability", "immunity">>)}

(* Teams: one pokemon with much that may be wrong, or up to three.         *)
Fair ==
    [species |-> "m", moves |-> <<"Surf">>, ppUps |-> <<0>>, ability |-> "Static", gender |-> 1,
     level |-> 50, iv |-> 31, evs |-> <<255, 255>>, banned |-> FALSE]
MoveLists == UNION {[1 .. n -> {"Surf", "Curse", "Fly"}] : n \in 0 .. 3}
Taught ==
    {[Fair EXCEPT !.moves = m, !.ppUps = [i \in DOMAIN m |-> u], !.ability = y, !.gender = g] :
        m \in MoveLists, u \in {0, 3, 4}, y \in {"Static", "Intimidate", "Levitate"}, g \in 0 .. 2}
Raised ==
    {[Fair EXCEPT !.level = l, !.iv = i, !.evs = e, !.banned = z] :
        l \in {0, 1, 51, 100, 101}, i \in {-1, 0, 31, 32}, z \in BOOLEAN,
        e \in {<<0, 255>>, <<255, 255>>, <<255, 256>>, <<255, 255, 1>>, <<-1, 4>>}}
Few ==
    {Fair, [Fair EXCEPT !.species = "n"], [Fair EXCEPT !.level = 101, !.moves = <<"Fly">>],
     [Fair EXCEPT !.banned = TRUE, !.gender = 0],
     [Fair EXCEPT !.moves = <<"Surf", "Curse">>, !.ppUps = <<4, 0>>]}
SentOf == {<<t>> : t \in Taught \cup Raised} \cup UNION {[1 .. n -> Few] : n \in 1 .. 3}
CombinationsOf ==
    {[moves |-> {"Surf", "Curse"}, ability |-> "", gender |-> 2],
     [moves |-> {"Curse"}, ability |-> "Intimidate", gender |-> 0]}
ClausesOf ==
    {<<>>, <<"Species Clause", "Level 50 Clause">>, <<"Level Balance">>,
     <<"Level 50 Clause", "Level Balance">>}
Idx == ("Species Clause" :> 0) @@ ("Level 50 Clause" :> 1) @@ ("Level Balance" :> 2)

(* Choices: a pokemon with Pressure against one with a choice item, which  *)
(* has a reserve, so that a turn may find no target and yet go on.         *)
StartersOf == (p1 :> 1) @@ (p2 :> 0) @@ (p3 :> 1)
KnownOf ==
    (p1 :> <<"Outrage">>) @@ (p2 :> <<"Fly">>) @@ (p3 :> <<"HyperBeam", "Disable">>)
PointsOf == [m \in DOMAIN Template |-> IF m = "Outrage" THEN 2 ELSE 1]

(* Modifiers: one against one who has a reserve, or against two; the sides *)
(* are those of Choices too.                                               *)
LineupsOf == {(0 :> <<p1>>) @@ (1 :> <<p2, Vacant>>), (0 :> <<p1>>) @@ (1 :> <<p2, p3>>)}
TeamsOf == (p1 :> 0) @@ (p2 :> 1) @@ (p3 :> 1)
OwnOf ==
    (p1 :> <<"Compoundeyes", "Burn", "WideLens">>) @@ (p2 :> <<"SwiftSwim", "ChoiceScarf">>)
        @@ (p3 :> <<"SandVeil", "BrightPowder">>)

(* Team files: one without an item, moves or shine, two with a move, an    *)
(* item and a nature in common, one of them with the name of the first,    *)
(* and one with a move twice that has the name of its item.                *)
Recruit(n, i, m, t, l) ==
    [name |-> n, species |-> l, level |-> l, shiny |-> IF i = "" THEN "false" ELSE "true",
     ability |-> "Static", item |-> i, nature |-> t,
     moves |-> [k \in 1 .. PMoveCount |-> IF k <= Len(m) THEN m[k] ELSE ""],
     ppUp |-> [k \in 1 .. PMoveCount |-> (l + k) % 4]]
Recruits ==
    {Recruit("Pikachu", "", <<>>, 0, 5), Recruit("Raichu", "Leftovers", <<"Surf", "Fly">>, 24, 50),
     Recruit("Pikachu", "Leftovers", <<"Fly">>, 24, 100),
     Recruit("Ditto", "Metronome", <<"Metronome", "Surf", "Surf", "Fly">>, 3, 1)}
NoTeam == [team |-> <<>>, shared |-> TRUE, genuine |-> FALSE]
FilesOf ==
    {NoTeam} \cup
    [team : {<<x>> : x \in Recruits} \cup {<<x, y>> \in Recruits \X Recruits : x.level <= y.level},
     shared : BOOLEAN, genuine : {TRUE}]

-----------------------------------------------------------------------------
BattleIdle ==
    /\ name = [x \in Pokemon |-> "Limber"] /\ itemName = NoItem
    /\ hp = [x \in Pokemon |-> 0] /\ fainted = [x \in Pokemon |-> TRUE]
    /\ told = [x \in Pokemon |-> 1]
    /\ effects = [x \in Pokemon |-> <<>>]
    /\ ability = [x \in Pokemon |-> 0] /\ item = [x \in Pokemon |-> 0]
    /\ memory = [x \in Pokemon |-> {}] /\ active = Leads
    /\ executing = <<>> /\ calls = <<>>
    /\ phase = "none" /\ todo = {} /\ ticks = {} /\ turn = 0
    /\ revealed = {} /\ watching = FALSE /\ view = <<>>
OrderIdle ==
    /\ entities = <<>> /\ given = <<>> /\ descendingSpeed = TRUE /\ host = 0
    /\ flips = NoFlips /\ copied = NoFlips /\ next = 2 /\ value = Nobody /\ hole = 0
TeamIdle == sent = <<>> /\ clauses = <<>> /\ reply = [kind |-> "idle"]
HitIdle == hit = Untouched
ChoicesIdle == Start("over")
FieldIdle ==
    /\ objects = <<>> /\ forces = <<>> /\ lists = [x \in Mon |-> <<>>] /\ flags = {}
    /\ slots = CHOOSE l \in Lineups : TRUE
    /\ downed = {} /\ moment = "over" /\ due = {} /\ deeds = 0

FilesIdle ==
    /\ loads = [k \in 1 .. MaxLoads |-> [file |-> NoTeam, answer |-> FALSE, lost |-> FALSE]]
    /\ team = <<>>

RulesInit ==
    \/ WatchInit /\ OrderIdle /\ HitIdle /\ TeamIdle /\ ChoicesIdle /\ FieldIdle /\ FilesIdle
    \/ BattleIdle /\ OrderInit /\ HitIdle /\ TeamIdle /\ ChoicesIdle /\ FieldIdle /\ FilesIdle
    \/ BattleIdle /\ OrderIdle /\ Aimed /\ TeamIdle /\ ChoicesIdle /\ FieldIdle /\ FilesIdle
    \/ BattleIdle /\ OrderIdle /\ HitIdle /\ TeamInit /\ ChoicesIdle /\ FieldIdle /\ FilesIdle
    \/ BattleIdle /\ OrderIdle /\ HitIdle /\ TeamIdle /\ ChoicesInit /\ FieldIdle /\ FilesIdle
    \/ BattleIdle /\ OrderIdle /\ HitIdle /\ TeamIdle /\ ChoicesIdle /\ ModifiersInit /\ FilesIdle
    \/ BattleIdle /\ OrderIdle /\ HitIdle /\ TeamIdle /\ ChoicesIdle /\ FieldIdle /\ FilesInit

RulesNext ==
    \/ /\ phase /= "none" /\ WatchNext
       /\ UNCHANGED <<orderVars, hit, teamVars, choiceVars, fieldVars, fileVars>>
    \/ /\ entities /= <<>> /\ OrderNext
       /\ UNCHANGED <<vars, viewVars, hit, teamVars, choiceVars, fieldVars, fileVars>>
    \/ /\ hit /= Untouched /\ HitNext
       /\ UNCHANGED <<vars, viewVars, orderVars, teamVars, choiceVars, fieldVars, fileVars>>
    \/ /\ sent /= <<>> /\ TeamNext
       /\ UNCHANGED <<vars, viewVars, orderVars, hit, choiceVars, fieldVars, fileVars>>
    \/ /\ stage /= "over" /\ ChoicesNext
       /\ UNCHANGED <<vars, viewVars, orderVars, hit, teamVars, fieldVars, fileVars>>
    \/ /\ moment /= "over" /\ ModifiersNext
       /\ UNCHANGED <<vars, viewVars, orderVars, hit, teamVars, choiceVars, fileVars>>
    \/ /\ FilesNext
       /\ UNCHANGED <<vars, viewVars, orderVars, hit, teamVars, choiceVars, fieldVars>>

RulesSpec ==
    RulesInit /\ [][RulesNext]_<<vars, viewVars, orderVars, hit, teamVars, choiceVars, fieldVars,
                              fileVars>>

=============================================================================
