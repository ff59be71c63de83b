---------------------------- MODULE ChoicesProofs ---------------------------
(* Theorems about what players may and have to choose (Choices): that      *)
(* whoever is asked can answer (AskedCan), and that moves that go on force *)
(* their user and cost him once (BindInv, PaidInv); and about the effects  *)
(* on the field that change what a pokemon does (Modifiers): that whoever  *)
(* is on the field has what is in force there in its list (FieldInv), and  *)
(* so that of what several effects say of the same thing one counts.       *)
EXTENDS Choices, Modifiers, SequenceTheorems, FunctionTheorems, FiniteSetTheorems,
        NaturalsInduction, WellFoundedInduction, TLAPS

-----------------------------------------------------------------------------
(* What a pokemon is bound by.                                             *)
LEMMA WithNew ==
  ASSUME NEW b, NEW e, NEW v
  PROVE  With(b, e, v)[e] = v
BY DEF With

LEMMA WithOld ==
  ASSUME NEW b, NEW e, NEW v, NEW d \in DOMAIN b, d # e
  PROVE  With(b, e, v)[d] = b[d]
BY DEF With

LEMMA WithDomain ==
  ASSUME NEW b, NEW e, NEW v
  PROVE  DOMAIN With(b, e, v) = DOMAIN b \cup {e}
BY DEF With

LEMMA WithoutIs ==
  ASSUME NEW b, NEW e
  PROVE  /\ DOMAIN Without(b, e) = DOMAIN b \ {e}
         /\ \A d \in DOMAIN b : d # e => Without(b, e)[d] = b[d]
BY DEF Without

LEMMA CountedIs ==
  ASSUME NEW b, NEW e
  PROVE  /\ \A d : d # e => (d \in DOMAIN Counted(b, e) <=> d \in DOMAIN b)
         /\ e \in DOMAIN Counted(b, e) <=> e \in DOMAIN b /\ b[e] # 1
         /\ \A d \in DOMAIN b : d # e => Counted(b, e)[d] = b[d]
         /\ e \in DOMAIN Counted(b, e) => Counted(b, e)[e] = b[e] - 1
<1>1. CASE e \notin DOMAIN b
  BY <1>1 DEF Counted
<1>2. CASE e \in DOMAIN b /\ b[e] = 1
  <2>1. Counted(b, e) = Without(b, e)
    BY <1>2 DEF Counted
  <2>2. /\ DOMAIN Without(b, e) = DOMAIN b \ {e}
        /\ \A d \in DOMAIN b : d # e => Without(b, e)[d] = b[d]
    BY WithoutIs
  <2> QED
    BY <1>2, <2>1, <2>2
<1>3. CASE e \in DOMAIN b /\ b[e] # 1
  <2>1. Counted(b, e) = With(b, e, b[e] - 1)
    BY <1>3 DEF Counted
  <2>2. DOMAIN With(b, e, b[e] - 1) = DOMAIN b \cup {e}
    BY WithDomain
  <2>3. With(b, e, b[e] - 1)[e] = b[e] - 1
    BY WithNew
  <2>4. \A d \in DOMAIN b : d # e => With(b, e, b[e] - 1)[d] = b[d]
    BY WithOld
  <2> QED
    BY <1>3, <2>1, <2>2, <2>3, <2>4
<1> QED
  BY <1>1, <1>2, <1>3

(* Rest and charge are counted down, a rampage until it ends.              *)
LEMMA FinishedIs ==
  ASSUME NEW x, NEW m
  PROVE  /\ \A e \in {"recharge", "charge"} :
                /\ e \in DOMAIN Finished(x, m) <=> e \in DOMAIN bound[x] /\ bound[x][e] # 1
                /\ e \in DOMAIN Finished(x, m) => Finished(x, m)[e] = bound[x][e] - 1
         /\ "rampage" \in DOMAIN Finished(x, m)
                <=> "rampage" \in DOMAIN bound[x] /\ ~RampageEnds(x, m)
<1> DEFINE first == Counted(bound[x], "recharge")
           one == Counted(first, "charge")
           two == IF RampageEnds(x, m) THEN Without(one, "rampage") ELSE Counted(one, "rampage")
<1>1. /\ "recharge" \in DOMAIN first <=> "recharge" \in DOMAIN bound[x] /\ bound[x]["recharge"] # 1
      /\ "recharge" \in DOMAIN first => first["recharge"] = bound[x]["recharge"] - 1
      /\ \A d : d # "recharge" => (d \in DOMAIN first <=> d \in DOMAIN bound[x])
      /\ \A d \in DOMAIN bound[x] : d # "recharge" => first[d] = bound[x][d]
  BY CountedIs
<1>2. /\ "charge" \in DOMAIN one <=> "charge" \in DOMAIN first /\ first["charge"] # 1
      /\ "charge" \in DOMAIN one => one["charge"] = first["charge"] - 1
      /\ \A d : d # "charge" => (d \in DOMAIN one <=> d \in DOMAIN first)
      /\ \A d \in DOMAIN first : d # "charge" => one[d] = first[d]
  <2> HIDE DEF first
  <2> QED
    BY CountedIs
<1> HIDE DEF first
<1>3. /\ \A d : d # "rampage" => (d \in DOMAIN two <=> d \in DOMAIN one)
      /\ \A d \in DOMAIN one : d # "rampage" => two[d] = one[d]
      /\ "rampage" \in DOMAIN two <=> "rampage" \in DOMAIN one /\ ~RampageEnds(x, m)
  <2> HIDE DEF one
  <2>1. CASE RampageEnds(x, m)
    BY <2>1, WithoutIs
  <2>2. CASE ~RampageEnds(x, m)
    <3>1. "rampage" \in DOMAIN one => one["rampage"] # 1
      BY <2>2, <1>1, <1>2 DEF RampageEnds, HasEffect
    <3> QED
      BY <2>2, <3>1, CountedIs
  <2> QED
    BY <2>1, <2>2
<1>4. /\ \A d : d # "locked" => (d \in DOMAIN Finished(x, m) <=> d \in DOMAIN two)
      /\ \A d \in DOMAIN two : d # "locked" => Finished(x, m)[d] = two[d]
  <2>1. Finished(x, m) = IF x \in Choosy /\ Slot(x, m) # {} /\ ~HasEffect(x, "locked")
                         THEN With(two, "locked", m) ELSE two
    BY DEF Finished, first, one, two
  <2> HIDE DEF two
  <2>2. DOMAIN With(two, "locked", m) = DOMAIN two \cup {"locked"}
    BY WithDomain
  <2>3. \A d \in DOMAIN two : d # "locked" => With(two, "locked", m)[d] = two[d]
    BY WithOld
  <2> QED
    BY <2>1, <2>2, <2>3
<1> HIDE DEF one, two
<1> QED
  BY <1>1, <1>2, <1>3, <1>4

LEMMA UnboundHasNone == DOMAIN <<>> = {}
OBVIOUS

(* Whoever uses a move, of his own will or not, knows what it binds with.  *)
MayUse(x, m) ==
    m \in DOMAIN Template /\ (Template[m].binds = "no" \/ Knows(x, Template[m].binds))

LEMMA KnownMoves ==
  ASSUME NEW x \in Fighter
  PROVE  /\ \A i \in DOMAIN Known[x] : MayUse(x, Known[x][i]) /\ Points[Known[x][i]] \in Nat
         /\ DOMAIN Known[x] # {}
<1>1. Known[x] \in Seq(DOMAIN Template \ {"Struggle"}) /\ Known[x] # <<>>
  BY ChoicesAssumption
<1>2. ASSUME NEW i \in DOMAIN Known[x]
      PROVE  MayUse(x, Known[x][i]) /\ Points[Known[x][i]] \in Nat
  <2>1. Known[x][i] \in DOMAIN Template
    BY <1>1, <1>2
  <2> QED
    BY <2>1, ChoicesAssumption DEF MayUse, Knows
<1>3. DOMAIN Known[x] # {}
  BY <1>1
<1> QED
  BY <1>2, <1>3

LEMMA StruggleFree == \A x : MayUse(x, "Struggle")
BY DEF MayUse, Template

Stages == {"think", "ask", "act", "prepare", "use", "finish", "replace", "over"}
Running == stage \in {"prepare", "use", "finish"}
Binding == {"rampage", "recharge", "charge"}

ForcedOK(x) ==
    \/ forced[x] = Free
    \/ forced[x].type \in {"move", "action"} /\ MayUse(x, forced[x].move)
OrderOK(x) ==
    \/ orders[x] = NoTurn
    \/ orders[x].type = "move" /\ orders[x].id \in DOMAIN Known[x]
    \/ /\ orders[x].type = "switch"
       /\ orders[x].id \in Fighter \ {x} /\ SideOf[orders[x].id] = SideOf[x]
    \/ orders[x].type = "forced" /\ (x \notin dead => forced[x] # Free)
PointsOK(x) == pp[x] \in [DOMAIN Known[x] -> Nat] /\ answers[x] \in [DOMAIN Known[x] -> Nat]
EffectsOK(x) == \A e \in Binding : HasEffect(x, e) => Knows(x, e)
ActingOK ==
    /\ acting.by \in Fighter /\ acting.target \in Fighter
    /\ acting.choice \in BOOLEAN /\ acting.done \in BOOLEAN
    /\ MayUse(acting.by, acting.move) /\ orders[acting.by] = NoTurn

DomainsOK ==
    /\ field \in [Fighter -> 0 .. Slots] /\ dead \subseteq Fighter /\ stage \in Stages
    /\ DOMAIN pp = Fighter /\ DOMAIN answers = Fighter /\ DOMAIN forced = Fighter
    /\ DOMAIN bound = Fighter /\ DOMAIN orders = Fighter
ChoiceTypes ==
    /\ DomainsOK
    /\ \A x \in Fighter : PointsOK(x) /\ ForcedOK(x) /\ OrderOK(x) /\ EffectsOK(x)
    /\ Running => ActingOK

LEMMA ChoiceTypesInit == ChoicesInit => ChoiceTypes
<1> SUFFICES ASSUME ChoicesInit PROVE ChoiceTypes
  OBVIOUS
<1> USE DEF ChoicesInit, Start
<1>1. DomainsOK
  BY ChoicesAssumption DEF DomainsOK, Stages
<1>2. ASSUME NEW x \in Fighter PROVE PointsOK(x) /\ ForcedOK(x) /\ OrderOK(x) /\ EffectsOK(x)
  <2>1. PointsOK(x)
    BY KnownMoves DEF PointsOK
  <2>2. EffectsOK(x)
    BY UnboundHasNone DEF EffectsOK, HasEffect
  <2> QED
    BY <2>1, <2>2 DEF ForcedOK, OrderOK
<1> QED
  BY <1>1, <1>2 DEF ChoiceTypes, Running

LEMMA TypesDetermine == ASSUME ChoiceTypes, DetermineLegalActions PROVE ChoiceTypes'
<1>1. DomainsOK' /\ ~Running'
  BY DEF ChoiceTypes, DomainsOK, DetermineLegalActions, Stages, Running
<1>2. ASSUME NEW x \in Fighter PROVE PointsOK(x)' /\ ForcedOK(x)' /\ OrderOK(x)' /\ EffectsOK(x)'
  <2>1. PointsOK(x) /\ ForcedOK(x) /\ OrderOK(x) /\ EffectsOK(x)
    BY DEF ChoiceTypes
  <2>2. forced'[x] = forced[x] \/ forced'[x] = ForcedMove("Struggle", Nowhere, "move")
    BY DEF DetermineLegalActions
  <2>3. ForcedOK(x)' /\ (forced[x] # Free => forced'[x] # Free)
    BY <2>1, <2>2, StruggleFree DEF ForcedOK, ForcedMove, Free
  <2> QED
    BY <2>1, <2>3 DEF DetermineLegalActions, PointsOK, OrderOK, EffectsOK, HasEffect
<1> QED
  BY <1>1, <1>2 DEF ChoiceTypes

(* Whom an answer names is on the bench of his side.                       *)
LEMMA SwitchLegal ==
  ASSUME NEW x \in Fighting, NEW t, IsTurnLegal(x, t), t.type = "switch"
  PROVE  t.id \in Fighter \ {x} /\ SideOf[t.id] = SideOf[x]
BY ChoicesAssumption DEF IsTurnLegal, Bench, Fighting, Standing, On

LEMMA AnswerIs ==
  ASSUME NEW x \in Fighter, NEW t \in MoveAnswers(x) \cup SwitchAnswers(x)
  PROVE  (t.type = "move" /\ t.id \in DOMAIN Known[x]) \/ t.type = "switch"
BY DEF MoveAnswers, SwitchAnswers, TurnOf

LEMMA TypesAnswer ==
  ASSUME ChoiceTypes, stage = "ask", NEW y \in Awaited,
         NEW t \in MoveAnswers(y) \cup SwitchAnswers(y), GiveAnswer(y, t)
  PROVE  ChoiceTypes'
<1>1. DomainsOK' /\ ~Running'
  BY DEF ChoiceTypes, DomainsOK, GiveAnswer, Stages, Running
<1>2. y \in Fighter /\ y \in Fighting
  BY DEF Awaited, Fighting, Standing, On
<1>3. (t.type = "move" /\ t.id \in DOMAIN Known[y])
        \/ (t.type = "switch" /\ t.id \in Fighter \ {y} /\ SideOf[t.id] = SideOf[y])
  BY <1>2, AnswerIs, SwitchLegal DEF GiveAnswer
<1>4. ASSUME NEW x \in Fighter PROVE PointsOK(x)' /\ ForcedOK(x)' /\ OrderOK(x)' /\ EffectsOK(x)'
  <2>1. PointsOK(x) /\ ForcedOK(x) /\ OrderOK(x) /\ EffectsOK(x) /\ DomainsOK
    BY DEF ChoiceTypes
  <2>2. PointsOK(x)'
    <3>1. CASE answers' = answers
      BY <2>1, <3>1 DEF PointsOK, GiveAnswer
    <3>2. CASE t.type = "move" /\ answers' = [answers EXCEPT ![y][t.id] = @ + 1]
      BY <1>2, <1>3, <2>1, <3>2 DEF PointsOK, DomainsOK, GiveAnswer
    <3> QED
      BY <3>1, <3>2 DEF GiveAnswer
  <2>3. OrderOK(x)'
    BY <1>2, <1>3, <2>1 DEF OrderOK, DomainsOK, GiveAnswer
  <2> QED
    BY <2>1, <2>2, <2>3 DEF GiveAnswer, ForcedOK, EffectsOK, HasEffect
<1> QED
  BY <1>1, <1>4 DEF ChoiceTypes

LEMMA TypesProcess == ASSUME ChoiceTypes, ProcessTurn PROVE ChoiceTypes'
<1>1. DomainsOK' /\ ~Running'
  BY DEF ChoiceTypes, DomainsOK, ProcessTurn, Stages, Running
<1>2. ASSUME NEW x \in Fighter PROVE PointsOK(x)' /\ ForcedOK(x)' /\ OrderOK(x)' /\ EffectsOK(x)'
  <2>1. PointsOK(x) /\ ForcedOK(x) /\ OrderOK(x) /\ EffectsOK(x)
    BY DEF ChoiceTypes
  <2>2. OrderOK(x)'
    <3>1. CASE x \in Fighting /\ Imposed(x)
      <4>1. forced[x] # Free
        BY <3>1 DEF Imposed, Free
      <4>2. orders'[x] = TurnOf("forced", 0, forced[x].target) /\ forced' = forced
        BY <3>1 DEF ProcessTurn
      <4> QED
        BY <4>1, <4>2 DEF OrderOK, TurnOf
    <3>2. CASE ~(x \in Fighting /\ Imposed(x))
      BY <3>2, <2>1 DEF OrderOK, ProcessTurn
    <3> QED
      BY <3>1, <3>2
  <2> QED
    BY <2>1, <2>2 DEF ProcessTurn, PointsOK, ForcedOK, EffectsOK, HasEffect
<1> QED
  BY <1>1, <1>2 DEF ChoiceTypes

LEMMA TypesSwitch ==
  ASSUME ChoiceTypes, NEW y \in Fighter, ExecuteSwitch(y)
  PROVE  ChoiceTypes'
<1>0. DomainsOK /\ OrderOK(y)
  BY DEF ChoiceTypes
<1>1. orders[y].id \in Fighter /\ field[y] \in 0 .. Slots /\ 0 \in 0 .. Slots
  BY <1>0, ChoicesAssumption DEF OrderOK, DomainsOK, ExecuteSwitch, NoTurn
<1>2. DomainsOK' /\ ~Running'
  BY <1>0, <1>1 DEF DomainsOK, ExecuteSwitch, Ready, Stages, Running, ClearForcedTurn
<1>3. ASSUME NEW x \in Fighter PROVE PointsOK(x)' /\ ForcedOK(x)' /\ OrderOK(x)' /\ EffectsOK(x)'
  <2>1. PointsOK(x) /\ ForcedOK(x) /\ OrderOK(x) /\ EffectsOK(x)
    BY DEF ChoiceTypes
  <2>2. CASE x = y
    <3>1. forced'[x] = Free /\ bound'[x] = <<>> /\ orders'[x] = NoTurn
      BY <1>0, <2>2 DEF ExecuteSwitch, ClearForcedTurn, DomainsOK
    <3> QED
      BY <2>1, <3>1, UnboundHasNone
      DEF ExecuteSwitch, ForcedOK, OrderOK, EffectsOK, HasEffect, PointsOK
  <2>3. CASE x # y
    <3>1. forced'[x] = forced[x] /\ bound'[x] = bound[x] /\ orders'[x] = orders[x]
      BY <1>0, <2>3 DEF ExecuteSwitch, ClearForcedTurn, DomainsOK
    <3> QED
      BY <2>1, <3>1 DEF ExecuteSwitch, ForcedOK, OrderOK, EffectsOK, HasEffect, PointsOK
  <2> QED
    BY <2>2, <2>3
<1> QED
  BY <1>2, <1>3 DEF ChoiceTypes

LEMMA TypesBegin ==
  ASSUME ChoiceTypes, NEW y \in Fighter, NEW stopped \in BOOLEAN, BeginExecution(y, stopped)
  PROVE  ChoiceTypes'
<1> DEFINE m == IF orders[y].type = "move" THEN Known[y][orders[y].id] ELSE forced[y].move
<1>0. DomainsOK /\ OrderOK(y) /\ ForcedOK(y)
  BY DEF ChoiceTypes
<1>1. y \in Fighting /\ y \notin dead /\ orders[y] # NoTurn /\ orders[y].type # "switch"
  BY DEF BeginExecution, Ready, Fighting, Standing
<1>2. MayUse(y, m)
  <2>1. CASE orders[y].type = "move"
    BY <1>0, <1>1, <2>1, KnownMoves DEF OrderOK
  <2>2. CASE orders[y].type # "move"
    BY <1>0, <1>1, <2>2 DEF OrderOK, ForcedOK
  <2> QED
    BY <2>1, <2>2
<1>3. DomainsOK' /\ forced'[y] = Free /\ orders'[y] = NoTurn
      /\ \A x \in Fighter \ {y} : forced'[x] = forced[x] /\ orders'[x] = orders[x]
  BY <1>0 DEF DomainsOK, BeginExecution, Stages, ClearForcedTurn
<1>4. ASSUME NEW x \in Fighter PROVE PointsOK(x)' /\ ForcedOK(x)' /\ OrderOK(x)' /\ EffectsOK(x)'
  <2>1. PointsOK(x) /\ ForcedOK(x) /\ OrderOK(x) /\ EffectsOK(x)
    BY DEF ChoiceTypes
  <2>2. PointsOK(x)' /\ EffectsOK(x)'
    BY <2>1 DEF BeginExecution, PointsOK, EffectsOK, HasEffect
  <2>3. ForcedOK(x)' /\ OrderOK(x)'
    BY <1>3, <2>1 DEF BeginExecution, ForcedOK, OrderOK
  <2> QED
    BY <2>2, <2>3
<1>5. ActingOK'
  <2>1. PICK t \in TargetsFor(y, m, orders[y].target) \cup {y}, done \in BOOLEAN :
          acting' = [by |-> y, move |-> m, id |-> orders[y].id, choice |-> orders[y].type = "move",
                     target |-> t, done |-> done]
    BY DEF BeginExecution
  <2>2. t \in Fighter
    BY <2>1 DEF TargetsFor, At, Standing, On
  <2> QED
    BY <1>2, <1>3, <2>1, <2>2 DEF ActingOK
<1> QED
  BY <1>3, <1>4, <1>5 DEF ChoiceTypes

LEMMA TypesPrepare == ASSUME ChoiceTypes, PrepareSelf PROVE ChoiceTypes'
<1> DEFINE y == acting.by
           m == acting.move
<1>0. DomainsOK /\ ActingOK /\ PointsOK(y) /\ y \in Fighter
  BY DEF ChoiceTypes, PrepareSelf, Running, ActingOK
<1>1. Pressed(y, m) \in [DOMAIN Known[y] -> Nat]
  BY <1>0 DEF Pressed, PointsOK
<1>2. /\ DOMAIN forced' = Fighter /\ DOMAIN bound' = Fighter
      /\ \A x \in Fighter \ {y} : forced'[x] = forced[x] /\ bound'[x] = bound[x]
      /\ \/ forced'[y] = forced[y]
         \/ \E place : forced'[y] = ForcedMove(m, place, "action")
      /\ \/ bound'[y] = bound[y]
         \/ \E turns : bound'[y] = With(bound[y], Template[m].binds, turns)
                      /\ Template[m].binds \in {"rampage", "charge"}
  BY <1>0 DEF PrepareSelf, DomainsOK
<1>3. DomainsOK'
  BY <1>0, <1>2 DEF DomainsOK, PrepareSelf, Stages
<1>4. ActingOK'
  BY <1>0 DEF PrepareSelf, ActingOK
<1>5. ASSUME NEW x \in Fighter PROVE PointsOK(x)' /\ ForcedOK(x)' /\ OrderOK(x)' /\ EffectsOK(x)'
  <2>1. PointsOK(x) /\ ForcedOK(x) /\ OrderOK(x) /\ EffectsOK(x)
    BY DEF ChoiceTypes
  <2>2. PointsOK(x)'
    BY <1>0, <1>1, <2>1 DEF PrepareSelf, PointsOK, DomainsOK
  <2>3. ForcedOK(x)' /\ (forced[x] # Free => forced'[x] # Free)
    <3>1. CASE forced'[x] = forced[x]
      BY <2>1, <3>1 DEF ForcedOK
    <3>2. CASE x = y /\ \E place : forced'[y] = ForcedMove(m, place, "action")
      BY <1>0, <3>2 DEF ForcedOK, ForcedMove, Free, ActingOK
    <3> QED
      BY <1>2, <3>1, <3>2
  <2>4. OrderOK(x)'
    BY <2>1, <2>3 DEF PrepareSelf, OrderOK
  <2>5. EffectsOK(x)'
    <3>1. CASE x = y
      <4>1. \A e \in Binding : e \in DOMAIN bound'[x] => e \in DOMAIN bound[x]
                                    \/ (e = Template[m].binds /\ e \in {"rampage", "charge"})
        <5>1. CASE bound'[y] = bound[y]
          BY <3>1, <5>1
        <5>2. ASSUME NEW turns, bound'[y] = With(bound[y], Template[m].binds, turns),
                     Template[m].binds \in {"rampage", "charge"}
              PROVE  \A e \in Binding : e \in DOMAIN bound'[x] => e \in DOMAIN bound[x]
                                    \/ (e = Template[m].binds /\ e \in {"rampage", "charge"})
          <6>1. DOMAIN With(bound[y], Template[m].binds, turns)
                    = DOMAIN bound[y] \cup {Template[m].binds}
            BY WithDomain
          <6> QED
            BY <3>1, <5>2, <6>1
        <5> QED
          BY <1>2, <5>1, <5>2
      <4> QED
        BY <1>0, <2>1, <3>1, <4>1 DEF EffectsOK, HasEffect, ActingOK, MayUse
    <3>2. CASE x # y
      <4>1. bound'[x] = bound[x]
        BY <1>0, <1>2, <3>2 DEF DomainsOK
      <4> QED
        BY <2>1, <4>1 DEF EffectsOK, HasEffect
    <3> QED
      BY <3>1, <3>2
  <2> QED
    BY <2>2, <2>3, <2>4, <2>5
<1> QED
  BY <1>3, <1>4, <1>5 DEF ChoiceTypes

(* What using a move leaves alone.                                         *)
LEMMA TypesUse ==
  ASSUME ChoiceTypes, Uses, Rest, DOMAIN forced' = Fighter, DOMAIN bound' = Fighter,
         dead \subseteq dead', dead' \subseteq Fighter,
         \A x \in Fighter : ForcedOK(x)' /\ EffectsOK(x)',
         \A x \in Fighter : x \in dead' \/ orders[x] = NoTurn \/ forced'[x] = forced[x]
  PROVE  ChoiceTypes'
<1>1. DomainsOK' /\ ActingOK'
  BY DEF ChoiceTypes, DomainsOK, ActingOK, Uses, Rest, Running, Stages
<1>2. ASSUME NEW x \in Fighter PROVE PointsOK(x)' /\ OrderOK(x)'
  <2>1. PointsOK(x) /\ OrderOK(x)
    BY DEF ChoiceTypes
  <2> QED
    BY <2>1 DEF Rest, PointsOK, OrderOK
<1> QED
  BY <1>1, <1>2 DEF ChoiceTypes

LEMMA TypesMisses == ASSUME ChoiceTypes, Misses PROVE ChoiceTypes'
<1>1. \A x \in Fighter : ForcedOK(x)' /\ EffectsOK(x)'
  BY DEF Misses, ChoiceTypes, ForcedOK, EffectsOK, HasEffect
<1> QED
  BY <1>1, TypesUse DEF Misses, ChoiceTypes, DomainsOK

LEMMA TypesNoDamage == ASSUME ChoiceTypes, DoesNoDamage PROVE ChoiceTypes'
<1> DEFINE y == acting.by
<1>0. DomainsOK /\ ActingOK /\ y \in Fighter
  BY DEF ChoiceTypes, DoesNoDamage, Uses, Running, ActingOK
<1>1. /\ DOMAIN forced' = Fighter /\ DOMAIN bound' = Fighter /\ dead' = dead
      /\ \A x \in Fighter \ {y} : forced'[x] = forced[x] /\ bound'[x] = bound[x]
      /\ forced'[y] = Free /\ bound'[y] = Without(bound[y], "rampage")
  BY <1>0 DEF DoesNoDamage, DomainsOK, ClearForcedTurn
<1>2. ASSUME NEW x \in Fighter PROVE ForcedOK(x)' /\ EffectsOK(x)'
  <2>1. ForcedOK(x) /\ EffectsOK(x)
    BY DEF ChoiceTypes
  <2>2. DOMAIN bound'[x] \subseteq DOMAIN bound[x]
    <3>1. DOMAIN Without(bound[y], "rampage") = DOMAIN bound[y] \ {"rampage"}
      BY WithoutIs
    <3> QED
      BY <1>1, <3>1
  <2> QED
    BY <1>1, <2>1, <2>2 DEF ForcedOK, EffectsOK, HasEffect
<1> QED
  BY <1>0, <1>1, <1>2, TypesUse DEF DoesNoDamage, DomainsOK, ActingOK

LEMMA TypesStrikes ==
  ASSUME ChoiceTypes, NEW casualties \in SUBSET {acting.by, acting.target}, Strikes(casualties)
  PROVE  ChoiceTypes'
<1> DEFINE y == acting.by
           m == acting.move
<1>0. DomainsOK /\ ActingOK /\ y \in Fighter /\ acting.target \in Fighter
  BY DEF ChoiceTypes, Strikes, Uses, Running, ActingOK
<1>1. dead \subseteq dead' /\ dead' \subseteq Fighter
  BY <1>0 DEF Strikes, DomainsOK
<1>2. CASE Template[m].binds = "recharge"
  <2>1. /\ DOMAIN forced' = Fighter /\ DOMAIN bound' = Fighter
        /\ \A x \in Fighter \ {y} : forced'[x] = forced[x] /\ bound'[x] = bound[x]
        /\ forced'[y] = ForcedMove(m, Position(acting.target), "action")
        /\ bound'[y] = With(bound[y], "recharge", 2)
    BY <1>0, <1>2 DEF Strikes, DomainsOK
  <2>2. ASSUME NEW x \in Fighter PROVE ForcedOK(x)' /\ EffectsOK(x)'
    <3>1. ForcedOK(x) /\ EffectsOK(x)
      BY DEF ChoiceTypes
    <3>2. CASE x = y
      <4>1. ForcedOK(x)'
        BY <1>0, <2>1, <3>2 DEF ForcedOK, ForcedMove, ActingOK
      <4>2. DOMAIN bound'[x] = DOMAIN bound[x] \cup {"recharge"}
        <5>1. DOMAIN With(bound[y], "recharge", 2) = DOMAIN bound[y] \cup {"recharge"}
          BY WithDomain
        <5> QED
          BY <2>1, <3>2, <5>1
      <4>3. Knows(x, "recharge")
        BY <1>0, <1>2, <3>2 DEF ActingOK, MayUse
      <4> QED
        BY <3>1, <4>1, <4>2, <4>3 DEF EffectsOK, HasEffect
    <3>3. CASE x # y
      BY <2>1, <3>1, <3>3 DEF ForcedOK, EffectsOK, HasEffect
    <3> QED
      BY <3>2, <3>3
  <2> QED
    BY <1>0, <1>1, <2>1, <2>2, TypesUse DEF Strikes, ActingOK
<1>3. CASE Template[m].binds # "recharge"
  <2>1. forced' = forced /\ bound' = bound
    BY <1>3 DEF Strikes
  <2>2. \A x \in Fighter : ForcedOK(x)' /\ EffectsOK(x)'
    BY <2>1 DEF ChoiceTypes, ForcedOK, EffectsOK, HasEffect
  <2> QED
    BY <1>0, <1>1, <2>1, <2>2, TypesUse DEF Strikes, DomainsOK
<1> QED
  BY <1>2, <1>3

(* What a move forbids binds nobody.                                       *)
LEMMA ForbidsIs ==
  ASSUME ChoiceTypes, Forbids
  PROVE  /\ forced' = forced /\ dead' = dead /\ DOMAIN bound' = Fighter
         /\ \A x \in Fighter : \A e \in Binding :
                /\ HasEffect(x, e)' <=> HasEffect(x, e)
                /\ HasEffect(x, e) => bound'[x][e] = bound[x][e]
<1>1. forced' = forced /\ dead' = dead
  BY DEF Forbids
<1>2. DomainsOK /\ acting.target \in Fighter
  BY DEF ChoiceTypes, Forbids, Uses, Running, ActingOK
<1>3. PICK e \in {"taunt", "torment", "disable"}, v \in {0, lastMove[acting.target]} :
        bound' = [bound EXCEPT ![acting.target] = With(@, e, v)]
  BY DEF Forbids
<1>4. DOMAIN bound' = Fighter
  BY <1>2, <1>3 DEF DomainsOK
<1>5. ASSUME NEW x \in Fighter, NEW d \in Binding
      PROVE  /\ HasEffect(x, d)' <=> HasEffect(x, d)
             /\ HasEffect(x, d) => bound'[x][d] = bound[x][d]
  <2>1. CASE x # acting.target
    BY <1>2, <1>3, <2>1 DEF HasEffect, DomainsOK
  <2>2. CASE x = acting.target
    <3>1. bound'[x] = With(bound[x], e, v)
      BY <1>2, <1>3, <2>2 DEF DomainsOK
    <3>2. DOMAIN With(bound[x], e, v) = DOMAIN bound[x] \cup {e}
      BY WithDomain
    <3>3. d # e
      BY DEF Binding
    <3>4. d \in DOMAIN bound[x] => With(bound[x], e, v)[d] = bound[x][d]
      BY <3>3, WithOld
    <3> QED
      BY <3>1, <3>2, <3>3, <3>4 DEF HasEffect
  <2> QED
    BY <2>1, <2>2
<1> QED
  BY <1>1, <1>4, <1>5

LEMMA TypesForbids == ASSUME ChoiceTypes, Forbids PROVE ChoiceTypes'
<1>1. \A x \in Fighter : ForcedOK(x)' /\ EffectsOK(x)'
  <2> SUFFICES ASSUME NEW x \in Fighter PROVE ForcedOK(x)' /\ EffectsOK(x)'
    OBVIOUS
  <2>1. ForcedOK(x) /\ EffectsOK(x)
    BY DEF ChoiceTypes
  <2> QED
    BY <2>1, ForbidsIs DEF ForcedOK, EffectsOK
<1> QED
  BY <1>1, ForbidsIs, TypesUse DEF Forbids, ChoiceTypes, DomainsOK

(* What is over when a move is finished.                                   *)
LEMMA FinishIs ==
  ASSUME ChoiceTypes, FinishExecution, NEW x, x = acting.by,
         NEW m, m = IF acting.done THEN acting.move ELSE NoMove
  PROVE  /\ x \in Fighter /\ DOMAIN bound' = Fighter /\ DOMAIN forced' = Fighter
         /\ \A y \in Fighter \ {x} : forced'[y] = forced[y] /\ bound'[y] = bound[y]
         /\ \A e \in {"recharge", "charge"} :
                /\ HasEffect(x, e)' <=> HasEffect(x, e) /\ bound[x][e] # 1
                /\ HasEffect(x, e)' => bound'[x][e] = bound[x][e] - 1
         /\ HasEffect(x, "rampage")' <=> HasEffect(x, "rampage") /\ ~RampageEnds(x, m)
         /\ forced'[x] = IF RampageEnds(x, m) THEN Free ELSE forced[x]
<1> DEFINE b == Finished(x, m)
<1>1. DomainsOK /\ x \in Fighter
  BY DEF ChoiceTypes, FinishExecution, Running, ActingOK
<1>2. /\ DOMAIN bound' = Fighter /\ DOMAIN forced' = Fighter
      /\ \A y \in Fighter \ {x} : forced'[y] = forced[y] /\ bound'[y] = bound[y]
      /\ forced'[x] = IF RampageEnds(x, m) THEN Free ELSE forced[x]
      /\ bound'[x] = b \/ bound'[x] = Without(b, "disable")
  BY <1>1 DEF FinishExecution, DomainsOK, ClearForcedTurn
<1> HIDE DEF b
<1>3. \A e \in Binding : /\ e \in DOMAIN bound'[x] <=> e \in DOMAIN b
                         /\ e \in DOMAIN b => bound'[x][e] = b[e]
  <2>1. CASE bound'[x] = b
    BY <2>1
  <2>2. CASE bound'[x] = Without(b, "disable")
    <3>1. /\ DOMAIN Without(b, "disable") = DOMAIN b \ {"disable"}
          /\ \A d \in DOMAIN b : d # "disable" => Without(b, "disable")[d] = b[d]
      BY WithoutIs
    <3> QED
      BY <2>2, <3>1 DEF Binding
  <2> QED
    BY <1>2, <2>1, <2>2
<1>4. /\ \A e \in {"recharge", "charge"} :
            /\ e \in DOMAIN b <=> e \in DOMAIN bound[x] /\ bound[x][e] # 1
            /\ e \in DOMAIN b => b[e] = bound[x][e] - 1
      /\ "rampage" \in DOMAIN b <=> "rampage" \in DOMAIN bound[x] /\ ~RampageEnds(x, m)
  BY FinishedIs DEF b
<1>5. \A e \in {"recharge", "charge"} :
        /\ HasEffect(x, e)' <=> HasEffect(x, e) /\ bound[x][e] # 1
        /\ HasEffect(x, e)' => bound'[x][e] = bound[x][e] - 1
  BY <1>3, <1>4 DEF HasEffect, Binding
<1>6. HasEffect(x, "rampage")' <=> HasEffect(x, "rampage") /\ ~RampageEnds(x, m)
  BY <1>3, <1>4 DEF HasEffect, Binding
<1> QED
  BY <1>1, <1>2, <1>5, <1>6

LEMMA TypesFinish == ASSUME ChoiceTypes, FinishExecution PROVE ChoiceTypes'
<1>1. PICK x, m : x = acting.by /\ m = IF acting.done THEN acting.move ELSE NoMove
  OBVIOUS
<1>2. /\ x \in Fighter /\ DOMAIN bound' = Fighter /\ DOMAIN forced' = Fighter
      /\ \A y \in Fighter \ {x} : forced'[y] = forced[y] /\ bound'[y] = bound[y]
      /\ \A e \in Binding : HasEffect(x, e)' => HasEffect(x, e)
      /\ forced'[x] = Free \/ forced'[x] = forced[x]
  BY <1>1, FinishIs DEF Binding
<1>3. DomainsOK /\ ActingOK
  BY DEF ChoiceTypes, FinishExecution, Running
<1>4. DomainsOK' /\ ~Running'
  BY <1>2, <1>3 DEF DomainsOK, FinishExecution, Stages, Running
<1>5. ASSUME NEW y \in Fighter PROVE PointsOK(y)' /\ ForcedOK(y)' /\ OrderOK(y)' /\ EffectsOK(y)'
  <2>1. PointsOK(y) /\ ForcedOK(y) /\ OrderOK(y) /\ EffectsOK(y)
    BY DEF ChoiceTypes
  <2>2. PointsOK(y)'
    <3>1. CASE y = x
      <4>1. pp'[y] = Deducted(y)
        BY <1>1, <1>2, <1>3, <3>1 DEF FinishExecution, DomainsOK
      <4>2. Deducted(y) \in [DOMAIN Known[y] -> Nat]
        BY <2>1 DEF Deducted, PointsOK
      <4> QED
        BY <2>1, <4>1, <4>2 DEF PointsOK, FinishExecution
    <3>2. CASE y # x
      BY <1>1, <1>3, <2>1, <3>2 DEF PointsOK, FinishExecution, DomainsOK
    <3> QED
      BY <3>1, <3>2
  <2>3. ForcedOK(y)' /\ EffectsOK(y)'
    <3>1. CASE y = x
      BY <1>2, <2>1, <3>1 DEF ForcedOK, EffectsOK
    <3>2. CASE y # x
      BY <1>2, <2>1, <3>2 DEF ForcedOK, EffectsOK, HasEffect
    <3> QED
      BY <3>1, <3>2
  <2>4. OrderOK(y)'
    <3>1. CASE y = x
      BY <1>1, <1>3, <3>1 DEF OrderOK, ActingOK, FinishExecution
    <3>2. CASE y # x
      BY <1>2, <2>1, <3>2 DEF OrderOK, FinishExecution
    <3> QED
      BY <3>1, <3>2
  <2> QED
    BY <2>2, <2>3, <2>4
<1> QED
  BY <1>4, <1>5 DEF ChoiceTypes

LEMMA TypesEnd == ASSUME ChoiceTypes, EndTurn PROVE ChoiceTypes'
<1>1. DomainsOK' /\ ~Running'
  BY DEF ChoiceTypes, DomainsOK, EndTurn, Stages, Running
<1>2. ASSUME NEW x \in Fighter PROVE PointsOK(x)' /\ ForcedOK(x)' /\ OrderOK(x)' /\ EffectsOK(x)'
  <2>1. PointsOK(x) /\ ForcedOK(x) /\ OrderOK(x) /\ EffectsOK(x)
    BY DEF ChoiceTypes
  <2>2. bound'[x] = bound[x] \/ bound'[x] = Without(bound[x], "taunt")
    BY DEF EndTurn
  <2>3. DOMAIN Without(bound[x], "taunt") = DOMAIN bound[x] \ {"taunt"}
    BY WithoutIs
  <2> QED
    BY <2>1, <2>2, <2>3 DEF EndTurn, PointsOK, ForcedOK, OrderOK, EffectsOK, HasEffect
<1> QED
  BY <1>1, <1>2 DEF ChoiceTypes

LEMMA TypesReplace ==
  ASSUME ChoiceTypes, NEW x \in Fighter, NEW y \in Fighter, Replacement(x, y)
  PROVE  ChoiceTypes'
<1>0. DomainsOK /\ ~Running
  BY DEF ChoiceTypes, Replacement, Running
<1>1. field[x] \in 0 .. Slots /\ 0 \in 0 .. Slots
  BY <1>0, ChoicesAssumption DEF DomainsOK
<1>2. DomainsOK' /\ ~Running'
  BY <1>0, <1>1 DEF DomainsOK, Replacement, Running
<1>3. \A z \in Fighter : PointsOK(z)' /\ ForcedOK(z)' /\ OrderOK(z)' /\ EffectsOK(z)'
  BY DEF ChoiceTypes, Replacement, PointsOK, ForcedOK, OrderOK, EffectsOK, HasEffect
<1> QED
  BY <1>2, <1>3 DEF ChoiceTypes

LEMMA TypesStage ==
  ASSUME ChoiceTypes, stage' \in Stages, ~Running',
         UNCHANGED <<field, dead, pp, answers, forced, lastMove, bound, orders, acting>>
  PROVE  ChoiceTypes'
<1>1. DomainsOK'
  BY DEF ChoiceTypes, DomainsOK
<1>2. \A z \in Fighter : PointsOK(z)' /\ ForcedOK(z)' /\ OrderOK(z)' /\ EffectsOK(z)'
  BY DEF ChoiceTypes, PointsOK, ForcedOK, OrderOK, EffectsOK, HasEffect
<1> QED
  BY <1>1, <1>2 DEF ChoiceTypes

LEMMA ChoiceTypesNext == ChoiceTypes /\ [ChoicesNext]_choiceVars => ChoiceTypes'
<1> SUFFICES ASSUME ChoiceTypes, [ChoicesNext]_choiceVars PROVE ChoiceTypes'
  OBVIOUS
<1>1. CASE DetermineLegalActions
  BY <1>1, TypesDetermine
<1>2. CASE ProcessTurn
  BY <1>2, TypesProcess
<1>3. CASE stage = "ask" /\ \E x \in Awaited : \E t \in MoveAnswers(x) \cup SwitchAnswers(x) :
                GiveAnswer(x, t)
  BY <1>3, TypesAnswer
<1>4. CASE \E x \in Fighter : ExecuteSwitch(x)
  BY <1>4, TypesSwitch
<1>5. CASE \E x \in Fighter : \E stopped \in BOOLEAN : BeginExecution(x, stopped)
  BY <1>5, TypesBegin
<1>6. CASE PrepareSelf
  BY <1>6, TypesPrepare
<1>7. CASE Misses
  BY <1>7, TypesMisses
<1>8. CASE DoesNoDamage
  BY <1>8, TypesNoDamage
<1>9. CASE Forbids
  BY <1>9, TypesForbids
<1>10. CASE \E casualties \in SUBSET {acting.by, acting.target} : Strikes(casualties)
  BY <1>10, TypesStrikes
<1>11. CASE FinishExecution
  BY <1>11, TypesFinish
<1>12. CASE Win
  BY <1>12, TypesStage DEF Win, Stages, Running
<1>13. CASE EndTurn
  BY <1>13, TypesEnd
<1>14. CASE NextRound
  BY <1>14, TypesStage DEF NextRound, Stages, Running
<1>15. CASE \E x, y \in Fighter : Replacement(x, y)
  BY <1>15, TypesReplace
<1>16. CASE UNCHANGED choiceVars
  BY <1>16 DEF choiceVars, ChoiceTypes, DomainsOK, PointsOK, ForcedOK, OrderOK, EffectsOK,
                HasEffect, Running, ActingOK
<1> QED
  BY <1>1, <1>2, <1>3, <1>4, <1>5, <1>6, <1>7, <1>8, <1>9, <1>10, <1>11, <1>12, <1>13, <1>14,
     <1>15, <1>16 DEF ChoicesNext

(* Nobody is asked while a side has nobody on the field: the victory is    *)
(* determined before the fainted are replaced, and those that can be       *)
(* replaced are, before anybody is asked.                                  *)
EachStands ==
    /\ \A side \in {0, 1} : On(side) # {}
    /\ stage = "replace" => \A side \in {0, 1} : ~Lost(side)
    /\ stage \in {"think", "ask"} => \A side \in {0, 1} : Standing(side) # {}

(* Whoever has nothing legal is forced, from the time that he is asked.    *)
AskedCan == stage = "ask" => \A x \in Fighting : forced[x] = Free => LegalMoves(x) # {}

LEMMA StandsInit == ChoicesInit => EachStands /\ AskedCan
<1> SUFFICES ASSUME ChoicesInit PROVE EachStands /\ AskedCan
  OBVIOUS
<1> USE DEF ChoicesInit, Start
<1>1. ASSUME NEW side \in {0, 1} PROVE On(side) # {} /\ Standing(side) # {}
  <2>1. PICK x \in Fighter : SideOf[x] = side /\ Starters[x] > 0
    BY ChoicesAssumption
  <2>2. x \in On(side) /\ x \in Standing(side)
    BY <2>1 DEF On, Standing
  <2> QED
    BY <2>2
<1> QED
  BY <1>1 DEF EachStands, AskedCan

(* Nobody comes or goes.                                                   *)
LEMMA StandsKept ==
  ASSUME EachStands, field' = field, stage' \in {"think", "ask", "replace"} => dead' = dead,
         \/ stage' \notin {"think", "ask", "replace"}
         \/ stage = "think" /\ stage' = "ask"
         \/ stage' = stage
  PROVE  EachStands'
BY DEF EachStands, On, Standing, Bench, Lost

LEMMA StandsSwitch ==
  ASSUME ChoiceTypes, EachStands, NEW x \in Fighter, ExecuteSwitch(x)
  PROVE  EachStands'
<1>1. DomainsOK /\ OrderOK(x)
  BY DEF ChoiceTypes
<1>2. orders[x].id \in Fighter \ {x} /\ SideOf[orders[x].id] = SideOf[x] /\ field[x] > 0
  BY <1>1 DEF OrderOK, NoTurn, ExecuteSwitch, Ready, Fighting, Standing, On
<1>3. stage' = "act"
  BY DEF ExecuteSwitch, Ready
<1>4. ASSUME NEW side \in {0, 1} PROVE On(side)' # {}
  <2>1. CASE side = SideOf[x]
    <3>1. orders[x].id \in On(side)'
      BY <1>1, <1>2, <2>1 DEF On, ExecuteSwitch, DomainsOK
    <3> QED
      BY <3>1
  <2>2. CASE side # SideOf[x]
    <3>1. PICK z \in Fighter : SideOf[z] = side /\ field[z] > 0
      BY DEF EachStands, On
    <3>2. field'[z] = field[z]
      BY <1>1, <1>2, <2>2, <3>1 DEF ExecuteSwitch, DomainsOK
    <3>3. z \in On(side)'
      BY <3>1, <3>2 DEF On
    <3> QED
      BY <3>3
  <2> QED
    BY <2>1, <2>2
<1> QED
  BY <1>3, <1>4 DEF EachStands

LEMMA StandsReplace ==
  ASSUME ChoiceTypes, EachStands, NEW x \in Fighter, NEW y \in Fighter, Replacement(x, y)
  PROVE  EachStands'
<1>1. DomainsOK
  BY DEF ChoiceTypes
<1>2. /\ x \in dead /\ field[x] > 0 /\ y \notin dead /\ SideOf[y] = SideOf[x] /\ x # y
      /\ stage = "replace" /\ stage' = "replace" /\ dead' = dead
      /\ field' = [field EXCEPT ![y] = field[x], ![x] = 0]
  BY <1>1 DEF Replacement, ToReplace, Bench, DomainsOK
<1>3. ASSUME NEW side \in {0, 1} PROVE On(side)' # {} /\ ~Lost(side)'
  <2>1. CASE side = SideOf[x]
    <3>1. y \in On(side)' /\ y \in Standing(side)'
      BY <1>1, <1>2, <2>1 DEF On, Standing, DomainsOK
    <3> QED
      BY <3>1 DEF Lost
  <2>2. CASE side # SideOf[x]
    <3>1. \A z \in Fighter : SideOf[z] = side => field'[z] = field[z]
      BY <1>1, <1>2, <2>2 DEF DomainsOK
    <3>2. On(side)' = On(side)
      BY <3>1 DEF On
    <3>3. Standing(side)' = Standing(side) /\ Bench(side)' = Bench(side)
      BY <1>2, <3>2 DEF Standing, Bench
    <3> QED
      BY <1>2, <3>2, <3>3 DEF Lost, EachStands
  <2> QED
    BY <2>1, <2>2
<1> QED
  BY <1>2, <1>3 DEF EachStands

LEMMA StandsRound ==
  ASSUME ChoiceTypes, EachStands, NextRound
  PROVE  EachStands'
<1>1. stage = "replace" /\ stage' = "think" /\ field' = field /\ dead' = dead /\ ToReplace = {}
  BY DEF NextRound
<1>2. ASSUME NEW side \in {0, 1} PROVE Standing(side) # {}
  <2>1. CASE Bench(side) = {}
    BY <1>1, <2>1 DEF EachStands, Lost
  <2>2. CASE Bench(side) # {}
    <3>1. PICK z \in Fighter : SideOf[z] = side /\ field[z] > 0
      BY DEF EachStands, On
    <3>2. z \notin dead
      BY <1>1, <2>2, <3>1 DEF ToReplace
    <3>3. z \in Standing(side)
      BY <3>1, <3>2 DEF Standing, On
    <3> QED
      BY <3>3
  <2> QED
    BY <2>1, <2>2
<1>3. \A side \in {0, 1} : On(side)' = On(side) /\ Standing(side)' = Standing(side)
  BY <1>1 DEF On, Standing
<1> QED
  BY <1>1, <1>2, <1>3 DEF EachStands

LEMMA StandsNext ==
  ChoiceTypes /\ EachStands /\ AskedCan /\ [ChoicesNext]_choiceVars => EachStands' /\ AskedCan'
<1> SUFFICES ASSUME ChoiceTypes, EachStands, AskedCan, [ChoicesNext]_choiceVars
             PROVE  EachStands' /\ AskedCan'
  OBVIOUS
<1>1. CASE DetermineLegalActions
  <2>1. EachStands'
    BY <1>1, StandsKept DEF DetermineLegalActions
  <2>2. AskedCan'
    <3>1. field' = field /\ dead' = dead /\ bound' = bound /\ pp' = pp /\ lastMove' = lastMove
      BY <1>1 DEF DetermineLegalActions
    <3>2. Fighting' = Fighting
      BY <3>1 DEF Fighting, Standing, On
    <3>3. \A x \in Fighter : LegalMoves(x)' = LegalMoves(x)
      BY <3>1, <3>2 DEF LegalMoves, VetoSelection, ForbidsSelection, HasEffect
    <3>4. ASSUME NEW x \in Fighting, forced'[x] = Free PROVE LegalMoves(x) # {}
      <4>1. x \in Fighter
        BY DEF Fighting, Standing, On
      <4>2. MustStruggle(x) => forced'[x] = ForcedMove("Struggle", Nowhere, "move")
        BY <1>1, <4>1 DEF DetermineLegalActions
      <4>3. ~MustStruggle(x)
        BY <3>4, <4>2 DEF ForcedMove, Free
      <4>4. forced'[x] = forced[x]
        BY <1>1, <4>1, <4>3 DEF DetermineLegalActions
      <4> QED
        BY <3>4, <4>3, <4>4 DEF MustStruggle
    <3>5. Fighting \subseteq Fighter
      BY DEF Fighting, Standing, On
    <3> QED
      BY <3>2, <3>3, <3>4, <3>5 DEF AskedCan
  <2> QED
    BY <2>1, <2>2
<1>2. CASE ProcessTurn
  BY <1>2, StandsKept DEF ProcessTurn, AskedCan
<1>3. CASE stage = "ask" /\ \E x \in Awaited : \E t \in MoveAnswers(x) \cup SwitchAnswers(x) :
                GiveAnswer(x, t)
  <2>1. /\ field' = field /\ dead' = dead /\ stage' = stage /\ bound' = bound /\ pp' = pp
        /\ lastMove' = lastMove /\ forced' = forced
    BY <1>3 DEF GiveAnswer
  <2>2. Fighting' = Fighting /\ Fighting \subseteq Fighter
    BY <2>1 DEF Fighting, Standing, On
  <2>3. \A x \in Fighter : LegalMoves(x)' = LegalMoves(x)
    BY <2>1, <2>2 DEF LegalMoves, VetoSelection, ForbidsSelection, HasEffect
  <2> QED
    BY <2>1, <2>2, <2>3, StandsKept DEF AskedCan
<1>4. CASE \E x \in Fighter : ExecuteSwitch(x)
  BY <1>4, StandsSwitch DEF ExecuteSwitch, Ready, AskedCan
<1>5. CASE \E x \in Fighter : \E stopped \in BOOLEAN : BeginExecution(x, stopped)
  <2>1. stage' \in {"prepare", "finish"} /\ field' = field
    BY <1>5 DEF BeginExecution
  <2> QED
    BY <2>1, StandsKept DEF AskedCan
<1>6. CASE PrepareSelf \/ (Uses /\ Rest) \/ FinishExecution \/ Win
  <2>1. stage' \in {"use", "finish", "act", "over"} /\ field' = field
    BY <1>6 DEF PrepareSelf, Uses, Rest, FinishExecution, Win
  <2> QED
    BY <2>1, StandsKept DEF AskedCan
<1>7. CASE EndTurn
  <2>1. field' = field /\ dead' = dead /\ stage' = "replace" /\ \A side \in {0, 1} : ~Lost(side)
    BY <1>7 DEF EndTurn
  <2> QED
    BY <2>1 DEF EachStands, AskedCan, On, Lost, Standing, Bench
<1>8. CASE NextRound
  BY <1>8, StandsRound DEF NextRound, AskedCan
<1>9. CASE \E x, y \in Fighter : Replacement(x, y)
  <2>1. EachStands'
    BY <1>9, StandsReplace
  <2> QED
    BY <1>9, <2>1 DEF Replacement, AskedCan
<1>10. CASE UNCHANGED choiceVars
  BY <1>10 DEF choiceVars, EachStands, AskedCan, On, Standing, Bench, Lost, Fighting, LegalMoves,
               VetoSelection, ForbidsSelection, HasEffect
<1> QED
  BY <1>1, <1>2, <1>3, <1>4, <1>5, <1>6, <1>7, <1>8, <1>9, <1>10
  DEF ChoicesNext, Misses, DoesNoDamage, Forbids, Strikes

(* In singles a move for an ally is for its user; with more slots, nobody  *)
(* knows one.                                                              *)
NobodyNeedsAnAlly ==
    Slots = 1 \/ \A x \in Fighter : \A i \in DOMAIN Known[x] : Template[Known[x][i]].target # "ally"

LEMMA PlaceOf ==
  ASSUME DomainsOK, NEW side \in {0, 1}, NEW y \in Standing(side)
  PROVE  /\ Position(y) \in Places /\ y \in At(Position(y)) /\ y \in Fighter
         /\ Position(y)[1] = side
<1>1. y \in Fighter /\ field[y] \in 1 .. Slots /\ SideOf[y] = side /\ y \notin dead
  BY ChoicesAssumption DEF Standing, On, DomainsOK
<1> QED
  BY <1>1 DEF Position, Places, At

LEMMA AnswerToLegal ==
  ASSUME NobodyNeedsAnAlly, DomainsOK, EachStands, stage = "ask", NEW x \in Fighting,
         NEW i \in LegalMoves(x)
  PROVE  \E place \in Places : IsTurnLegal(x, TurnOf("move", i, place))
<1> DEFINE class == Template[Known[x][i]].target
<1>1. x \in Fighter /\ SideOf[x] \in {0, 1} /\ x \in Standing(SideOf[x])
  BY ChoicesAssumption DEF Fighting, Standing, On
<1>2. i \in DOMAIN Known[x]
  BY DEF LegalMoves
<1>3. ASSUME NEW place \in Places,
             IsTargeted(Known[x][i]) => TargetLegal(x, place, class)
      PROVE  IsTurnLegal(x, TurnOf("move", i, place))
  BY <1>3 DEF IsTurnLegal, TurnOf
<1>4. CASE class = "ally"
  <2>1. Slots = 1
    BY <1>1, <1>2, <1>4 DEF NobodyNeedsAnAlly
  <2>2. Position(x) \in Places /\ x \in At(Position(x)) /\ Position(x)[1] = SideOf[x]
    BY <1>1, PlaceOf
  <2>3. TargetLegal(x, Position(x), class)
    BY <1>4, <2>1, <2>2 DEF TargetLegal
  <2> QED
    BY <1>3, <2>2, <2>3
<1>5. CASE class # "ally"
  <2>1. 1 - SideOf[x] \in {0, 1} /\ 1 - SideOf[x] # SideOf[x]
    BY <1>1
  <2>2. PICK y : y \in Standing(1 - SideOf[x])
    BY <2>1 DEF EachStands
  <2>3. y # x
    BY <1>1, <2>1, <2>2 DEF Standing, On
  <2>4. Position(y) \in Places /\ y \in At(Position(y))
    BY <2>1, <2>2, PlaceOf
  <2>5. IsTargeted(Known[x][i]) => TargetLegal(x, Position(y), class)
    BY <1>5, <2>3, <2>4 DEF TargetLegal, IsTargeted
  <2> QED
    BY <1>3, <2>4, <2>5
<1> QED
  BY <1>4, <1>5

LEMMA CanAnswer ==
  ASSUME NobodyNeedsAnAlly, ChoiceTypes, EachStands, AskedCan
  PROVE  SomethingIsLegal
<1> SUFFICES ASSUME stage = "ask", NEW x \in Awaited
             PROVE  \E t \in MoveAnswers(x) \cup SwitchAnswers(x) : IsTurnLegal(x, t)
  BY DEF SomethingIsLegal
<1>1. x \in Fighting /\ x \in Fighter /\ DomainsOK
  BY DEF Awaited, Fighting, Standing, On, ChoiceTypes
<1>2. CASE forced[x] # Free
  <2>1. PICK i \in DOMAIN Known[x] : TRUE
    BY <1>1, KnownMoves
  <2>2. PICK place \in Places : TRUE
    <3>1. <<0, 1>> \in Places
      BY ChoicesAssumption DEF Places
    <3> QED
      BY <3>1
  <2>3. TurnOf("move", i, place) \in MoveAnswers(x)
    BY DEF MoveAnswers
  <2>4. IsTurnLegal(x, TurnOf("move", i, place))
    BY <1>2 DEF IsTurnLegal, TurnOf
  <2> QED
    BY <2>3, <2>4
<1>3. CASE forced[x] = Free
  <2>1. PICK i \in LegalMoves(x) : TRUE
    BY <1>1, <1>3 DEF AskedCan
  <2>2. PICK place \in Places : IsTurnLegal(x, TurnOf("move", i, place))
    BY <1>1, AnswerToLegal
  <2>3. TurnOf("move", i, place) \in MoveAnswers(x)
    BY DEF MoveAnswers, LegalMoves
  <2> QED
    BY <2>2, <2>3
<1> QED
  BY <1>2, <1>3

(* Whoever is asked can answer, unless a move is for an ally that may be   *)
(* missing (determineLegalActions, isTurnLegal).                           *)
THEOREM SomeAnswerIsLegal ==
  ASSUME NobodyNeedsAnAlly
  PROVE  ChoicesSpec => []SomethingIsLegal
<1> DEFINE Inv == ChoiceTypes /\ EachStands /\ AskedCan
<1>1. ChoicesInit => Inv
  BY ChoiceTypesInit, StandsInit
<1>2. Inv /\ [ChoicesNext]_choiceVars => Inv'
  BY ChoiceTypesNext, StandsNext
<1>3. Inv => SomethingIsLegal
  BY CanAnswer
<1> QED
  BY <1>1, <1>2, <1>3, PTL DEF ChoicesSpec

(* The parts of the rules of choice keep their types.                      *)
THEOREM ChoiceTypesInvariant == ChoicesSpec => []ChoiceTypes
BY ChoiceTypesInit, ChoiceTypesNext, PTL DEF ChoicesSpec

(* Between the executions of x nothing of rest or charge is left over but  *)
(* the one turn to come, which is forced.                                  *)
Settled(x) ==
    /\ HasEffect(x, "recharge") => bound[x]["recharge"] = 1
    /\ HasEffect(x, "charge") => bound[x]["charge"] = 1
    /\ forced[x].type = "action" => \E e \in Binding : HasEffect(x, e)
    /\ ~Mixes(x) /\ (HasEffect(x, "recharge") \/ HasEffect(x, "charge"))
            => forced[x].type = "action"

(* While x executes a move: what has just begun counts from two.           *)
Busy(x) ==
    /\ stage = "prepare" => forced[x] = Free
    /\ HasEffect(x, "recharge") =>
        \/ bound[x]["recharge"] = 1
        \/ bound[x]["recharge"] = 2 /\ forced[x].type = "action" /\ stage = "finish"
    /\ HasEffect(x, "charge") =>
        \/ bound[x]["charge"] = 1
        \/ /\ bound[x]["charge"] = 2 /\ forced[x].type = "action" /\ stage # "prepare"
           /\ Template[acting.move].binds = "charge"
    /\ forced[x].type = "action" =>
        \/ HasEffect(x, "rampage")
        \/ HasEffect(x, "recharge") /\ bound[x]["recharge"] = 2
        \/ HasEffect(x, "charge") /\ bound[x]["charge"] = 2
BindInv == \A x \in Fighter \ dead : IF Running /\ x = acting.by THEN Busy(x) ELSE Settled(x)

(* What is left alone stays settled.                                       *)
LEMMA SettledKept ==
  ASSUME NEW x, Settled(x), forced'[x] = forced[x],
         \A e \in Binding : /\ HasEffect(x, e)' <=> HasEffect(x, e)
                            /\ HasEffect(x, e) => bound'[x][e] = bound[x][e]
  PROVE  Settled(x)'
BY DEF Settled, Binding

LEMMA SettledSame ==
  ASSUME NEW x, Settled(x), forced'[x] = forced[x], bound'[x] = bound[x]
  PROVE  Settled(x)'
BY DEF Settled, HasEffect

LEMMA SettledFree ==
  ASSUME NEW x, forced'[x] = Free, bound'[x] = <<>>
  PROVE  Settled(x)'
BY UnboundHasNone DEF Settled, HasEffect, Free

LEMMA BindInit == ChoicesInit => BindInv
<1> SUFFICES ASSUME ChoicesInit, NEW x \in Fighter PROVE Settled(x)
  BY DEF BindInv, Running, ChoicesInit, Start
<1> QED
  BY UnboundHasNone DEF Settled, HasEffect, Free, ChoicesInit, Start

LEMMA BindDetermine == ASSUME ChoiceTypes, BindInv, DetermineLegalActions PROVE BindInv'
<1>1. bound' = bound /\ dead' = dead /\ ~Running /\ ~Running'
  BY DEF DetermineLegalActions, Running
<1>2. ASSUME NEW x \in Fighter \ dead PROVE Settled(x)'
  <2>1. Settled(x)
    BY <1>1 DEF BindInv
  <2>2. CASE forced'[x] = forced[x]
    BY <1>1, <2>1, <2>2, SettledSame
  <2>3. CASE MustStruggle(x) /\ forced'[x] = ForcedMove("Struggle", Nowhere, "move")
    <3>1. forced[x].type # "action" /\ forced'[x].type # "action"
      BY <2>3 DEF MustStruggle, ForcedMove, Free
    <3> QED
      BY <1>1, <2>1, <3>1 DEF Settled, HasEffect
  <2> QED
    BY <2>2, <2>3 DEF DetermineLegalActions
<1> QED
  BY <1>1, <1>2 DEF BindInv

LEMMA BindSwitch ==
  ASSUME ChoiceTypes, BindInv, NEW y \in Fighter, ExecuteSwitch(y)
  PROVE  BindInv'
<1>1. dead' = dead /\ ~Running /\ ~Running' /\ DomainsOK
  BY DEF ExecuteSwitch, Ready, Running, ChoiceTypes
<1>2. ASSUME NEW x \in Fighter \ dead PROVE Settled(x)'
  <2>1. Settled(x)
    BY <1>1 DEF BindInv
  <2>2. CASE x = y
    <3>1. forced'[x] = Free /\ bound'[x] = <<>>
      BY <1>1, <2>2 DEF ExecuteSwitch, ClearForcedTurn, DomainsOK
    <3> QED
      BY <3>1, SettledFree
  <2>3. CASE x # y
    <3>1. forced'[x] = forced[x] /\ bound'[x] = bound[x]
      BY <1>1, <2>3 DEF ExecuteSwitch, ClearForcedTurn, DomainsOK
    <3> QED
      BY <2>1, <3>1, SettledSame
  <2> QED
    BY <2>2, <2>3
<1> QED
  BY <1>1, <1>2 DEF BindInv

LEMMA BindBegin ==
  ASSUME ChoiceTypes, BindInv, NEW y \in Fighter, NEW stopped \in BOOLEAN,
         BeginExecution(y, stopped)
  PROVE  BindInv'
<1>1. /\ dead' = dead /\ ~Running /\ Running' /\ DomainsOK /\ acting'.by = y
      /\ bound' = bound /\ stage' \in {"prepare", "finish"} /\ forced'[y] = Free
      /\ \A x \in Fighter \ {y} : forced'[x] = forced[x]
  BY DEF BeginExecution, Ready, Running, ChoiceTypes, DomainsOK, ClearForcedTurn
<1>2. ASSUME NEW x \in Fighter \ dead, x # y PROVE Settled(x)'
  <2>1. Settled(x)
    BY <1>1 DEF BindInv
  <2> QED
    BY <1>1, <1>2, <2>1, SettledSame
<1>3. ASSUME y \notin dead PROVE Busy(y)'
  <2>1. Settled(y)
    BY <1>1, <1>3 DEF BindInv
  <2> QED
    BY <1>1, <2>1 DEF Settled, Busy, HasEffect, Free
<1> QED
  BY <1>1, <1>2, <1>3 DEF BindInv

LEMMA BindPrepare == ASSUME ChoiceTypes, BindInv, PrepareSelf PROVE BindInv'
<1>1. PICK y : y = acting.by
  OBVIOUS
<1>2. PICK m : m = acting.move
  OBVIOUS
<1>3. /\ dead' = dead /\ Running /\ Running' /\ DomainsOK /\ acting' = acting /\ y \in Fighter
      /\ stage = "prepare" /\ stage' = "use"
  BY <1>1 DEF PrepareSelf, Running, ChoiceTypes, ActingOK
<1>4. \A x \in Fighter \ {y} : forced'[x] = forced[x] /\ bound'[x] = bound[x]
  BY <1>1, <1>3 DEF PrepareSelf, DomainsOK
<1>5. ASSUME NEW x \in Fighter \ dead, x # y PROVE Settled(x)'
  <2>1. Settled(x)
    BY <1>1, <1>3, <1>5 DEF BindInv
  <2> QED
    BY <1>4, <1>5, <2>1, SettledSame
<1>6. ASSUME y \notin dead PROVE Busy(y)'
  <2>1. Busy(y)
    BY <1>1, <1>3, <1>6 DEF BindInv
  <2>2. \/ /\ Template[m].binds = "rampage"
           /\ \E place : forced'[y] = ForcedMove(m, place, "action")
           /\ \/ HasEffect(y, "rampage") /\ bound'[y] = bound[y]
              \/ \E turns : bound'[y] = With(bound[y], "rampage", turns)
        \/ /\ Template[m].binds = "charge" /\ bound'[y] = With(bound[y], "charge", 2)
           /\ \E place : forced'[y] = ForcedMove(m, place, "action")
        \/ forced'[y] = forced[y] /\ bound'[y] = bound[y]
    BY <1>1, <1>2, <1>3 DEF PrepareSelf, DomainsOK
  <2>3. /\ HasEffect(y, "recharge") => bound[y]["recharge"] = 1
        /\ HasEffect(y, "charge") => bound[y]["charge"] = 1
        /\ forced[y].type # "action"
    BY <1>3, <2>1 DEF Busy, Free
  <2>4. CASE forced'[y] = forced[y] /\ bound'[y] = bound[y]
    BY <1>3, <2>3, <2>4 DEF Busy, HasEffect
  <2>5. CASE /\ HasEffect(y, "rampage") /\ bound'[y] = bound[y]
             /\ \E place : forced'[y] = ForcedMove(m, place, "action")
    BY <1>3, <2>3, <2>5 DEF Busy, HasEffect
  <2>6. ASSUME NEW turns, bound'[y] = With(bound[y], "rampage", turns) PROVE Busy(y)'
    <3>1. DOMAIN With(bound[y], "rampage", turns) = DOMAIN bound[y] \cup {"rampage"}
      BY WithDomain
    <3>2. \A e \in {"recharge", "charge"} :
            e \in DOMAIN bound[y] => With(bound[y], "rampage", turns)[e] = bound[y][e]
      BY WithOld
    <3> QED
      BY <1>3, <2>3, <2>6, <3>1, <3>2 DEF Busy, HasEffect
  <2>7. CASE /\ Template[m].binds = "charge" /\ bound'[y] = With(bound[y], "charge", 2)
             /\ \E place : forced'[y] = ForcedMove(m, place, "action")
    <3>1. DOMAIN With(bound[y], "charge", 2) = DOMAIN bound[y] \cup {"charge"}
      BY WithDomain
    <3>2. With(bound[y], "charge", 2)["charge"] = 2
      BY WithNew
    <3>3. "recharge" \in DOMAIN bound[y] => With(bound[y], "charge", 2)["recharge"] = bound[y]["recharge"]
      BY WithOld
    <3>4. forced'[y].type = "action"
      BY <2>7 DEF ForcedMove
    <3>5. Template[acting'.move].binds = "charge"
      BY <1>2, <1>3, <2>7
    <3> QED
      BY <1>3, <2>3, <2>7, <3>1, <3>2, <3>3, <3>4, <3>5 DEF Busy, HasEffect
  <2> QED
    BY <2>2, <2>4, <2>5, <2>6, <2>7
<1> QED
  BY <1>1, <1>3, <1>5, <1>6 DEF BindInv

(* Using a move: whoever uses it is as he was before.                      *)
LEMMA BindUse ==
  ASSUME ChoiceTypes, BindInv, Uses, Rest, dead \subseteq dead', NEW y, y = acting.by,
         \A x \in Fighter \ {y} : /\ forced'[x] = forced[x]
                                  /\ \A e \in Binding :
                                        /\ HasEffect(x, e)' <=> HasEffect(x, e)
                                        /\ HasEffect(x, e) => bound'[x][e] = bound[x][e],
         y \notin dead' /\ Busy(y) => Busy(y)'
  PROVE  BindInv'
<1>1. Running /\ Running' /\ acting' = acting
  BY DEF Uses, Rest, Running
<1>2. ASSUME NEW x \in Fighter \ dead', x # y PROVE Settled(x)'
  <2>1. Settled(x)
    BY <1>1, <1>2 DEF BindInv
  <2> QED
    BY <1>2, <2>1, SettledKept
<1>3. ASSUME y \in Fighter \ dead' PROVE Busy(y)'
  BY <1>1, <1>3 DEF BindInv
<1> QED
  BY <1>1, <1>2, <1>3 DEF BindInv

LEMMA BusySame ==
  ASSUME NEW y, Busy(y), forced'[y] = forced[y], acting' = acting, stage = "use", stage' = "finish",
         \A e \in Binding : /\ HasEffect(y, e)' <=> HasEffect(y, e)
                            /\ HasEffect(y, e) => bound'[y][e] = bound[y][e]
  PROVE  Busy(y)'
BY DEF Busy, Binding

LEMMA BindMisses == ASSUME ChoiceTypes, BindInv, Misses PROVE BindInv'
<1>1. PICK y : y = acting.by
  OBVIOUS
<1>2. \A x : \A e \in Binding : /\ HasEffect(x, e)' <=> HasEffect(x, e)
                                /\ HasEffect(x, e) => bound'[x][e] = bound[x][e]
  BY DEF Misses, HasEffect
<1>3. Busy(y) => Busy(y)'
  BY <1>2, BusySame DEF Misses, Uses, Rest
<1> QED
  BY <1>1, <1>2, <1>3, BindUse DEF Misses

LEMMA BindForbids == ASSUME ChoiceTypes, BindInv, Forbids PROVE BindInv'
<1>1. PICK y : y = acting.by
  OBVIOUS
<1>2. y \in Fighter
  BY <1>1 DEF ChoiceTypes, Forbids, Uses, Running, ActingOK
<1>3. Busy(y) => Busy(y)'
  BY <1>2, ForbidsIs, BusySame DEF Forbids, Uses, Rest
<1> QED
  BY <1>1, <1>3, ForbidsIs, BindUse DEF Forbids

LEMMA BindNoDamage == ASSUME ChoiceTypes, BindInv, DoesNoDamage PROVE BindInv'
<1>1. PICK y : y = acting.by
  OBVIOUS
<1>2. y \in Fighter /\ DomainsOK
  BY <1>1 DEF ChoiceTypes, DoesNoDamage, Uses, Running, ActingOK
<1>3. /\ \A x \in Fighter \ {y} : forced'[x] = forced[x] /\ bound'[x] = bound[x]
      /\ forced'[y] = Free /\ bound'[y] = Without(bound[y], "rampage")
      /\ stage = "use" /\ stage' = "finish" /\ acting' = acting
      /\ Template[acting.move].binds = "rampage"
  BY <1>1, <1>2 DEF DoesNoDamage, DomainsOK, ClearForcedTurn, Uses, Rest
<1>4. ASSUME Busy(y) PROVE Busy(y)'
  <2>1. /\ HasEffect(y, "recharge") => bound[y]["recharge"] = 1
        /\ HasEffect(y, "charge") => bound[y]["charge"] = 1
    BY <1>3, <1>4 DEF Busy
  <2>2. /\ DOMAIN Without(bound[y], "rampage") = DOMAIN bound[y] \ {"rampage"}
        /\ \A d \in DOMAIN bound[y] :
                d # "rampage" => Without(bound[y], "rampage")[d] = bound[y][d]
    BY WithoutIs
  <2> QED
    BY <1>3, <2>1, <2>2 DEF Busy, HasEffect, Free
<1>5. \A x \in Fighter \ {y} : /\ forced'[x] = forced[x]
                                 /\ \A e \in Binding :
                                        /\ HasEffect(x, e)' <=> HasEffect(x, e)
                                        /\ HasEffect(x, e) => bound'[x][e] = bound[x][e]
  BY <1>3 DEF HasEffect
<1>6. Uses /\ Rest /\ dead \subseteq dead'
  BY <1>3 DEF DoesNoDamage
<1> QED
  BY <1>1, <1>4, <1>5, <1>6, BindUse

LEMMA BindStrikes ==
  ASSUME ChoiceTypes, BindInv, NEW casualties \in SUBSET {acting.by, acting.target},
         Strikes(casualties)
  PROVE  BindInv'
<1>1. PICK y : y = acting.by
  OBVIOUS
<1>2. y \in Fighter /\ DomainsOK
  BY <1>1 DEF ChoiceTypes, Strikes, Uses, Running, ActingOK
<1>3. /\ \A x \in Fighter \ {y} : forced'[x] = forced[x] /\ bound'[x] = bound[x]
      /\ stage = "use" /\ stage' = "finish" /\ acting' = acting /\ dead \subseteq dead'
      /\ \/ /\ Template[acting.move].binds = "recharge"
            /\ \E place : forced'[y] = ForcedMove(acting.move, place, "action")
            /\ bound'[y] = With(bound[y], "recharge", 2)
         \/ forced'[y] = forced[y] /\ bound'[y] = bound[y]
  BY <1>1, <1>2 DEF Strikes, DomainsOK, Uses, Rest
<1>4. ASSUME Busy(y) PROVE Busy(y)'
  <2>1. CASE /\ Template[acting.move].binds = "recharge"
             /\ \E place : forced'[y] = ForcedMove(acting.move, place, "action")
             /\ bound'[y] = With(bound[y], "recharge", 2)
    <3>1. HasEffect(y, "charge") => bound[y]["charge"] = 1
      BY <1>4, <2>1 DEF Busy
    <3>2. DOMAIN With(bound[y], "recharge", 2) = DOMAIN bound[y] \cup {"recharge"}
      BY WithDomain
    <3>3. With(bound[y], "recharge", 2)["recharge"] = 2
      BY WithNew
    <3>4. "charge" \in DOMAIN bound[y] => With(bound[y], "recharge", 2)["charge"] = bound[y]["charge"]
      BY WithOld
    <3>5. forced'[y].type = "action"
      BY <2>1 DEF ForcedMove
    <3> QED
      BY <1>3, <2>1, <3>1, <3>2, <3>3, <3>4, <3>5 DEF Busy, HasEffect
  <2>2. CASE forced'[y] = forced[y] /\ bound'[y] = bound[y]
    BY <1>3, <1>4, <2>2, BusySame DEF HasEffect
  <2> QED
    BY <1>3, <2>1, <2>2
<1>5. \A x \in Fighter \ {y} : /\ forced'[x] = forced[x]
                                 /\ \A e \in Binding :
                                        /\ HasEffect(x, e)' <=> HasEffect(x, e)
                                        /\ HasEffect(x, e) => bound'[x][e] = bound[x][e]
  BY <1>3 DEF HasEffect
<1>6. Uses /\ Rest /\ dead \subseteq dead'
  BY <1>3 DEF Strikes
<1> QED
  BY <1>1, <1>4, <1>5, <1>6, BindUse

LEMMA BindFinish == ASSUME ChoiceTypes, BindInv, FinishExecution PROVE BindInv'
<1>1. PICK x, m : x = acting.by /\ m = IF acting.done THEN acting.move ELSE NoMove
  OBVIOUS
<1>2. dead' = dead /\ Running /\ ~Running' /\ stage = "finish"
  BY DEF FinishExecution, Running
<1>3. /\ x \in Fighter
      /\ \A y \in Fighter \ {x} : forced'[y] = forced[y] /\ bound'[y] = bound[y]
      /\ \A e \in {"recharge", "charge"} :
            /\ HasEffect(x, e)' <=> HasEffect(x, e) /\ bound[x][e] # 1
            /\ HasEffect(x, e)' => bound'[x][e] = bound[x][e] - 1
      /\ HasEffect(x, "rampage")' <=> HasEffect(x, "rampage") /\ ~RampageEnds(x, m)
      /\ forced'[x] = IF RampageEnds(x, m) THEN Free ELSE forced[x]
  BY <1>1, FinishIs
<1>4. ASSUME NEW y \in Fighter \ dead, y # x PROVE Settled(y)'
  <2>1. Settled(y)
    BY <1>1, <1>2, <1>4 DEF BindInv
  <2> QED
    BY <1>3, <1>4, <2>1, SettledSame
<1>5. ASSUME x \notin dead PROVE Settled(x)'
  <2>1. Busy(x) /\ EffectsOK(x)
    BY <1>1, <1>2, <1>3, <1>5 DEF BindInv, ChoiceTypes
  <2>2. \A e \in {"recharge", "charge"} :
            HasEffect(x, e)' => /\ bound'[x][e] = 1 /\ forced[x].type = "action"
                                /\ HasEffect(x, e) /\ bound[x][e] = 2
    BY <1>3, <2>1 DEF Busy
  <2>3. forced'[x].type = "action" => \E e \in Binding : HasEffect(x, e)'
    <3>1. SUFFICES ASSUME forced'[x].type = "action" PROVE \E e \in Binding : HasEffect(x, e)'
      OBVIOUS
    <3>2. ~RampageEnds(x, m) /\ forced[x].type = "action"
      BY <1>3, <3>1 DEF Free
    <3> QED
      BY <1>3, <2>1, <3>2 DEF Busy, Binding
  <2>4. ~Mixes(x) /\ (HasEffect(x, "recharge")' \/ HasEffect(x, "charge")')
            => forced'[x].type = "action"
    <3>1. SUFFICES ASSUME ~Mixes(x), HasEffect(x, "recharge")' \/ HasEffect(x, "charge")'
                   PROVE  forced'[x].type = "action"
      OBVIOUS
    <3>2. ~HasEffect(x, "rampage")
      BY <1>3, <2>1, <3>1 DEF EffectsOK, Binding, Mixes
    <3>3. ~RampageEnds(x, m)
      BY <3>2 DEF RampageEnds
    <3> QED
      BY <1>3, <2>2, <3>1, <3>3
  <2> QED
    BY <2>2, <2>3, <2>4 DEF Settled
<1> QED
  BY <1>1, <1>2, <1>4, <1>5 DEF BindInv

LEMMA BindEnd == ASSUME ChoiceTypes, BindInv, EndTurn PROVE BindInv'
<1>1. ~Running /\ ~Running' /\ dead' = dead /\ forced' = forced
  BY DEF EndTurn, Running
<1>2. ASSUME NEW x \in Fighter \ dead PROVE Settled(x)'
  <2>1. Settled(x)
    BY <1>1 DEF BindInv
  <2>2. CASE bound'[x] = bound[x]
    BY <1>1, <2>1, <2>2, SettledSame
  <2>3. CASE bound'[x] = Without(bound[x], "taunt")
    <3>1. /\ DOMAIN Without(bound[x], "taunt") = DOMAIN bound[x] \ {"taunt"}
          /\ \A d \in DOMAIN bound[x] : d # "taunt" => Without(bound[x], "taunt")[d] = bound[x][d]
      BY WithoutIs
    <3>2. \A e \in Binding : /\ HasEffect(x, e)' <=> HasEffect(x, e)
                             /\ HasEffect(x, e) => bound'[x][e] = bound[x][e]
      BY <2>3, <3>1 DEF HasEffect, Binding
    <3> QED
      BY <1>1, <2>1, <3>2, SettledKept
  <2> QED
    BY <2>2, <2>3 DEF EndTurn
<1> QED
  BY <1>1, <1>2 DEF BindInv

LEMMA BindStill ==
  ASSUME BindInv, ~Running, ~Running', UNCHANGED <<dead, forced, bound>>
  PROVE  BindInv'
<1>1. ASSUME NEW x \in Fighter \ dead PROVE Settled(x)'
  <2>1. Settled(x)
    BY DEF BindInv
  <2> QED
    BY <2>1, SettledSame
<1> QED
  BY <1>1 DEF BindInv

LEMMA BindNext == ChoiceTypes /\ BindInv /\ [ChoicesNext]_choiceVars => BindInv'
<1> SUFFICES ASSUME ChoiceTypes, BindInv, [ChoicesNext]_choiceVars PROVE BindInv'
  OBVIOUS
<1>1. CASE DetermineLegalActions
  BY <1>1, BindDetermine
<1>2. CASE ProcessTurn \/ Win \/ NextRound \/ \E x, y \in Fighter : Replacement(x, y)
  BY <1>2, BindStill DEF ProcessTurn, Win, NextRound, Replacement, Running
<1>3. CASE stage = "ask" /\ \E x \in Awaited : \E t \in MoveAnswers(x) \cup SwitchAnswers(x) :
                GiveAnswer(x, t)
  BY <1>3, BindStill DEF GiveAnswer, Running
<1>4. CASE \E x \in Fighter : ExecuteSwitch(x)
  BY <1>4, BindSwitch
<1>5. CASE \E x \in Fighter : \E stopped \in BOOLEAN : BeginExecution(x, stopped)
  BY <1>5, BindBegin
<1>6. CASE PrepareSelf
  BY <1>6, BindPrepare
<1>7. CASE Misses
  BY <1>7, BindMisses
<1>8. CASE DoesNoDamage
  BY <1>8, BindNoDamage
<1>9. CASE Forbids
  BY <1>9, BindForbids
<1>10. CASE \E casualties \in SUBSET {acting.by, acting.target} : Strikes(casualties)
  BY <1>10, BindStrikes
<1>11. CASE FinishExecution
  BY <1>11, BindFinish
<1>12. CASE EndTurn
  BY <1>12, BindEnd
<1>13. CASE UNCHANGED choiceVars
  BY <1>13 DEF choiceVars, BindInv, Running, Busy, Settled, HasEffect
<1> QED
  BY <1>1, <1>2, <1>3, <1>4, <1>5, <1>6, <1>7, <1>8, <1>9, <1>10, <1>11, <1>12, <1>13
  DEF ChoicesNext

(* A move is paid for when it is finished: until then the answer that      *)
(* chose it is kept in the order, and then in the execution.  The answer   *)
(* of whoever is forced chooses nothing, as processTurn replaces it.       *)
Chosen(x, i) ==
    /\ orders[x].type = "move" /\ orders[x].id = i
    /\ stage = "ask" /\ x \in Fighting => forced[x] = Free
Owed(x, i) ==
    \/ Chosen(x, i)
    \/ Running /\ acting.by = x /\ acting.choice /\ acting.id = i
Paid(x, i) ==
    LET points == Points[Known[x][i]]
    IN  \/ answers[x][i] >= points
        \/ points - pp[x][i] + (IF Owed(x, i) THEN 1 ELSE 0) <= answers[x][i]
PaidInv == \A x \in Fighter : Pressing \subseteq {x} => \A i \in DOMAIN Known[x] : Paid(x, i)

LEMMA PaidKept ==
  ASSUME NEW x \in Fighter, NEW i \in DOMAIN Known[x], PointsOK(x), Paid(x, i),
         pp'[x] = pp[x], answers'[x] = answers[x], Owed(x, i)' => Owed(x, i)
  PROVE  Paid(x, i)'
<1>1. Points[Known[x][i]] \in Nat /\ pp[x][i] \in Nat /\ answers[x][i] \in Nat
  BY KnownMoves DEF PointsOK
<1> QED
  BY <1>1 DEF Paid

LEMMA PaidInit == ChoicesInit => PaidInv
<1> SUFFICES ASSUME ChoicesInit, NEW x \in Fighter, NEW i \in DOMAIN Known[x] PROVE Paid(x, i)
  BY DEF PaidInv
<1>1. pp[x][i] = Points[Known[x][i]] /\ answers[x][i] = 0 /\ Points[Known[x][i]] \in Nat
  BY KnownMoves DEF ChoicesInit, Start
<1>2. ~Owed(x, i)
  BY DEF Owed, Chosen, ChoicesInit, Start, NoTurn, Running
<1> QED
  BY <1>1, <1>2 DEF Paid

LEMMA PaidAnswer ==
  ASSUME ChoiceTypes, PaidInv, stage = "ask", NEW y \in Awaited,
         NEW t \in MoveAnswers(y) \cup SwitchAnswers(y), GiveAnswer(y, t)
  PROVE  PaidInv'
<1> SUFFICES ASSUME NEW x \in Fighter, Pressing \subseteq {x}, NEW i \in DOMAIN Known[x]
             PROVE  Paid(x, i)'
  BY DEF PaidInv
<1>0. Paid(x, i) /\ PointsOK(x) /\ PointsOK(y) /\ DomainsOK /\ y \in Fighter
  BY DEF PaidInv, ChoiceTypes, Awaited, Fighting, Standing, On
<1>1. /\ ~Running /\ ~Running' /\ pp' = pp /\ orders' = [orders EXCEPT ![y] = t]
      /\ stage' = stage /\ UNCHANGED forced /\ Fighting' = Fighting
  BY DEF GiveAnswer, Running, Fighting, Standing, On
<1>2. t.type = "move" => t.id \in DOMAIN Known[y]
  BY <1>0, AnswerIs
<1>3. CASE x # y \/ t.type # "move" \/ t.id # i \/ forced[x] # Free
  <2>1. Owed(x, i)' => Owed(x, i)
    BY <1>0, <1>1, <1>3 DEF Owed, Chosen, DomainsOK, Awaited
  <2>2. answers'[x][i] = answers[x][i]
    BY <1>0, <1>2, <1>3 DEF GiveAnswer, PointsOK, DomainsOK
  <2>3. Points[Known[x][i]] \in Nat /\ pp[x][i] \in Nat /\ answers[x][i] \in Nat
    BY <1>0, KnownMoves DEF PointsOK
  <2> QED
    BY <1>0, <1>1, <2>1, <2>2, <2>3 DEF Paid
<1>4. CASE x = y /\ t.type = "move" /\ t.id = i /\ forced[x] = Free
  <2>1. ~Owed(x, i)
    BY <1>1, <1>4 DEF Owed, Chosen, Awaited, NoTurn
  <2>2. Points[Known[x][i]] \in Nat /\ pp[x][i] \in Nat /\ answers[x][i] \in Nat
    BY <1>0, KnownMoves DEF PointsOK
  <2>3. IF answers[x][i] < Points[Known[x][i]] THEN answers'[x][i] = answers[x][i] + 1
        ELSE answers'[x][i] = answers[x][i]
    BY <1>0, <1>4 DEF GiveAnswer, PointsOK, DomainsOK
  <2> QED
    BY <1>0, <1>1, <2>1, <2>2, <2>3 DEF Paid
<1> QED
  BY <1>3, <1>4

LEMMA PaidFinish == ASSUME ChoiceTypes, PaidInv, FinishExecution PROVE PaidInv'
<1> SUFFICES ASSUME NEW x \in Fighter, Pressing \subseteq {x}, NEW i \in DOMAIN Known[x]
             PROVE  Paid(x, i)'
  BY DEF PaidInv
<1>0. Paid(x, i) /\ PointsOK(x) /\ DomainsOK /\ ActingOK /\ Running /\ ~Running'
  BY DEF PaidInv, ChoiceTypes, FinishExecution, Running
<1>1. orders' = orders /\ answers' = answers /\ stage = "finish"
  BY DEF FinishExecution
<1>2. Owed(x, i)' => Owed(x, i)
  BY <1>0, <1>1 DEF Owed, Chosen
<1>3. CASE x # acting.by
  <2>1. pp'[x] = pp[x]
    BY <1>0, <1>3 DEF FinishExecution, DomainsOK
  <2> QED
    BY <1>0, <1>1, <1>2, <2>1, PaidKept
<1>4. CASE x = acting.by
  <2>1. pp'[x][i] = IF acting.done /\ acting.choice /\ i = acting.id /\ pp[x][i] > 0
                    THEN pp[x][i] - 1 ELSE pp[x][i]
    BY <1>0, <1>4 DEF FinishExecution, DomainsOK, Deducted, PointsOK
  <2>2. ~Owed(x, i)'
    BY <1>0, <1>1, <1>4 DEF Owed, Chosen, ActingOK, NoTurn
  <2>3. acting.choice /\ i = acting.id => Owed(x, i)
    BY <1>0, <1>4 DEF Owed
  <2>4. Points[Known[x][i]] \in Nat /\ pp[x][i] \in Nat /\ answers[x][i] \in Nat
    BY <1>0, KnownMoves DEF PointsOK
  <2> QED
    BY <1>0, <1>1, <2>1, <2>2, <2>3, <2>4 DEF Paid
<1> QED
  BY <1>3, <1>4

(* Elsewhere points are only taken by Pressure, and nothing becomes due.   *)
LEMMA PaidElse ==
  ASSUME ChoiceTypes, PaidInv, answers' = answers,
         \A x \in Fighter : Pressing \subseteq {x} => pp'[x] = pp[x],
         \A x \in Fighter : \A i \in DOMAIN Known[x] : Owed(x, i)' => Owed(x, i)
  PROVE  PaidInv'
<1> SUFFICES ASSUME NEW x \in Fighter, Pressing \subseteq {x}, NEW i \in DOMAIN Known[x]
             PROVE  Paid(x, i)'
  BY DEF PaidInv
<1>1. Paid(x, i) /\ PointsOK(x)
  BY DEF PaidInv, ChoiceTypes
<1> QED
  BY <1>1, PaidKept

LEMMA PaidNext == ChoiceTypes /\ PaidInv /\ [ChoicesNext]_choiceVars => PaidInv'
<1> SUFFICES ASSUME ChoiceTypes, PaidInv, [ChoicesNext]_choiceVars PROVE PaidInv'
  OBVIOUS
<1>0. DomainsOK
  BY DEF ChoiceTypes
<1>1. CASE DetermineLegalActions \/ Win \/ NextRound \/ \E x, y \in Fighter : Replacement(x, y)
  <2>1. /\ ~Running /\ ~Running' /\ orders' = orders /\ answers' = answers /\ pp' = pp
        /\ stage # "ask"
    BY <1>1 DEF DetermineLegalActions, Win, NextRound, Replacement, Running
  <2>2. \A x \in Fighter : \A i \in DOMAIN Known[x] : Owed(x, i)' => Owed(x, i)
    BY <2>1 DEF Owed, Chosen
  <2> QED
    BY <2>1, <2>2, PaidElse
<1>2. CASE ProcessTurn \/ EndTurn
  <2>1. ~Running /\ ~Running' /\ answers' = answers /\ pp' = pp
    BY <1>2 DEF ProcessTurn, EndTurn, Running
  <2>2. ASSUME NEW x \in Fighter
        PROVE  \/ /\ orders'[x] = orders[x]
                  /\ stage = "ask" /\ x \in Fighting /\ orders[x].type = "move"
                            => forced[x] = Free
               \/ orders'[x].type \in {"forced", "none"}
    BY <1>2 DEF ProcessTurn, EndTurn, TurnOf, NoTurn, Imposed
  <2>3. \A x \in Fighter : \A i \in DOMAIN Known[x] : Owed(x, i)' => Owed(x, i)
    <3> SUFFICES ASSUME NEW x \in Fighter, NEW i \in DOMAIN Known[x], Owed(x, i)'
                 PROVE  Owed(x, i)
      OBVIOUS
    <3>1. orders'[x].type = "move" /\ orders'[x].id = i
      BY <2>1 DEF Owed, Chosen
    <3>2. Chosen(x, i)
      BY <2>2, <3>1 DEF Chosen
    <3> QED
      BY <3>2 DEF Owed
  <2> QED
    BY <2>1, <2>3, PaidElse
<1>3. CASE stage = "ask" /\ \E x \in Awaited : \E t \in MoveAnswers(x) \cup SwitchAnswers(x) :
                GiveAnswer(x, t)
  BY <1>3, PaidAnswer
<1>4. ASSUME NEW y \in Fighter, ExecuteSwitch(y) PROVE PaidInv'
  <2>1. ~Running /\ ~Running' /\ answers' = answers /\ pp' = pp /\ stage = "act"
    BY <1>4 DEF ExecuteSwitch, Ready, Running
  <2>2. \A x \in Fighter : orders'[x] = orders[x] \/ orders'[x] = NoTurn
    BY <1>0, <1>4 DEF ExecuteSwitch, DomainsOK
  <2>3. \A x \in Fighter : \A i \in DOMAIN Known[x] : Owed(x, i)' => Owed(x, i)
    BY <2>1, <2>2 DEF Owed, Chosen, NoTurn
  <2> QED
    BY <2>1, <2>3, PaidElse
<1>5. ASSUME NEW y \in Fighter, NEW stopped \in BOOLEAN, BeginExecution(y, stopped) PROVE PaidInv'
  <2>1. ~Running /\ answers' = answers /\ pp' = pp /\ stage = "act"
    BY <1>5 DEF BeginExecution, Ready, Running
  <2>2. /\ \A x \in Fighter \ {y} : orders'[x] = orders[x]
        /\ orders'[y] = NoTurn
    BY <1>0, <1>5 DEF BeginExecution, DomainsOK
  <2> DEFINE m == IF orders[y].type = "move" THEN Known[y][orders[y].id] ELSE forced[y].move
  <2>3. PICK t \in TargetsFor(y, m, orders[y].target) \cup {y}, done \in BOOLEAN :
          acting' = [by |-> y, move |-> m, id |-> orders[y].id, choice |-> orders[y].type = "move",
                     target |-> t, done |-> done]
    BY <1>5 DEF BeginExecution
  <2>4. acting'.by = y /\ acting'.id = orders[y].id /\ (acting'.choice => orders[y].type = "move")
    BY <2>3
  <2>5. \A x \in Fighter : \A i \in DOMAIN Known[x] : Owed(x, i)' => Owed(x, i)
    BY <2>1, <2>2, <2>4 DEF Owed, Chosen, NoTurn
  <2> QED
    BY <2>1, <2>5, PaidElse
<1>6. CASE PrepareSelf
  <2>1. /\ orders' = orders /\ answers' = answers /\ acting' = acting /\ Running /\ Running'
        /\ stage = "prepare"
    BY <1>6 DEF PrepareSelf, Running
  <2>2. ActingOK
    BY <2>1 DEF ChoiceTypes
  <2>3. ASSUME NEW x \in Fighter, Pressing \subseteq {x} PROVE pp'[x] = pp[x]
    <3>1. CASE x = acting.by
      <4>1. Pressed(x, acting.move) = pp[x]
        BY <2>3, <3>1 DEF Pressed
      <4> QED
        BY <1>0, <1>6, <3>1, <4>1 DEF PrepareSelf, DomainsOK
    <3>2. CASE x # acting.by
      BY <1>0, <1>6, <3>2 DEF PrepareSelf, DomainsOK
    <3> QED
      BY <3>1, <3>2
  <2>4. \A x \in Fighter : \A i \in DOMAIN Known[x] : Owed(x, i)' => Owed(x, i)
    BY <2>1 DEF Owed, Chosen
  <2> QED
    BY <2>1, <2>3, <2>4, PaidElse
<1>7. CASE Uses /\ Rest
  <2>1. /\ orders' = orders /\ answers' = answers /\ acting' = acting /\ Running /\ Running'
        /\ pp' = pp /\ stage = "use"
    BY <1>7 DEF Uses, Rest, Running
  <2>2. \A x \in Fighter : \A i \in DOMAIN Known[x] : Owed(x, i)' => Owed(x, i)
    BY <2>1 DEF Owed, Chosen
  <2> QED
    BY <2>1, <2>2, PaidElse
<1>8. CASE FinishExecution
  BY <1>8, PaidFinish
<1>9. CASE UNCHANGED choiceVars
  BY <1>9 DEF choiceVars, PaidInv, Paid, Owed, Chosen, Running, Fighting, Standing, On
<1> QED
  BY <1>1, <1>2, <1>3, <1>4, <1>5, <1>6, <1>7, <1>8, <1>9
  DEF ChoicesNext, Misses, DoesNoDamage, Forbids, Strikes

(* Moves that go on force their user and cost him once, whatever vetoes,   *)
(* misses, stops or switches come between.                                 *)
THEOREM MovesGoOnHolds == ChoicesSpec => []MovesGoOn
<1> DEFINE Inv == ChoiceTypes /\ BindInv /\ PaidInv
<1>1. ChoicesInit => Inv
  BY ChoiceTypesInit, BindInit, PaidInit
<1>2. Inv /\ [ChoicesNext]_choiceVars => Inv'
  BY ChoiceTypesNext, BindNext, PaidNext
<1>3. Inv => MovesGoOn
  <2> SUFFICES ASSUME Inv PROVE MovesGoOn
    OBVIOUS
  <2>1. BoundAreForced
    <3> SUFFICES ASSUME stage = "ask", NEW x \in Fighting
                 PROVE  /\ ~Mixes(x) /\ (HasEffect(x, "recharge") \/ HasEffect(x, "charge"))
                                => forced[x].type = "action"
                        /\ forced[x].type = "action" =>
                                \E e \in {"rampage", "recharge", "charge"} : HasEffect(x, e)
      BY DEF BoundAreForced
    <3>1. Settled(x)
      BY DEF BindInv, Fighting, Standing, On, Running
    <3> QED
      BY <3>1 DEF Settled, Binding
  <2>2. OnePointEach
    <3> SUFFICES ASSUME NEW x \in Fighter, Pressing \subseteq {x}, NEW i \in DOMAIN Known[x]
                 PROVE  Points[Known[x][i]] - pp[x][i] <= answers[x][i]
      BY DEF OnePointEach
    <3>1. Paid(x, i) /\ PointsOK(x)
      BY DEF PaidInv, ChoiceTypes
    <3>2. Points[Known[x][i]] \in Nat /\ pp[x][i] \in Nat /\ answers[x][i] \in Nat
      BY <3>1, KnownMoves DEF PointsOK
    <3> QED
      BY <3>1, <3>2 DEF Paid
  <2> QED
    BY <2>1, <2>2 DEF MovesGoOn
<1> QED
  BY <1>1, <1>2, <1>3, PTL DEF ChoicesSpec

-----------------------------------------------------------------------------
(* Folds.  FoldLeft(Op, base, seq) is iter[DOMAIN seq], for a function     *)
(* iter of the sets of indices that takes the greatest one last: so what   *)
(* holds of base and is kept by Op holds of it.                            *)
(* (RulesProofs has these lemmas too: definitions of the two modules have  *)
(* names in common, so that neither of them can extend the other.)         *)

(* A set of natural numbers has a least one.                               *)
LEMMA Least ==
  ASSUME NEW T, T \subseteq Nat, T # {}
  PROVE  \E x \in T : \A y \in T : x <= y
<1>1. PICK x \in T : \A y \in T : <<y, x>> \notin OpToRel(<, Nat)
  BY NatLessThanWellFounded, WFMin
<1>2. ASSUME NEW y \in T PROVE x <= y
  <2>1. x \in Nat /\ y \in Nat /\ ~(y < x)
    BY <1>1 DEF OpToRel
  <2> QED
    BY <2>1
<1> QED
  BY <1>2

LEMMA MaxOf ==
  ASSUME NEW n \in Nat, NEW s \in SUBSET (1 .. n), s # {}
  PROVE  /\ Max(s) \in s /\ Max(s) \in 1 .. n
         /\ s \ {Max(s)} \in SUBSET (1 .. (Max(s) - 1))
<1> DEFINE T == {m \in Nat : \A y \in s : y <= m}
<1>1. n \in T
  OBVIOUS
<1>2. PICK m \in T : \A k \in T : m <= k
  BY <1>1, Least
<1>3. m \in s
  <2> SUFFICES ASSUME m \notin s PROVE FALSE
    OBVIOUS
  <2>1. \A y \in s : y \in Nat /\ y >= 1 /\ y <= m /\ y # m
    BY <1>2
  <2>2. m \in Nat /\ \A y \in s : y <= m - 1
    BY <1>2, <2>1
  <2>3. m # 0
    <3>1. PICK y \in s : TRUE
      OBVIOUS
    <3>2. y \in Nat /\ y >= 1 /\ y <= m
      BY <2>1
    <3> QED
      BY <3>2
  <2>4. m - 1 \in T
    BY <2>2, <2>3
  <2> QED
    BY <1>2, <2>2, <2>4
<1>4. \A y \in s : m >= y
  BY <1>2
<1>5. Max(s) \in s /\ \A y \in s : Max(s) >= y
  BY <1>3, <1>4 DEF Max
<1>6. Max(s) \in 1 .. n
  BY <1>5
<1>7. \A y \in s \ {Max(s)} : y \in 1 .. (Max(s) - 1)
  <2> SUFFICES ASSUME NEW y \in s, y # Max(s) PROVE y \in 1 .. (Max(s) - 1)
    OBVIOUS
  <2>1. y \in Nat /\ y >= 1 /\ Max(s) >= y /\ Max(s) \in Nat
    BY <1>5, <1>6
  <2> QED
    BY <2>1
<1> QED
  BY <1>5, <1>6, <1>7

LEMMA FoldInduction ==
  ASSUME NEW n \in Nat, NEW Good,
         {} \in Good,
         \A s \in SUBSET (1 .. n) :
            s # {} /\ s \ {Max(s)} \in Good => s \in Good
  PROVE  \A s \in SUBSET (1 .. n) : s \in Good
<1> DEFINE Bad == {k \in 0 .. n : ~ (SUBSET (1 .. k) \subseteq Good)}
<1> SUFFICES ASSUME Bad # {} PROVE FALSE
  <2>1. n \in 0 .. n
    OBVIOUS
  <2> QED
    BY <2>1
<1>1. Bad \subseteq Nat
  OBVIOUS
<1> HIDE DEF Bad
<1>2. PICK k \in Bad : \A j \in Bad : k <= j
  BY <1>1, Least
<1>3. k \in 0 .. n /\ ~ (SUBSET (1 .. k) \subseteq Good)
  BY <1>2 DEF Bad
<1>4. PICK s \in SUBSET (1 .. k) : s \notin Good
  BY <1>3
<1>5. s # {} /\ s \in SUBSET (1 .. n)
  <2>1. 1 .. k \subseteq 1 .. n
    BY <1>3
  <2> QED
    BY <1>4, <2>1
<1>6. Max(s) \in 1 .. k /\ s \ {Max(s)} \in SUBSET (1 .. (Max(s) - 1))
  BY <1>3, <1>5, MaxOf
<1>7. Max(s) - 1 \in 0 .. n /\ Max(s) - 1 < k
  BY <1>3, <1>6
<1>8. Max(s) - 1 \notin Bad
  BY <1>1, <1>2, <1>7
<1>9. s \ {Max(s)} \in Good
  BY <1>6, <1>7, <1>8 DEF Bad
<1> QED
  BY <1>4, <1>5, <1>9

(* The step of a fold from base by F, which is given the index; and a      *)
(* function g of the subsets of D that makes it.                           *)
FoldedFrom(g, base, F, s) ==
    IF s = {} THEN base ELSE F[g[s \ {Max(s)}]][Max(s)]
FoldsTo(g, D, V, base, F) ==
    g \in [SUBSET D -> V] /\ \A s \in SUBSET D : g[s] = FoldedFrom(g, base, F, s)

LEMMA FoldExists ==
  ASSUME NEW n \in Nat, NEW V, NEW base \in V, NEW F \in [V -> [1 .. n -> V]]
  PROVE  \E g : FoldsTo(g, 1 .. n, V, base, F)
<1> DEFINE Bad == {k \in 0 .. n : ~ \E g : FoldsTo(g, 1 .. k, V, base, F)}
<1> SUFFICES ASSUME Bad # {} PROVE FALSE
  <2>1. n \in 0 .. n
    OBVIOUS
  <2> QED
    BY <2>1
<1>1. Bad \subseteq Nat
  OBVIOUS
<1> HIDE DEF Bad
<1>2. PICK k \in Bad : \A j \in Bad : k <= j
  BY <1>1, Least
<1>3. k \in 0 .. n
  BY <1>2 DEF Bad
<1>4. k # 0
  <2> DEFINE g == [s \in SUBSET (1 .. 0) |-> base]
  <2>1. \A s \in SUBSET (1 .. 0) : s = {}
    OBVIOUS
  <2>2. FoldsTo(g, 1 .. 0, V, base, F)
    BY <2>1 DEF FoldsTo, FoldedFrom
  <2>3. 0 \notin Bad
    BY <2>2 DEF Bad
  <2> QED
    BY <1>2, <2>3
<1>5. k - 1 \in 0 .. n /\ k - 1 \notin Bad
  BY <1>1, <1>2, <1>3, <1>4
<1>6. PICK g : FoldsTo(g, 1 .. (k - 1), V, base, F)
  BY <1>5 DEF Bad
<1> DEFINE h == [s \in SUBSET (1 .. k) |-> FoldedFrom(g, base, F, s)]
<1>7. ASSUME NEW s \in SUBSET (1 .. k), s # {}
      PROVE  Max(s) \in 1 .. n /\ s \ {Max(s)} \in SUBSET (1 .. (k - 1))
  <2>1. Max(s) \in 1 .. k /\ s \ {Max(s)} \in SUBSET (1 .. (Max(s) - 1))
    BY <1>3, <1>7, MaxOf
  <2> DEFINE m == Max(s)
  <2> HIDE DEF m
  <2>2. m \in 1 .. k /\ s \ {m} \in SUBSET (1 .. (m - 1))
    BY <2>1 DEF m
  <2>3. m \in 1 .. n /\ 1 .. (m - 1) \subseteq 1 .. (k - 1)
    BY <1>3, <2>2
  <2>4. m \in 1 .. n /\ s \ {m} \in SUBSET (1 .. (k - 1))
    BY <2>2, <2>3
  <2> QED
    BY <2>4 DEF m
<1>8. h \in [SUBSET (1 .. k) -> V]
  <2>1. ASSUME NEW s \in SUBSET (1 .. k) PROVE FoldedFrom(g, base, F, s) \in V
    <3>1. \A t \in SUBSET (1 .. (k - 1)) : g[t] \in V
      BY <1>6 DEF FoldsTo
    <3>2. s # {} => g[s \ {Max(s)}] \in V /\ Max(s) \in 1 .. n
      BY <1>7, <3>1
    <3> QED
      BY <3>2 DEF FoldedFrom
  <2> QED
    BY <2>1
<1>9. \A t \in SUBSET (1 .. (k - 1)) : h[t] = g[t]
  <2>1. \A t \in SUBSET (1 .. (k - 1)) : t \in SUBSET (1 .. k)
    BY <1>3
  <2> QED
    BY <1>6, <2>1 DEF FoldsTo
<1>10. ASSUME NEW s \in SUBSET (1 .. k)
       PROVE  h[s] = FoldedFrom(h, base, F, s)
  <2>1. h[s] = FoldedFrom(g, base, F, s)
    OBVIOUS
  <2>2. s # {} => h[s \ {Max(s)}] = g[s \ {Max(s)}]
    BY <1>7, <1>9
  <2> HIDE DEF h
  <2> QED
    BY <2>1, <2>2 DEF FoldedFrom
<1>11. k \notin Bad
  <2>1. FoldsTo(h, 1 .. k, V, base, F)
    <3> HIDE DEF h
    <3> QED
      BY <1>8, <1>10 DEF FoldsTo
  <2> QED
    BY <2>1 DEF Bad
<1> QED
  BY <1>2, <1>11

-----------------------------------------------------------------------------
(* Effects on the field: the invariant.  An object has a side only if it   *)
(* concerns one, and Reflect never stays for good.                         *)
FieldKinds == {EFFECTS[g] : g \in Flagged}
Object ==
    {o \in [kind : FieldKinds \cup {"Reflect"}, turns : Int, side : {0, 1},
            gone : BOOLEAN, ticked : BOOLEAN, age : Nat] :
        IF o.kind = "Reflect" THEN o.turns >= 0 ELSE o.side = 0}
Worlds == [made : Seq(Object), lists : [Mon -> Seq(Nat)], forces : Seq(Nat), on : SUBSET Mon]
Distinct(list) == \A k, n \in DOMAIN list : list[k] = list[n] => k = n
Concerns(o, x) == o.kind = "Reflect" => o.side = Side[x]
Alike(o, p) == o.kind = p.kind /\ o.side = p.side

(* What is in force is in the list of everybody on the field whom it       *)
(* concerns, and in no other list that anybody is asked from; there is one *)
(* of a kind, and its flag is set.  Who is idle may come in.               *)
WellFormed(w) ==
    /\ w \in Worlds
    /\ ToSet(w.forces) \subseteq DOMAIN w.made /\ Distinct(w.forces)
    /\ \A x \in Mon : ToSet(w.lists[x]) \subseteq DOMAIN w.made /\ Distinct(w.lists[x])
Live(w) == InForce(w.forces, w.made)
LiveOf(w, x) == InForce(w.lists[x], w.made)
Listed(w) == \A x \in w.on : LiveOf(w, x) = {i \in Live(w) : Concerns(w.made[i], x)}
Unlisted(w, idle) == idle \subseteq Mon /\ \A x \in idle : LiveOf(w, x) = {}
OneOfAKind(w) == \A i, j \in Live(w) : Alike(w.made[i], w.made[j]) => i = j
Shown(w, fl) ==
    /\ fl \subseteq Flagged
    /\ \A i \in Live(w) : w.made[i].kind = "Reflect" \/ \E g \in fl : w.made[i].kind = EFFECTS[g]
    /\ \A g \in fl : \E i \in Live(w) : w.made[i].kind = EFFECTS[g]
Sound(w, fl, idle) ==
    WellFormed(w) /\ Listed(w) /\ Unlisted(w, idle) /\ OneOfAKind(w) /\ Shown(w, fl)

(* How an object stands with its turns, between turns and while effects    *)
(* tick: those that are in the list of the field are counted once.         *)
Lasting(o) == o.turns = -1 \/ (o.gone /\ o.turns > 0) \/ o.turns + o.age = Duration
Counting(o) ==
    \/ o.turns = -1
    \/ o.gone /\ o.turns > 0
    \/ o.gone /\ o.turns = 0 /\ o.age + 1 = Duration
    \/ /\ ~o.gone /\ o.turns > 0
       /\ o.turns + o.age = IF o.kind = "Reflect" \/ o.ticked THEN Duration - 1 ELSE Duration
Rested(made, ids) ==
    \A i \in DOMAIN made : /\ Lasting(made[i])
                           /\ i \in ids => made[i].turns = -1 \/ made[i].turns > 0
Tallied(made, ids) ==
    \A i \in DOMAIN made : IF i \in ids THEN Counting(made[i]) ELSE Lasting(made[i])

Idle == Reserve(0) \cup Reserve(1)
SlotsOK(l) ==
    /\ DOMAIN l = {0, 1} /\ \A s \in {0, 1} : l[s] \in Seq(Mon \cup {Vacant})
    /\ \A s \in {0, 1} : \A k \in DOMAIN l[s] :
            l[s][k] # Vacant => /\ Side[l[s][k]] = s
                                /\ \A n \in DOMAIN l[s] \ {k} : l[s][n] # l[s][k]
FieldInv ==
    /\ Sound(World, flags, Idle)
    /\ SlotsOK(slots) /\ downed \subseteq Mon
    /\ moment \in {"acting", "ticking", "replacing", "over"}
    /\ moment = "ticking" => /\ Tallied(objects, ToSet(forces))
                             /\ \A d \in due : /\ d[1] \in Mon /\ d[2] \in ToSet(forces)
                                                 /\ IsWeather(d[2])
    /\ moment \in {"acting", "replacing"} => Rested(objects, ToSet(forces))

LEMMA SetOfList ==
  ASSUME NEW S, NEW list \in Seq(S)
  PROVE  /\ Len(list) \in Nat /\ DOMAIN list = 1 .. Len(list)
         /\ ToSet(list) = {list[k] : k \in 1 .. Len(list)} /\ ToSet(list) \subseteq S
<1>1. Len(list) \in Nat /\ DOMAIN list = 1 .. Len(list) /\ list \in [1 .. Len(list) -> S]
  BY LenProperties
<1>2. ToSet(list) = {list[k] : k \in DOMAIN list}
  BY DEF ToSet
<1> QED
  BY <1>1, <1>2

LEMMA SetOfAppend ==
  ASSUME NEW S, NEW list \in Seq(S), NEW e \in S
  PROVE  /\ Append(list, e) \in Seq(S) /\ ToSet(Append(list, e)) = ToSet(list) \cup {e}
         /\ Distinct(list) /\ e \notin ToSet(list) => Distinct(Append(list, e))
<1> DEFINE n == Len(list)
           t == Append(list, e)
<1>1. n \in Nat /\ DOMAIN list = 1 .. n /\ ToSet(list) = {list[k] : k \in 1 .. n}
  BY SetOfList
<1>2. t \in Seq(S) /\ Len(t) = n + 1 /\ t[n + 1] = e /\ \A k \in 1 .. n : t[k] = list[k]
  BY <1>1, AppendProperties
<1>3. DOMAIN t = 1 .. n + 1 /\ ToSet(t) = {t[k] : k \in 1 .. n + 1}
  BY <1>2, SetOfList
<1>4. 1 .. n + 1 = (1 .. n) \cup {n + 1}
  BY <1>1
<1> HIDE DEF n, t
<1>5. ToSet(t) = ToSet(list) \cup {e}
  BY <1>1, <1>2, <1>3, <1>4
<1>6. ASSUME Distinct(list), e \notin ToSet(list) PROVE Distinct(t)
  <2> SUFFICES ASSUME NEW k \in 1 .. n + 1, NEW j \in 1 .. n + 1, t[k] = t[j] PROVE k = j
    BY <1>3 DEF Distinct
  <2>1. \A m \in 1 .. n : t[m] # e
    BY <1>1, <1>2, <1>6
  <2>2. \A m, o \in 1 .. n : t[m] = t[o] => m = o
    BY <1>1, <1>2, <1>6 DEF Distinct
  <2> QED
    BY <1>2, <1>4, <2>1, <2>2
<1> QED
  BY <1>2, <1>5, <1>6 DEF t

LEMMA KeptIs ==
  ASSUME NEW list \in Seq(Nat), NEW ids
  PROVE  /\ Kept(list, ids) \in Seq(Nat) /\ ToSet(Kept(list, ids)) = ToSet(list) \cap ids
         /\ Distinct(list) => Distinct(Kept(list, ids))
<1> DEFINE n == Len(list)
           V == Seq(Nat)
           Keep(rest, i) == IF i \in ids THEN Append(rest, i) ELSE rest
           base == <<>>
           F == [v \in V |-> [k \in 1 .. n |-> Keep(v, list[k])]]
           Stage(g, s) == IF s = {} THEN base ELSE Keep(g[s \ {Max(s)}], list[Max(s)])
           iter == CHOOSE g : g = [s \in SUBSET (1 .. n) |-> Stage(g, s)]
<1>1. n \in Nat /\ DOMAIN list = 1 .. n /\ ToSet(list) = {list[k] : k \in 1 .. n}
  BY SetOfList
<1>2. ASSUME NEW v \in V, NEW k \in 1 .. n PROVE Keep(v, list[k]) \in V
  <2>1. list[k] \in Nat
    BY ElementOfSeq
  <2>2. Append(v, list[k]) \in V
    BY <2>1, AppendProperties
  <2> QED
    BY <2>2
<1>3. Kept(list, ids) = iter[1 .. n]
  <2>1. Kept(list, ids) = FoldLeft(Keep, <<>>, list)
    BY DEF Kept
  <2> HIDE DEF n
  <2> QED
    BY <1>1, <2>1 DEF FoldLeft, MapThenFoldSet
<1> HIDE DEF Keep
<1>4. F \in [V -> [1 .. n -> V]]
  BY <1>2
<1>5. base \in V
  BY EmptySeq
<1> HIDE DEF base
<1>6. \E g : g = [s \in SUBSET (1 .. n) |-> Stage(g, s)]
  <2> HIDE DEF V, F, n
  <2>1. PICK g : FoldsTo(g, 1 .. n, V, base, F)
    BY <1>1, <1>4, <1>5, FoldExists
  <2>2. ASSUME NEW s \in SUBSET (1 .. n) PROVE g[s] = Stage(g, s)
    <3>1. s # {} => g[s \ {Max(s)}] \in V /\ Max(s) \in 1 .. n
      BY <1>1, <2>1, MaxOf DEF FoldsTo
    <3>2. s # {} => FoldedFrom(g, base, F, s) = Keep(g[s \ {Max(s)}], list[Max(s)])
      BY <3>1 DEF FoldedFrom, F
    <3> QED
      BY <2>1, <3>2 DEF FoldedFrom, FoldsTo
  <2> HIDE DEF Stage
  <2> QED
    BY <2>1, <2>2 DEF FoldsTo
<1>7. iter = [s \in SUBSET (1 .. n) |-> Stage(iter, s)]
  <2> HIDE DEF Stage, n
  <2> QED
    BY <1>6
<1> HIDE DEF iter, F
<1> DEFINE Of(s) == {list[k] : k \in s} \cap ids
           Good == {s \in SUBSET (1 .. n) : /\ iter[s] \in V /\ ToSet(iter[s]) = Of(s)
                                            /\ Distinct(list) => Distinct(iter[s])}
<1>8. {} \in Good
  <2>1. iter[{}] = <<>>
    BY <1>7 DEF base
  <2>2. ToSet(<<>>) = {} /\ Distinct(<<>>)
    BY EmptySeq DEF ToSet, Distinct
  <2> QED
    BY <1>5, <2>1, <2>2 DEF base
<1>9. ASSUME NEW s \in SUBSET (1 .. n), s # {}, s \ {Max(s)} \in Good
      PROVE  s \in Good
  <2> DEFINE m == Max(s)
             r == s \ {m}
  <2>1. m \in s /\ m \in 1 .. n
    BY <1>1, <1>9, MaxOf
  <2>2. iter[r] \in V /\ ToSet(iter[r]) = Of(r) /\ (Distinct(list) => Distinct(iter[r]))
    BY <1>9
  <2>3. iter[s] = Keep(iter[r], list[m])
    BY <1>7, <1>9
  <2>4. list[m] \in Nat
    BY <2>1, ElementOfSeq
  <2>5. Of(s) = IF list[m] \in ids THEN Of(r) \cup {list[m]} ELSE Of(r)
    <3> HIDE DEF m
    <3> QED
      BY <2>1
  <2>6. Distinct(list) => list[m] \notin Of(r)
    <3> HIDE DEF m
    <3> QED
      BY <1>1, <2>1 DEF Distinct
  <2> HIDE DEF m, r, Of, V
  <2>7. iter[s] = IF list[m] \in ids THEN Append(iter[r], list[m]) ELSE iter[r]
    BY <2>3 DEF Keep
  <2>8. /\ Append(iter[r], list[m]) \in V /\ ToSet(Append(iter[r], list[m])) = Of(r) \cup {list[m]}
        /\ Distinct(list) => Distinct(Append(iter[r], list[m]))
    BY <2>2, <2>4, <2>6, SetOfAppend DEF V
  <2>9. iter[s] \in V /\ ToSet(iter[s]) = Of(s) /\ (Distinct(list) => Distinct(iter[s]))
    BY <2>2, <2>5, <2>7, <2>8
  <2> QED
    BY <1>9, <2>9
<1>10. 1 .. n \in Good
  <2> HIDE DEF Good, n
  <2> QED
    BY <1>1, <1>8, <1>9, FoldInduction
<1>11. /\ Kept(list, ids) \in V /\ ToSet(Kept(list, ids)) = Of(1 .. n)
       /\ Distinct(list) => Distinct(Kept(list, ids))
  <2> HIDE DEF Of, V, n
  <2> QED
    BY <1>3, <1>10
<1> QED
  BY <1>1, <1>11

(* The kinds of effects on the field are different.                        *)
LEMMA KindsAre ==
  /\ Flagged = 1 .. 5 /\ Weather \subseteq Flagged
  /\ \A g \in Flagged : EFFECTS[g] # "Reflect" /\ EFFECTS[g] \in FieldKinds
  /\ \A g, h \in Flagged : EFFECTS[g] = EFFECTS[h] => g = h
<1>1. Flagged = {1, 2, 3, 4, 5} /\ Weather = {1, 2, 3}
  BY DEF Flagged, EFFECTS, Weather
<1>2. \A g \in {1, 2, 3, 4, 5} : EFFECTS[g] # "Reflect"
  BY DEF EFFECTS
<1>3. /\ EFFECTS[1] = "Rain" /\ EFFECTS[2] = "Sand" /\ EFFECTS[3] = "Sun"
      /\ EFFECTS[4] = "Gravity" /\ EFFECTS[5] = "TrickRoom"
  BY DEF EFFECTS
<1>4. \A g, h \in {1, 2, 3, 4, 5} : EFFECTS[g] = EFFECTS[h] => g = h
  BY <1>3
<1>5. {1, 2, 3, 4, 5} = 1 .. 5
  OBVIOUS
<1>6. \A g \in Flagged : EFFECTS[g] \in FieldKinds
  BY DEF FieldKinds
<1> QED
  BY <1>1, <1>2, <1>4, <1>5, <1>6

LEMMA ObjectIs ==
  ASSUME NEW o \in Object
  PROVE  /\ o.kind \in FieldKinds \cup {"Reflect"} /\ o.turns \in Int /\ o.side \in {0, 1}
         /\ o.gone \in BOOLEAN /\ o.ticked \in BOOLEAN /\ o.age \in Nat
         /\ o.kind = "Reflect" => o.turns >= 0
         /\ o.kind # "Reflect" => o.side = 0
BY DEF Object

LEMMA WorldIs ==
  ASSUME NEW w \in Worlds
  PROVE  /\ w.made \in Seq(Object) /\ w.lists \in [Mon -> Seq(Nat)]
         /\ w.forces \in Seq(Nat) /\ w.on \in SUBSET Mon
         /\ DOMAIN w.made = 1 .. Len(w.made) /\ Len(w.made) \in Nat
         /\ \A i \in DOMAIN w.made : w.made[i] \in Object
<1>1. /\ w.made \in Seq(Object) /\ w.lists \in [Mon -> Seq(Nat)]
      /\ w.forces \in Seq(Nat) /\ w.on \in SUBSET Mon
  BY DEF Worlds
<1>2. DOMAIN w.made = 1 .. Len(w.made) /\ Len(w.made) \in Nat
  BY <1>1, LenProperties
<1>3. \A i \in DOMAIN w.made : w.made[i] \in Object
  BY <1>1, <1>2, ElementOfSeq
<1> QED
  BY <1>1, <1>2, <1>3

(* Objects that count on, or are gone: then their flags are.               *)
LEMMA MadeAnew ==
  ASSUME NEW w, NEW fl, NEW idle, Sound(w, fl, idle),
         NEW made \in Seq(Object), DOMAIN made = DOMAIN w.made,
         \A i \in DOMAIN made : /\ made[i].kind = w.made[i].kind /\ made[i].side = w.made[i].side
                                /\ w.made[i].gone => made[i].gone,
         NEW rest \in SUBSET fl,
         \A i \in InForce(w.forces, w.made) : w.made[i].kind # "Reflect" =>
            (made[i].gone <=> ~\E g \in rest : w.made[i].kind = EFFECTS[g])
  PROVE  Sound([w EXCEPT !.made = made], rest, idle)
<1> DEFINE v == [w EXCEPT !.made = made]
<1>1. /\ w \in Worlds /\ WellFormed(w) /\ Listed(w) /\ Unlisted(w, idle) /\ OneOfAKind(w)
      /\ Shown(w, fl) /\ fl \subseteq Flagged /\ w.on \subseteq Mon /\ idle \subseteq Mon
  BY WorldIs DEF Sound, WellFormed, Shown, Unlisted
<1>2. /\ v \in Worlds /\ v.made = made /\ v.lists = w.lists /\ v.forces = w.forces /\ v.on = w.on
  BY <1>1 DEF Worlds
<1> HIDE DEF v
<1>3. WellFormed(v)
  BY <1>1, <1>2 DEF WellFormed
<1>4. Live(w) \subseteq DOMAIN w.made
  BY <1>1 DEF WellFormed, Live, InForce
<1>5. Live(v) = {i \in Live(w) : ~made[i].gone}
  BY <1>1, <1>2 DEF WellFormed, Live, InForce
<1>6. ASSUME NEW x \in Mon PROVE LiveOf(v, x) = {i \in LiveOf(w, x) : ~made[i].gone}
  BY <1>1, <1>2 DEF WellFormed, LiveOf, InForce
<1>7. Listed(v)
  <2> SUFFICES ASSUME NEW x \in w.on
               PROVE  LiveOf(v, x) = {i \in Live(v) : Concerns(made[i], x)}
    BY <1>2 DEF Listed
  <2>1. LiveOf(w, x) = {i \in Live(w) : Concerns(w.made[i], x)}
    BY <1>1 DEF Listed
  <2>2. \A i \in DOMAIN w.made : Concerns(made[i], x) <=> Concerns(w.made[i], x)
    BY DEF Concerns
  <2>3. LiveOf(v, x) = {i \in LiveOf(w, x) : ~made[i].gone}
    BY <1>1, <1>6
  <2> QED
    BY <1>4, <1>5, <2>1, <2>2, <2>3
<1>8. Unlisted(v, idle)
  BY <1>1, <1>6 DEF Unlisted
<1>9. OneOfAKind(v)
  BY <1>1, <1>2, <1>4, <1>5 DEF OneOfAKind, Alike
<1>10. Shown(v, rest)
  <2>1. \A i \in Live(v) : made[i].kind = "Reflect" \/ \E g \in rest : made[i].kind = EFFECTS[g]
    BY <1>4, <1>5 DEF Live
  <2>2. ASSUME NEW g \in rest PROVE \E i \in Live(v) : made[i].kind = EFFECTS[g]
    <3>1. PICK i \in Live(w) : w.made[i].kind = EFFECTS[g]
      BY <1>1 DEF Shown
    <3>2. EFFECTS[g] # "Reflect"
      BY <1>1, KindsAre
    <3> QED
      BY <1>4, <1>5, <3>1, <3>2 DEF Live
  <2> QED
    BY <1>1, <1>2, <2>1, <2>2 DEF Shown
<1>11. Sound(v, rest, idle)
  BY <1>3, <1>7, <1>8, <1>9, <1>10 DEF Sound
<1> QED
  BY <1>11 DEF v

LEMMA Fewer ==
  ASSUME NEW w, NEW fl, NEW idle, Sound(w, fl, idle), NEW on \in SUBSET w.on, NEW less \in SUBSET idle
  PROVE  Sound([w EXCEPT !.on = on], fl, less)
<1> DEFINE v == [w EXCEPT !.on = on]
<1>1. w \in Worlds
  BY DEF Sound, WellFormed
<1>2. /\ v \in Worlds /\ v.on = on /\ v.made = w.made /\ v.lists = w.lists /\ v.forces = w.forces
  BY <1>1 DEF Worlds
<1> HIDE DEF v
<1>3. WellFormed(v) /\ Live(v) = Live(w) /\ \A x : LiveOf(v, x) = LiveOf(w, x)
  BY <1>2 DEF Sound, WellFormed, Live, LiveOf
<1>4. Listed(v) /\ Unlisted(v, less) /\ OneOfAKind(v) /\ Shown(v, fl)
  BY <1>2, <1>3 DEF Sound, Listed, Unlisted, OneOfAKind, Shown
<1>5. Sound(v, fl, less)
  BY <1>3, <1>4 DEF Sound
<1> QED
  BY <1>5 DEF v

(* A new effect, of which there is none on the field.                      *)
Made(kind, s, turns) ==
    [kind |-> kind, turns |-> turns, side |-> IF kind = "Reflect" THEN s ELSE 0,
     gone |-> FALSE, ticked |-> FALSE, age |-> 0]
FlagsOf(kind) == {g \in Flagged : EFFECTS[g] = kind}

LEMMA MadeIs ==
  ASSUME NEW kind \in FieldKinds \cup {"Reflect"}, NEW s \in {0, 1}, NEW turns \in Int,
         kind = "Reflect" => turns >= 0
  PROVE  Made(kind, s, turns) \in Object
<1> DEFINE o == Made(kind, s, turns)
<1>1. /\ o.kind = kind /\ o.turns = turns /\ o.side = IF kind = "Reflect" THEN s ELSE 0
      /\ o \in [kind : FieldKinds \cup {"Reflect"}, turns : Int, side : {0, 1},
                gone : BOOLEAN, ticked : BOOLEAN, age : Nat]
  BY DEF Made
<1> HIDE DEF o
<1>2. o \in Object
  BY <1>1 DEF Object
<1> QED
  BY <1>2 DEF o

Wanted(w, idle, kind, s, turns) ==
    /\ idle \cap w.on = {}
    /\ kind \in FieldKinds \cup {"Reflect"} /\ s \in {0, 1} /\ turns \in Int
    /\ kind = "Reflect" => turns >= 0
    /\ \A i \in Live(w) : ~Alike(w.made[i], Made(kind, s, turns))
    /\ \E x \in w.on : Concerns(Made(kind, s, turns), x)
Grown(w, v, o) ==
    /\ v.made = Append(w.made, o) /\ v.forces = Append(w.forces, Len(w.made) + 1)
    /\ v.on = w.on

LEMMA ImposeKeeps ==
  ASSUME NEW w, NEW fl, NEW idle, NEW kind, NEW s, NEW turns,
         Sound(w, fl, idle), Wanted(w, idle, kind, s, turns)
  PROVE  /\ Sound(Impose(w, kind, s, turns), fl \cup FlagsOf(kind), idle)
         /\ Grown(w, Impose(w, kind, s, turns), Made(kind, s, turns))
<1> DEFINE n == Len(w.made)
           i == n + 1
           o == Made(kind, s, turns)
           all == [w EXCEPT !.made = Append(@, o)]
           takers == {x \in w.on : Takes(x, i, all)}
           v == [all EXCEPT !.lists = [x \in Mon |-> IF x \in takers THEN Append(@[x], i) ELSE @[x]],
                            !.forces = IF takers = {} THEN @ ELSE Append(@, i)]
<1>0. /\ idle \cap w.on = {} /\ kind \in FieldKinds \cup {"Reflect"} /\ s \in {0, 1} /\ turns \in Int
      /\ kind = "Reflect" => turns >= 0
      /\ \A j \in Live(w) : ~Alike(w.made[j], o)
      /\ \E x \in w.on : Concerns(o, x)
  BY DEF Wanted
<1>1. /\ w \in Worlds /\ WellFormed(w) /\ Listed(w) /\ Unlisted(w, idle) /\ OneOfAKind(w)
      /\ Shown(w, fl) /\ fl \subseteq Flagged /\ w.on \subseteq Mon /\ idle \subseteq Mon
  BY WorldIs DEF Sound, WellFormed, Shown, Unlisted
<1>2. /\ w.made \in Seq(Object) /\ w.lists \in [Mon -> Seq(Nat)] /\ w.forces \in Seq(Nat)
      /\ w.on \in SUBSET Mon /\ DOMAIN w.made = 1 .. n /\ n \in Nat
      /\ \A j \in 1 .. n : w.made[j] \in Object
  BY <1>1, WorldIs
<1>3. o \in Object /\ o.kind = kind /\ ~o.gone
  BY <1>0, MadeIs DEF Made
<1>4. Impose(w, kind, s, turns) = v
  BY DEF Impose, Made
<1> DEFINE made == Append(w.made, o)
<1>5. /\ made \in Seq(Object) /\ DOMAIN made = 1 .. i /\ made[i] = o
      /\ \A j \in 1 .. n : made[j] = w.made[j]
  <2> HIDE DEF o
  <2>1. made \in Seq(Object) /\ Len(made) = i /\ made[i] = o /\ \A j \in 1 .. n : made[j] = w.made[j]
    BY <1>2, <1>3, AppendProperties
  <2> QED
    BY <2>1, LenProperties
<1>6. i \in Nat /\ 1 .. i = (1 .. n) \cup {i} /\ i \notin 1 .. n
  BY <1>2
<1>7. all.made = made /\ all.lists = w.lists /\ all.forces = w.forces /\ all.on = w.on
  BY <1>1 DEF Worlds
<1> HIDE DEF o, made
<1>8. \A x \in Mon : ToSet(w.lists[x]) \subseteq 1 .. n
  BY <1>1, <1>2 DEF WellFormed
<1>9. ToSet(w.forces) \subseteq 1 .. n
  BY <1>1, <1>2 DEF WellFormed
<1>10. \A x \in Mon : InForce(w.lists[x], made) = LiveOf(w, x)
  BY <1>5, <1>8 DEF InForce, LiveOf
<1>11. InForce(w.forces, made) = Live(w)
  BY <1>5, <1>9 DEF InForce, Live
<1>12. Live(w) \subseteq 1 .. n
  BY <1>9 DEF Live, InForce
<1>13. ASSUME NEW x \in w.on PROVE Takes(x, i, all) <=> Concerns(o, x)
  <2>1. Takes(x, i, all) <=>
            /\ \A j \in LiveOf(w, x) : made[j].kind # kind
            /\ kind = "Reflect" => Side[x] = o.side
    <3> HIDE DEF all, i, n
    <3> QED
      BY <1>1, <1>3, <1>5, <1>7, <1>10 DEF Takes
  <2>2. ASSUME Concerns(o, x), NEW j \in LiveOf(w, x), made[j].kind = kind PROVE FALSE
    <3>1. j \in Live(w) /\ j \in 1 .. n /\ Concerns(w.made[j], x)
      BY <1>1, <1>12 DEF Listed
    <3>2. w.made[j].kind = kind /\ w.made[j] \in Object
      BY <1>2, <1>5, <2>2, <3>1
    <3>3. w.made[j].side = o.side
      BY <1>3, <2>2, <3>1, <3>2, ObjectIs DEF Concerns
    <3>4. Alike(w.made[j], o)
      BY <1>3, <3>2, <3>3 DEF Alike
    <3> QED
      BY <1>0, <3>1, <3>4
  <2>3. Concerns(o, x) <=> (kind = "Reflect" => Side[x] = o.side)
    BY <1>3 DEF Concerns
  <2> QED
    BY <2>1, <2>2, <2>3
<1>14. takers = {x \in w.on : Concerns(o, x)}
  BY <1>13
<1>15. takers # {} /\ takers \subseteq w.on
  BY <1>0, <1>14
<1> HIDE DEF takers
<1>16. v = [all EXCEPT !.lists = [x \in Mon |-> IF x \in takers THEN Append(w.lists[x], i) ELSE w.lists[x]],
                       !.forces = Append(w.forces, i)]
  BY <1>7, <1>15
<1>17. /\ v.made = made /\ v.on = w.on /\ v.forces = Append(w.forces, i)
       /\ v.lists = [x \in Mon |-> IF x \in takers THEN Append(w.lists[x], i) ELSE w.lists[x]]
  <2>1. all \in [made : Seq(Object), lists : [Mon -> Seq(Nat)], forces : Seq(Nat), on : SUBSET Mon]
    BY <1>1, <1>5 DEF Worlds, made
  <2> HIDE DEF all, v, i, n
  <2> QED
    BY <1>7, <1>16, <2>1
<1>18. \A x \in Mon : Append(w.lists[x], i) \in Seq(Nat)
  BY <1>2, <1>6, AppendProperties
<1>19. Append(w.forces, i) \in Seq(Nat)
  BY <1>2, <1>6, AppendProperties
<1>20. v \in Worlds
  <2>1. all \in [made : Seq(Object), lists : [Mon -> Seq(Nat)], forces : Seq(Nat), on : SUBSET Mon]
    BY <1>1, <1>5 DEF Worlds, made
  <2>2. [x \in Mon |-> IF x \in takers THEN Append(w.lists[x], i) ELSE w.lists[x]] \in [Mon -> Seq(Nat)]
    BY <1>2, <1>18
  <2> HIDE DEF all, v, i, n
  <2> QED
    BY <1>16, <1>19, <2>1, <2>2 DEF Worlds
<1> HIDE DEF v, all
<1>21. /\ ToSet(v.forces) = ToSet(w.forces) \cup {i} /\ Distinct(v.forces)
  <2>1. w.forces \in Seq(Nat) /\ i \notin ToSet(w.forces) /\ Distinct(w.forces)
    BY <1>1, <1>2, <1>6, <1>9 DEF WellFormed
  <2> HIDE DEF i, n
  <2> QED
    BY <1>6, <1>17, <2>1, SetOfAppend
<1>22. ASSUME NEW x \in Mon
       PROVE  /\ ToSet(v.lists[x]) = ToSet(w.lists[x]) \cup (IF x \in takers THEN {i} ELSE {})
              /\ Distinct(v.lists[x])
  <2>1. w.lists[x] \in Seq(Nat) /\ i \notin ToSet(w.lists[x]) /\ Distinct(w.lists[x])
    BY <1>1, <1>2, <1>6, <1>8 DEF WellFormed
  <2> HIDE DEF i, n
  <2> QED
    BY <1>6, <1>17, <2>1, SetOfAppend
<1> HIDE DEF i
<1>23. WellFormed(v)
  <2> HIDE DEF n
  <2>1. 1 .. n \subseteq DOMAIN v.made /\ i \in DOMAIN v.made
    BY <1>5, <1>6, <1>17
  <2>2. ToSet(v.forces) \subseteq DOMAIN v.made
    BY <1>9, <1>21, <2>1
  <2>3. \A x \in Mon : ToSet(v.lists[x]) \subseteq DOMAIN v.made /\ Distinct(v.lists[x])
    BY <1>8, <1>22, <2>1
  <2> QED
    BY <1>20, <1>21, <2>2, <2>3 DEF WellFormed
<1>24. Live(v) = Live(w) \cup {i}
  <2> HIDE DEF n
  <2>1. Live(v) = {j \in ToSet(w.forces) \cup {i} : ~made[j].gone}
    BY <1>17, <1>21 DEF Live, InForce
  <2> QED
    BY <1>3, <1>5, <1>11, <2>1 DEF InForce
<1>25. ASSUME NEW x \in Mon
       PROVE  LiveOf(v, x) = LiveOf(w, x) \cup (IF x \in takers THEN {i} ELSE {})
  <2> HIDE DEF n
  <2>1. LiveOf(v, x) = {j \in ToSet(w.lists[x]) \cup (IF x \in takers THEN {i} ELSE {}) : ~made[j].gone}
    BY <1>17, <1>22 DEF LiveOf, InForce
  <2> QED
    BY <1>3, <1>5, <1>10, <2>1 DEF InForce
<1>26. \A j \in Live(w) : made[j] = w.made[j]
  BY <1>5, <1>12
<1> HIDE DEF n
<1>27. Listed(v)
  <2> SUFFICES ASSUME NEW x \in w.on
               PROVE  LiveOf(v, x) = {j \in Live(v) : Concerns(made[j], x)}
    BY <1>17 DEF Listed
  <2>1. LiveOf(w, x) = {j \in Live(w) : Concerns(w.made[j], x)}
    BY <1>1 DEF Listed
  <2>2. x \in takers <=> Concerns(made[i], x)
    BY <1>5, <1>14
  <2>3. LiveOf(v, x) = LiveOf(w, x) \cup (IF x \in takers THEN {i} ELSE {})
    BY <1>1, <1>25
  <2> QED
    BY <1>24, <1>26, <2>1, <2>2, <2>3
<1>28. Unlisted(v, idle)
  BY <1>0, <1>1, <1>15, <1>25 DEF Unlisted
<1>29. OneOfAKind(v)
  <2>1. \A j \in Live(w) : ~Alike(made[j], made[i])
    BY <1>0, <1>5, <1>26
  <2>2. \A j \in Live(w) : ~Alike(made[i], made[j])
    BY <2>1 DEF Alike
  <2>3. \A j, k \in Live(w) : Alike(made[j], made[k]) => j = k
    BY <1>1, <1>26 DEF OneOfAKind
  <2> QED
    BY <1>17, <1>24, <2>1, <2>2, <2>3 DEF OneOfAKind
<1>30. Shown(v, fl \cup FlagsOf(kind))
  <2>1. \A j \in Live(w) : made[j].kind = "Reflect" \/ \E g \in fl : made[j].kind = EFFECTS[g]
    BY <1>1, <1>26 DEF Shown
  <2>2. kind = "Reflect" \/ \E g \in FlagsOf(kind) : kind = EFFECTS[g]
    BY <1>0 DEF FieldKinds, FlagsOf
  <2>3. \A g \in fl : \E j \in Live(w) : made[j].kind = EFFECTS[g]
    BY <1>1, <1>26 DEF Shown
  <2>4. \A g \in FlagsOf(kind) : made[i].kind = EFFECTS[g]
    BY <1>3, <1>5 DEF FlagsOf
  <2>5. fl \cup FlagsOf(kind) \subseteq Flagged
    BY <1>1 DEF FlagsOf
  <2> QED
    BY <1>3, <1>5, <1>17, <1>24, <2>1, <2>2, <2>3, <2>4, <2>5 DEF Shown
<1>31. Sound(v, fl \cup FlagsOf(kind), idle)
  BY <1>23, <1>27, <1>28, <1>29, <1>30 DEF Sound
<1> QED
  BY <1>4, <1>17, <1>31 DEF Grown, made, o, i, n

(* What is called off is gone, and nothing else.                           *)
CalledOff(gs, w, v) ==
    /\ v.on = w.on /\ v.forces = w.forces /\ DOMAIN v.made = DOMAIN w.made
    /\ \A i \in DOMAIN w.made :
            v.made[i] = IF w.made[i].kind \in {EFFECTS[g] : g \in gs}
                        THEN [w.made[i] EXCEPT !.gone = TRUE] ELSE w.made[i]

LEMMA LiftedKeeps ==
  ASSUME NEW w, NEW idle, Sound(w, flags, idle), NEW gs \in SUBSET Flagged
  PROVE  /\ Sound(Lifted(gs, w), flags \ gs, idle)
         /\ CalledOff(gs \cap flags, w, Lifted(gs, w))
<1> DEFINE made == [i \in DOMAIN w.made |->
                        IF w.made[i].kind \in {EFFECTS[g] : g \in gs \cap flags}
                        THEN [w.made[i] EXCEPT !.gone = TRUE] ELSE w.made[i]]
<1>1. /\ w \in Worlds /\ WellFormed(w) /\ Shown(w, flags) /\ flags \subseteq Flagged
      /\ Live(w) \subseteq DOMAIN w.made
  BY DEF Sound, WellFormed, Shown, Live, InForce
<1>2. Lifted(gs, w) = [w EXCEPT !.made = made]
  BY <1>1 DEF Lifted, Worlds
<1>3. /\ Lifted(gs, w).made = made /\ Lifted(gs, w).on = w.on /\ Lifted(gs, w).forces = w.forces
  BY <1>1, <1>2 DEF Worlds
<1>4. CalledOff(gs \cap flags, w, Lifted(gs, w))
  BY <1>3 DEF CalledOff
<1>5. \A i \in DOMAIN w.made : made[i] =
            IF w.made[i].kind \in {EFFECTS[g] : g \in gs \cap flags}
            THEN [w.made[i] EXCEPT !.gone = TRUE] ELSE w.made[i]
  OBVIOUS
<1>6. DOMAIN made = DOMAIN w.made
  OBVIOUS
<1> HIDE DEF made
<1>7. ASSUME NEW i \in DOMAIN made
      PROVE  /\ made[i].kind = w.made[i].kind /\ made[i].side = w.made[i].side
             /\ made[i] \in Object
             /\ w.made[i].gone => made[i].gone
  <2> DEFINE o == w.made[i]
             p == [o EXCEPT !.gone = TRUE]
  <2>1. o \in Object
    BY <1>1, <1>6, WorldIs
  <2>2. p \in Object /\ p.kind = o.kind /\ p.side = o.side /\ p.gone
    BY <2>1 DEF Object
  <2>3. made[i] = p \/ made[i] = o
    BY <1>5, <1>6
  <2> HIDE DEF o, p
  <2>4. made[i].kind = o.kind /\ made[i].side = o.side /\ made[i] \in Object /\ (o.gone => made[i].gone)
    BY <2>1, <2>2, <2>3
  <2> QED
    BY <2>4 DEF o
<1>8. made \in Seq(Object)
  <2>1. DOMAIN made = 1 .. Len(w.made) /\ Len(w.made) \in Nat
    BY <1>1, <1>6, WorldIs
  <2>2. made = [i \in 1 .. Len(w.made) |-> made[i]]
    BY <1>6, <2>1 DEF made
  <2>3. \A i \in 1 .. Len(w.made) : made[i] \in Object
    BY <1>6, <1>7, <2>1
  <2> DEFINE n == Len(w.made)
  <2> HIDE DEF n
  <2>4. made = [i \in 1 .. n |-> made[i]] /\ n \in Nat /\ \A i \in 1 .. n : made[i] \in Object
    BY <2>1, <2>2, <2>3 DEF n
  <2>5. made \in [1 .. n -> Object]
    BY <2>4
  <2> QED
    BY <2>4, <2>5, SeqDef
<1>9. ASSUME NEW i \in InForce(w.forces, w.made), w.made[i].kind # "Reflect"
      PROVE  made[i].gone <=> ~\E g \in flags \ gs : w.made[i].kind = EFFECTS[g]
  <2>1. i \in DOMAIN w.made /\ ~w.made[i].gone /\ w.made[i] \in Object
    BY <1>1, WorldIs DEF Live, InForce
  <2>2. PICK g \in flags : w.made[i].kind = EFFECTS[g]
    BY <1>1, <1>9 DEF Shown, Live
  <2>3. \A h \in Flagged : w.made[i].kind = EFFECTS[h] => h = g
    BY <1>1, <2>2, KindsAre
  <2>4. made[i].gone <=> g \in gs
    <3>1. w.made[i].kind \in {EFFECTS[h] : h \in gs \cap flags} <=> g \in gs
      BY <2>2, <2>3
    <3>2. CASE g \in gs
      <4>1. made[i] = [w.made[i] EXCEPT !.gone = TRUE]
        BY <1>5, <2>1, <3>1, <3>2
      <4> QED
        BY <2>1, <3>2, <4>1 DEF Object
    <3>3. CASE g \notin gs
      <4>1. made[i] = w.made[i]
        BY <1>5, <2>1, <3>1, <3>3
      <4> QED
        BY <2>1, <3>3, <4>1
    <3> QED
      BY <3>2, <3>3
  <2> QED
    BY <1>1, <2>2, <2>3, <2>4
<1>10. Sound([w EXCEPT !.made = made], flags \ gs, idle)
  BY <1>6, <1>7, <1>8, <1>9, MadeAnew
<1> QED
  BY <1>2, <1>4, <1>10

LEMMA SetOfConcat ==
  ASSUME NEW a \in Seq(Nat), NEW b \in Seq(Nat)
  PROVE  /\ a \o b \in Seq(Nat) /\ ToSet(a \o b) = ToSet(a) \cup ToSet(b)
         /\ Distinct(a) /\ Distinct(b) /\ ToSet(a) \cap ToSet(b) = {} => Distinct(a \o b)
<1> DEFINE n == Len(a)
           m == Len(b)
           c == a \o b
<1>1. /\ n \in Nat /\ DOMAIN a = 1 .. n /\ ToSet(a) = {a[k] : k \in 1 .. n}
      /\ m \in Nat /\ DOMAIN b = 1 .. m /\ ToSet(b) = {b[k] : k \in 1 .. m}
  BY SetOfList
<1>2. /\ c \in Seq(Nat) /\ Len(c) = n + m
      /\ \A k \in 1 .. n + m : c[k] = IF k <= n THEN a[k] ELSE b[k - n]
  BY ConcatProperties
<1>3. DOMAIN c = 1 .. n + m /\ ToSet(c) = {c[k] : k \in 1 .. n + m}
  BY <1>2, SetOfList
<1> HIDE DEF n, m, c
<1>4. \A k \in 1 .. n : k \in 1 .. n + m /\ c[k] = a[k]
  BY <1>1, <1>2
<1>5. \A k \in 1 .. m : n + k \in 1 .. n + m /\ c[n + k] = b[k]
  BY <1>1, <1>2
<1>6. \A k \in 1 .. n + m : k \in 1 .. n \/ (k - n \in 1 .. m /\ k = n + (k - n))
  BY <1>1
<1>7. ToSet(c) \subseteq ToSet(a) \cup ToSet(b)
  <2> SUFFICES ASSUME NEW k \in 1 .. n + m PROVE c[k] \in ToSet(a) \cup ToSet(b)
    BY <1>3
  <2>1. CASE k \in 1 .. n
    BY <1>1, <1>4, <2>1
  <2>2. CASE k \notin 1 .. n
    <3>1. k - n \in 1 .. m /\ k = n + (k - n)
      BY <1>6, <2>2
    <3>2. c[k] = b[k - n]
      BY <1>5, <3>1
    <3> QED
      BY <1>1, <3>1, <3>2
  <2> QED
    BY <2>1, <2>2
<1>8. ToSet(a) \subseteq ToSet(c) /\ ToSet(b) \subseteq ToSet(c)
  BY <1>1, <1>3, <1>4, <1>5
<1>9. ASSUME Distinct(a), Distinct(b), ToSet(a) \cap ToSet(b) = {} PROVE Distinct(c)
  <2> SUFFICES ASSUME NEW k \in 1 .. n + m, NEW j \in 1 .. n + m, c[k] = c[j] PROVE k = j
    BY <1>3 DEF Distinct
  <2>1. CASE k \in 1 .. n /\ j \in 1 .. n
    BY <1>1, <1>4, <1>9, <2>1 DEF Distinct
  <2>2. CASE k \notin 1 .. n /\ j \notin 1 .. n
    <3>1. k - n \in 1 .. m /\ j - n \in 1 .. m /\ k = n + (k - n) /\ j = n + (j - n)
      BY <1>6, <2>2
    <3>2. b[k - n] = b[j - n]
      BY <1>5, <3>1
    <3>3. k - n = j - n
      BY <1>1, <1>9, <3>1, <3>2 DEF Distinct
    <3> QED
      BY <3>1, <3>3
  <2>3. CASE k \in 1 .. n /\ j \notin 1 .. n
    <3>1. c[k] \in ToSet(a) /\ j - n \in 1 .. m /\ j = n + (j - n)
      BY <1>1, <1>4, <1>6, <2>3
    <3>2. c[j] \in ToSet(b)
      BY <1>1, <1>5, <3>1
    <3> QED
      BY <1>9, <3>1, <3>2
  <2>4. CASE k \notin 1 .. n /\ j \in 1 .. n
    <3>1. c[j] \in ToSet(a) /\ k - n \in 1 .. m /\ k = n + (k - n)
      BY <1>1, <1>4, <1>6, <2>4
    <3>2. c[k] \in ToSet(b)
      BY <1>1, <1>5, <3>1
    <3> QED
      BY <1>9, <3>1, <3>2
  <2> QED
    BY <2>1, <2>2, <2>3, <2>4
<1>10. ToSet(c) = ToSet(a) \cup ToSet(b)
  BY <1>7, <1>8
<1> QED
  BY <1>2, <1>9, <1>10 DEF c

(* Who comes in takes what is in force and concerns it; who leaves, leaves *)
(* that behind.                                                            *)
Joined(y, w) == [made |-> w.made, lists |-> Entered(y, w).lists, forces |-> w.forces,
                 on |-> w.on \cup {y}]
Left(x, w) == [made |-> w.made, lists |-> Departed(x, w).lists, forces |-> w.forces,
               on |-> w.on \ {x}]

LEMMA EnteredKeeps ==
  ASSUME NEW w, NEW fl, NEW idle, Sound(w, fl, idle), NEW y \in idle, y \notin w.on
  PROVE  Sound(Joined(y, w), fl, idle \ {y})
<1> DEFINE taken == {i \in Live(w) : Takes(y, i, w)}
           more == Kept(w.forces, taken)
           held == [w.lists EXCEPT ![y] = @ \o more]
           v == [made |-> w.made, lists |-> held, forces |-> w.forces, on |-> w.on \cup {y}]
<1>1. /\ w \in Worlds /\ WellFormed(w) /\ Listed(w) /\ Unlisted(w, idle) /\ OneOfAKind(w)
      /\ Shown(w, fl) /\ w.on \subseteq Mon /\ idle \subseteq Mon
  BY WorldIs DEF Sound, WellFormed, Unlisted
<1>2. /\ w.made \in Seq(Object) /\ w.lists \in [Mon -> Seq(Nat)] /\ w.forces \in Seq(Nat)
      /\ w.on \in SUBSET Mon /\ y \in Mon
  BY <1>1, WorldIs
<1>3. Entered(y, w).lists = held
  BY <1>1 DEF Entered, Live, Worlds
<1>4. LiveOf(w, y) = {}
  BY <1>1 DEF Unlisted
<1>5. taken = {i \in Live(w) : Concerns(w.made[i], y)}
  BY <1>4 DEF Takes, LiveOf, Concerns
<1>6. /\ more \in Seq(Nat) /\ ToSet(more) = ToSet(w.forces) \cap taken /\ Distinct(more)
  <2> HIDE DEF taken
  <2> QED
    BY <1>1, <1>2, KeptIs DEF WellFormed
<1>7. ToSet(more) = taken
  BY <1>6 DEF Live, InForce
<1>8. w.lists[y] \in Seq(Nat) /\ Distinct(w.lists[y]) /\ ToSet(w.lists[y]) \subseteq DOMAIN w.made
  BY <1>1, <1>2 DEF WellFormed
<1>9. ToSet(w.lists[y]) \cap taken = {}
  BY <1>4 DEF LiveOf, InForce, Live
<1> HIDE DEF more
<1>10. /\ w.lists[y] \o more \in Seq(Nat) /\ Distinct(w.lists[y] \o more)
       /\ ToSet(w.lists[y] \o more) = ToSet(w.lists[y]) \cup taken
  <2> HIDE DEF taken
  <2> QED
    BY <1>6, <1>7, <1>8, <1>9, SetOfConcat
<1>11. /\ held \in [Mon -> Seq(Nat)] /\ held[y] = w.lists[y] \o more
       /\ \A x \in Mon \ {y} : held[x] = w.lists[x]
  BY <1>2, <1>10
<1>12. /\ v.made = w.made /\ v.lists = held /\ v.forces = w.forces /\ v.on = w.on \cup {y}
       /\ v \in Worlds
  BY <1>1, <1>2, <1>11 DEF Worlds
<1> HIDE DEF v, held, taken
<1>13. taken \subseteq DOMAIN w.made
  BY <1>1, <1>5 DEF WellFormed, Live, InForce
<1>14. WellFormed(v)
  <2> SUFFICES ASSUME NEW x \in Mon
               PROVE  ToSet(held[x]) \subseteq DOMAIN w.made /\ Distinct(held[x])
    BY <1>1, <1>12 DEF WellFormed
  <2>1. CASE x = y
    BY <1>8, <1>10, <1>11, <1>13, <2>1
  <2>2. CASE x # y
    BY <1>1, <1>11, <2>2 DEF WellFormed
  <2> QED
    BY <2>1, <2>2
<1>15. Live(v) = Live(w)
  BY <1>12 DEF Live
<1>16. LiveOf(v, y) = taken
  <2>1. LiveOf(v, y) = {i \in ToSet(w.lists[y]) \cup taken : ~w.made[i].gone}
    BY <1>10, <1>11, <1>12 DEF LiveOf, InForce
  <2>2. \A i \in taken : ~w.made[i].gone
    BY <1>5 DEF Live, InForce
  <2> QED
    BY <1>4, <2>1, <2>2 DEF LiveOf, InForce
<1>17. \A x \in Mon \ {y} : LiveOf(v, x) = LiveOf(w, x)
  BY <1>11, <1>12 DEF LiveOf
<1>18. Listed(v)
  <2> SUFFICES ASSUME NEW x \in w.on \cup {y}
               PROVE  LiveOf(v, x) = {i \in Live(v) : Concerns(v.made[i], x)}
    BY <1>12 DEF Listed
  <2>1. CASE x = y
    BY <1>5, <1>12, <1>15, <1>16, <2>1
  <2>2. CASE x # y
    <3>1. LiveOf(w, x) = {i \in Live(w) : Concerns(w.made[i], x)}
      BY <1>1, <2>2 DEF Listed
    <3>2. LiveOf(v, x) = LiveOf(w, x)
      BY <1>1, <1>17, <2>2
    <3> QED
      BY <1>12, <1>15, <3>1, <3>2
  <2> QED
    BY <2>1, <2>2
<1>19. Unlisted(v, idle \ {y})
  BY <1>1, <1>17 DEF Unlisted
<1>20. OneOfAKind(v) /\ Shown(v, fl)
  BY <1>1, <1>12, <1>15 DEF OneOfAKind, Shown
<1>21. Sound(v, fl, idle \ {y})
  BY <1>14, <1>18, <1>19, <1>20 DEF Sound
<1> QED
  BY <1>3, <1>21 DEF v, Joined

LEMMA DepartedKeeps ==
  ASSUME NEW w, NEW fl, NEW idle, Sound(w, fl, idle), NEW x \in Mon
  PROVE  Sound(Left(x, w), fl, idle \cup {x})
<1> DEFINE over == {i \in DOMAIN w.made : w.made[i].gone}
           left == Kept(w.lists[x], over)
           held == [w.lists EXCEPT ![x] = left]
           v == [made |-> w.made, lists |-> held, forces |-> w.forces, on |-> w.on \ {x}]
<1>1. /\ w \in Worlds /\ WellFormed(w) /\ Listed(w) /\ Unlisted(w, idle) /\ OneOfAKind(w)
      /\ Shown(w, fl) /\ w.on \subseteq Mon /\ idle \subseteq Mon
  BY WorldIs DEF Sound, WellFormed, Unlisted
<1>2. /\ w.made \in Seq(Object) /\ w.lists \in [Mon -> Seq(Nat)] /\ w.forces \in Seq(Nat)
      /\ w.on \in SUBSET Mon
  BY <1>1, WorldIs
<1>3. Departed(x, w).lists = held
  BY <1>1 DEF Departed, Worlds
<1>4. /\ left \in Seq(Nat) /\ ToSet(left) = ToSet(w.lists[x]) \cap over /\ Distinct(left)
  <2>1. w.lists[x] \in Seq(Nat) /\ Distinct(w.lists[x])
    BY <1>1, <1>2 DEF WellFormed
  <2> HIDE DEF over
  <2> QED
    BY <2>1, KeptIs
<1> HIDE DEF left
<1>5. /\ held \in [Mon -> Seq(Nat)] /\ held[x] = left
      /\ \A y \in Mon \ {x} : held[y] = w.lists[y]
  BY <1>2, <1>4
<1>6. /\ v.made = w.made /\ v.lists = held /\ v.forces = w.forces /\ v.on = w.on \ {x}
      /\ v \in Worlds
  BY <1>1, <1>2, <1>5 DEF Worlds
<1> HIDE DEF v, held
<1>7. WellFormed(v)
  <2> SUFFICES ASSUME NEW y \in Mon
               PROVE  ToSet(held[y]) \subseteq DOMAIN w.made /\ Distinct(held[y])
    BY <1>1, <1>6 DEF WellFormed
  <2>1. CASE x = y
    BY <1>4, <1>5, <2>1
  <2>2. CASE x # y
    BY <1>1, <1>5, <2>2 DEF WellFormed
  <2> QED
    BY <2>1, <2>2
<1>8. Live(v) = Live(w)
  BY <1>6 DEF Live
<1>9. LiveOf(v, x) = {}
  BY <1>4, <1>5, <1>6 DEF LiveOf, InForce
<1>10. \A y \in Mon \ {x} : LiveOf(v, y) = LiveOf(w, y)
  BY <1>5, <1>6 DEF LiveOf
<1>11. Listed(v)
  BY <1>1, <1>6, <1>8, <1>10 DEF Listed
<1>12. Unlisted(v, idle \cup {x})
  BY <1>1, <1>9, <1>10 DEF Unlisted
<1>13. OneOfAKind(v) /\ Shown(v, fl)
  BY <1>1, <1>6, <1>8 DEF OneOfAKind, Shown
<1>14. Sound(v, fl, idle \cup {x})
  BY <1>7, <1>11, <1>12, <1>13 DEF Sound
<1> QED
  BY <1>3, <1>14 DEF v, Left

(* Who stands in the slots.                                                *)
PlacedIn(l) == UNION {ToSet(l[s]) : s \in {0, 1}}

LEMMA SpotsIn ==
  ASSUME NEW l, SlotsOK(l), NEW d
  PROVE  /\ {l[p[1]][p[2]] : p \in UNION {{<<s, k>> : k \in DOMAIN l[s]} : s \in {0, 1}}} = PlacedIn(l)
         /\ {x \in Mon \ d : Side[x] = 0 /\ x \notin ToSet(l[0])}
               \cup {x \in Mon \ d : Side[x] = 1 /\ x \notin ToSet(l[1])} = Mon \ (d \cup PlacedIn(l))
         /\ PlacedIn(l) \subseteq Mon \cup {Vacant}
<1>1. \A s \in {0, 1} : ToSet(l[s]) = {l[s][k] : k \in DOMAIN l[s]}
  BY DEF ToSet
<1>2. \A s \in {0, 1} : ToSet(l[s]) \subseteq Mon \cup {Vacant}
  BY SetOfList DEF SlotsOK
<1>3. PlacedIn(l) = ToSet(l[0]) \cup ToSet(l[1])
  BY DEF PlacedIn
<1>4. {l[p[1]][p[2]] : p \in UNION {{<<s, k>> : k \in DOMAIN l[s]} : s \in {0, 1}}} = PlacedIn(l)
  <2> DEFINE P == UNION {{<<s, k>> : k \in DOMAIN l[s]} : s \in {0, 1}}
  <2>1. \A p \in P : p[1] \in {0, 1} /\ p[2] \in DOMAIN l[p[1]]
    OBVIOUS
  <2>2. ASSUME NEW s \in {0, 1}, NEW k \in DOMAIN l[s]
        PROVE  <<s, k>> \in P /\ <<s, k>>[1] = s /\ <<s, k>>[2] = k
    OBVIOUS
  <2> HIDE DEF P
  <2>3. {l[p[1]][p[2]] : p \in P} = PlacedIn(l)
    <3>1. ASSUME NEW x \in PlacedIn(l) PROVE \E p \in P : x = l[p[1]][p[2]]
      <4>1. PICK s \in {0, 1} : x \in ToSet(l[s])
        BY DEF PlacedIn
      <4>2. PICK k \in DOMAIN l[s] : x = l[s][k]
        BY <1>1, <4>1
      <4> QED
        BY <2>2, <4>2
    <3>2. ASSUME NEW p \in P PROVE l[p[1]][p[2]] \in PlacedIn(l)
      BY <1>1, <2>1 DEF PlacedIn
    <3> QED
      BY <3>1, <3>2
  <2> QED
    BY <2>3 DEF P
<1>5. \A x \in Mon : Side[x] \in {0, 1} /\ x # Vacant
  BY ModifiersAssumption
<1>6. \A s \in {0, 1} : \A x \in ToSet(l[s]) : x # Vacant => Side[x] = s
  BY <1>1 DEF SlotsOK
<1>7. {x \in Mon \ d : Side[x] = 0 /\ x \notin ToSet(l[0])}
               \cup {x \in Mon \ d : Side[x] = 1 /\ x \notin ToSet(l[1])} = Mon \ (d \cup PlacedIn(l))
  BY <1>3, <1>5, <1>6
<1> QED
  BY <1>2, <1>3, <1>4, <1>7

PutIn(l, s, k, y) == [l EXCEPT ![s][k] = y]

LEMMA PutInIs ==
  ASSUME NEW l, SlotsOK(l), NEW s \in {0, 1}, NEW k \in DOMAIN l[s], l[s][k] # Vacant,
         NEW y \in Mon, Side[y] = s, y \notin PlacedIn(l)
  PROVE  /\ SlotsOK(PutIn(l, s, k, y))
         /\ PlacedIn(PutIn(l, s, k, y)) = (PlacedIn(l) \ {l[s][k]}) \cup {y}
<1> DEFINE m == [l EXCEPT ![s][k] = y]
           row == [l[s] EXCEPT ![k] = y]
<1>1. /\ DOMAIN l = {0, 1} /\ l[s] \in Seq(Mon \cup {Vacant})
      /\ DOMAIN l[s] = 1 .. Len(l[s]) /\ l[s] \in [1 .. Len(l[s]) -> Mon \cup {Vacant}]
      /\ Len(l[s]) \in Nat
  BY LenProperties DEF SlotsOK
<1>2. DOMAIN m = {0, 1} /\ m[s] = row /\ \A t \in {0, 1} \ {s} : m[t] = l[t]
  BY <1>1
<1>3. /\ DOMAIN row = DOMAIN l[s] /\ row[k] = y /\ \A n \in DOMAIN l[s] \ {k} : row[n] = l[s][n]
      /\ row \in [1 .. Len(l[s]) -> Mon \cup {Vacant}]
  BY <1>1
<1>4. row \in Seq(Mon \cup {Vacant})
  <2> HIDE DEF row
  <2> QED
    BY <1>1, <1>3, SeqDef
<1> HIDE DEF m, row
<1>5. \A t \in {0, 1} : ToSet(l[t]) = {l[t][n] : n \in DOMAIN l[t]} /\ ToSet(m[t]) = {m[t][n] : n \in DOMAIN m[t]}
  BY DEF ToSet
<1>6. y # Vacant /\ \A n \in DOMAIN l[s] : l[s][n] # y
  BY <1>5, ModifiersAssumption DEF PlacedIn
<1>7. SlotsOK(m)
  <2>1. \A t \in {0, 1} : m[t] \in Seq(Mon \cup {Vacant})
    BY <1>2, <1>4 DEF SlotsOK
  <2>2. ASSUME NEW t \in {0, 1}, NEW n \in DOMAIN m[t], m[t][n] # Vacant
        PROVE  Side[m[t][n]] = t /\ \A o \in DOMAIN m[t] \ {n} : m[t][o] # m[t][n]
    <3>1. CASE t # s
      BY <1>2, <2>2, <3>1 DEF SlotsOK
    <3>2. CASE t = s /\ n = k
      BY <1>2, <1>3, <1>6, <3>2
    <3>3. CASE t = s /\ n # k
      <4>1. /\ n \in DOMAIN l[s] /\ m[s][n] = l[s][n] /\ m[s][k] = y
        BY <1>2, <1>3, <2>2, <3>3
      <4>2. Side[l[s][n]] = s /\ \A o \in DOMAIN l[s] \ {n} : l[s][o] # l[s][n]
        BY <2>2, <3>3, <4>1 DEF SlotsOK
      <4>3. ASSUME NEW o \in DOMAIN l[s], o # n PROVE m[s][o] # m[s][n]
        BY <1>2, <1>3, <1>6, <4>1, <4>2, <4>3
      <4> QED
        BY <1>2, <1>3, <3>3, <4>1, <4>2, <4>3
    <3> QED
      BY <3>1, <3>2, <3>3
  <2> QED
    BY <1>2, <2>1, <2>2 DEF SlotsOK
<1>8. ToSet(m[s]) = (ToSet(l[s]) \ {l[s][k]}) \cup {y}
  <2>1. \A n \in DOMAIN l[s] : n # k => l[s][n] # l[s][k]
    BY DEF SlotsOK
  <2>2. ToSet(m[s]) = {row[n] : n \in DOMAIN l[s]}
    BY <1>2, <1>3, <1>5
  <2>3. ASSUME NEW x PROVE x \in ToSet(m[s]) <=> x \in (ToSet(l[s]) \ {l[s][k]}) \cup {y}
    <3>1. x \in ToSet(m[s]) <=> \E n \in DOMAIN l[s] : row[n] = x
      BY <2>2
    <3>2. x \in ToSet(l[s]) <=> \E n \in DOMAIN l[s] : l[s][n] = x
      BY <1>5
    <3> QED
      BY <1>3, <2>1, <3>1, <3>2
  <2> QED
    BY <2>3
<1>9. \A t \in {0, 1} \ {s} : ToSet(m[t]) = ToSet(l[t]) /\ l[s][k] \notin ToSet(l[t])
  BY <1>1, <1>2, <1>5 DEF SlotsOK
<1>10. PlacedIn(m) = (PlacedIn(l) \ {l[s][k]}) \cup {y}
  BY <1>8, <1>9 DEF PlacedIn
<1> QED
  BY <1>7, <1>10 DEF m, PutIn

(* An effect that was made just now has all its turns before it.           *)
LEMMA RestedOn ==
  ASSUME NEW made \in Seq(Object), NEW ids \in SUBSET DOMAIN made, Rested(made, ids),
         NEW kind \in FieldKinds \cup {"Reflect"}, NEW s \in {0, 1}, NEW turns \in {-1, Duration},
         kind = "Reflect" => turns >= 0
  PROVE  Rested(Append(made, Made(kind, s, turns)), ids \cup {Len(made) + 1})
<1> DEFINE o == Made(kind, s, turns)
           n == Len(made)
           all == Append(made, o)
<1>1. Duration \in Nat \ {0}
  BY ModifiersAssumption
<1>2. o \in Object /\ o.turns = turns /\ o.age = 0
  <2>1. turns \in Int
    BY <1>1
  <2> QED
    BY <2>1, MadeIs DEF Made
<1>3. n \in Nat /\ DOMAIN made = 1 .. n
  BY LenProperties
<1> HIDE DEF o
<1>4. Len(all) = n + 1 /\ all \in Seq(Object) /\ all[n + 1] = o /\ \A j \in 1 .. n : all[j] = made[j]
  BY <1>2, <1>3, AppendProperties
<1>5. DOMAIN all = 1 .. n + 1
  BY <1>4, LenProperties
<1>6. Lasting(o) /\ (o.turns = -1 \/ o.turns > 0)
  BY <1>1, <1>2 DEF Lasting
<1> HIDE DEF all
<1>7. Rested(all, ids \cup {n + 1})
  <2> HIDE DEF n
  <2>1. 1 .. n + 1 = (1 .. n) \cup {n + 1} /\ n + 1 \notin 1 .. n
    BY <1>3
  <2> QED
    BY <1>3, <1>4, <1>5, <1>6, <2>1 DEF Rested
<1> QED
  BY <1>7 DEF all, o, n

(* Acid Rain: one weather after the other, each where it was not.          *)
LEMMA ImposeIsWorld ==
  ASSUME NEW w \in Worlds, NEW g \in Flagged
  PROVE  Impose(w, EFFECTS[g], 0, -1) \in Worlds
<1> DEFINE i == Len(w.made) + 1
           o == Made(EFFECTS[g], 0, -1)
           all == [w EXCEPT !.made = Append(@, o)]
           takers == {x \in w.on : Takes(x, i, all)}
           held == [x \in Mon |-> IF x \in takers THEN Append(w.lists[x], i) ELSE w.lists[x]]
           inAll == IF takers = {} THEN w.forces ELSE Append(w.forces, i)
           made == Append(w.made, o)
<1>1. w.made \in Seq(Object) /\ w.lists \in [Mon -> Seq(Nat)] /\ w.forces \in Seq(Nat)
      /\ w.on \in SUBSET Mon /\ Len(w.made) \in Nat
  BY WorldIs
<1>2. o \in Object
  <2>1. EFFECTS[g] \in FieldKinds /\ EFFECTS[g] # "Reflect" /\ -1 \in Int /\ 0 \in {0, 1}
    BY KindsAre
  <2> QED
    BY <2>1, MadeIs
<1>3. Impose(w, EFFECTS[g], 0, -1) =
        [all EXCEPT !.lists = [x \in Mon |-> IF x \in takers THEN Append(@[x], i) ELSE @[x]],
                    !.forces = IF takers = {} THEN @ ELSE Append(@, i)]
  BY DEF Impose, Made
<1>4. i \in Nat
  BY <1>1
<1> HIDE DEF o, i, takers
<1>5. made \in Seq(Object)
  BY <1>1, <1>2, AppendProperties
<1>6. inAll \in Seq(Nat)
  BY <1>1, <1>4, AppendProperties
<1>7. held \in [Mon -> Seq(Nat)]
  <2>1. \A x \in Mon : Append(w.lists[x], i) \in Seq(Nat)
    BY <1>1, <1>4, AppendProperties
  <2> QED
    BY <1>1, <2>1
<1>8. all \in Worlds /\ all.lists = w.lists /\ all.forces = w.forces
  BY <1>5 DEF Worlds
<1> HIDE DEF all
<1>9. Impose(w, EFFECTS[g], 0, -1) = [all EXCEPT !.lists = held, !.forces = inAll]
  BY <1>3, <1>8
<1> HIDE DEF held, inAll
<1> QED
  BY <1>6, <1>7, <1>8, <1>9 DEF Worlds

(* A weather, or its like, that is called up where it was not.             *)
MayBeCalled(w, fl, idle, g, s, turns) ==
    /\ idle \cap w.on = {} /\ w.on # {} /\ Rested(w.made, ToSet(w.forces))
    /\ g \in Flagged \ fl /\ s \in {0, 1} /\ turns \in {-1, Duration}
Restful(w, v) == v.on = w.on /\ Rested(v.made, ToSet(v.forces))

LEMMA CalledUp ==
  ASSUME NEW w, NEW fl, NEW idle, NEW g, NEW s, NEW turns,
         Sound(w, fl, idle), MayBeCalled(w, fl, idle, g, s, turns)
  PROVE  /\ Sound(Impose(w, EFFECTS[g], s, turns), fl \cup {g}, idle)
         /\ Restful(w, Impose(w, EFFECTS[g], s, turns))
<1> DEFINE kind == EFFECTS[g]
           o == Made(kind, s, turns)
           u == Impose(w, kind, s, turns)
<1>1. /\ w \in Worlds /\ WellFormed(w) /\ Shown(w, fl) /\ fl \subseteq Flagged
      /\ Duration \in Nat \ {0} /\ idle \cap w.on = {} /\ w.on # {} /\ Rested(w.made, ToSet(w.forces))
      /\ g \in Flagged /\ g \notin fl /\ s \in {0, 1} /\ turns \in {-1, Duration}
  BY ModifiersAssumption DEF Sound, WellFormed, Shown, MayBeCalled
<1>2. kind \in FieldKinds \cup {"Reflect"} /\ kind # "Reflect" /\ FlagsOf(kind) = {g} /\ turns \in Int
  BY <1>1, KindsAre DEF FlagsOf
<1>3. ASSUME NEW i \in Live(w), Alike(w.made[i], o) PROVE FALSE
  <2>1. w.made[i].kind = EFFECTS[g] /\ EFFECTS[g] # "Reflect"
    BY <1>2, <1>3 DEF Alike, Made
  <2>2. PICK h \in fl : w.made[i].kind = EFFECTS[h]
    BY <1>1, <2>1 DEF Shown
  <2> QED
    BY <1>1, <2>1, <2>2, KindsAre
<1>4. \E x \in w.on : Concerns(o, x)
  BY <1>1, <1>2 DEF Concerns, Made
<1>5. kind = "Reflect" => turns >= 0
  BY <1>2
<1> HIDE DEF kind
<1>6. \A i \in Live(w) : ~Alike(w.made[i], Made(kind, s, turns))
  BY <1>3
<1>7. /\ Sound(u, fl \cup FlagsOf(kind), idle) /\ u.made = Append(w.made, o)
      /\ u.forces = Append(w.forces, Len(w.made) + 1) /\ u.on = w.on
  <2>1. Wanted(w, idle, kind, s, turns)
    BY <1>1, <1>2, <1>4, <1>5, <1>6 DEF Wanted
  <2>2. Sound(u, fl \cup FlagsOf(kind), idle)
    BY <2>1, ImposeKeeps
  <2>3. Grown(w, u, o)
    BY <2>1, ImposeKeeps
  <2> HIDE DEF u
  <2> QED
    BY <2>1, <2>2, <2>3 DEF Grown
<1>8. /\ w.made \in Seq(Object) /\ ToSet(w.forces) \in SUBSET DOMAIN w.made
      /\ w.forces \in Seq(Nat) /\ Len(w.made) + 1 \in Nat
  BY <1>1, WorldIs DEF WellFormed
<1> HIDE DEF u
<1>9. ToSet(u.forces) = ToSet(w.forces) \cup {Len(w.made) + 1}
  BY <1>7, <1>8, SetOfAppend
<1>10. Rested(Append(w.made, o), ToSet(w.forces) \cup {Len(w.made) + 1})
  BY <1>1, <1>2, <1>5, <1>8, RestedOn
<1>11. /\ Sound(u, fl \cup {g}, idle) /\ Restful(w, u)
  BY <1>2, <1>7, <1>9, <1>10 DEF Restful
<1> QED
  BY <1>11 DEF u, kind

LEMMA RestedOff ==
  ASSUME NEW w, w \in Worlds, NEW gs, NEW v, CalledOff(gs, w, v),
         ToSet(w.forces) \subseteq DOMAIN w.made, Rested(w.made, ToSet(w.forces))
  PROVE  Restful(w, v)
<1>1. /\ v.on = w.on /\ v.forces = w.forces /\ DOMAIN v.made = DOMAIN w.made
      /\ \A i \in DOMAIN w.made : w.made[i] \in Object
  BY WorldIs DEF CalledOff
<1>2. ASSUME NEW i \in DOMAIN w.made
      PROVE  /\ v.made[i].turns = w.made[i].turns
             /\ Lasting(w.made[i]) => Lasting(v.made[i])
  <2> DEFINE o == w.made[i]
             p == [o EXCEPT !.gone = TRUE]
  <2>1. p.turns = o.turns /\ p.age = o.age /\ p.gone
    BY <1>1 DEF Object
  <2>2. v.made[i] = p \/ v.made[i] = o
    BY DEF CalledOff
  <2> HIDE DEF o, p
  <2>3. Lasting(o) => Lasting(p)
    BY <2>1 DEF Lasting
  <2>4. v.made[i].turns = o.turns /\ (Lasting(o) => Lasting(v.made[i]))
    BY <2>1, <2>2, <2>3
  <2> QED
    BY <2>4 DEF o
<1> QED
  BY <1>1, <1>2 DEF Restful, Rested

LEMMA AcidRainKeeps ==
  ASSUME NEW w, NEW idle, Sound(w, flags, idle), idle \cap w.on = {}, w.on # {},
         Rested(w.made, ToSet(w.forces)),
         NEW first \in Flagged, \A g \in 1 .. first - 1 : g \notin flags
  PROVE  /\ Sound(AcidRain(first, w), flags \cup 1 .. first - 1, idle)
         /\ Restful(w, AcidRain(first, w))
<1> DEFINE n == first - 1
           list == [g \in 1 .. n |-> g]
           V == Worlds
           Step(v, g) == Impose(v, EFFECTS[g], 0, -1)
           base == w
           F == [v \in V |-> [k \in 1 .. n |-> Step(v, list[k])]]
           Stage(g, s) == IF s = {} THEN base ELSE Step(g[s \ {Max(s)}], list[Max(s)])
           iter == CHOOSE g : g = [s \in SUBSET (1 .. n) |-> Stage(g, s)]
<1>1. n \in Nat /\ 1 .. n \subseteq Flagged /\ list \in Seq(1 .. n) /\ Len(list) = n /\ DOMAIN list = 1 .. n
      /\ \A k \in 1 .. n : list[k] = k
  <2>1. first \in 1 .. 5 /\ Flagged = 1 .. 5
    BY KindsAre
  <2>2. n \in Nat /\ 1 .. n \subseteq 1 .. 5
    BY <2>1
  <2> HIDE DEF n
  <2>3. list \in [1 .. n -> 1 .. n]
    OBVIOUS
  <2>4. list \in Seq(1 .. n) /\ Len(list) = n
    BY <2>2, <2>3, SeqDef, LenProperties
  <2> QED
    BY <2>1, <2>2, <2>4
<1>2. ASSUME NEW v \in V, NEW k \in 1 .. n PROVE Step(v, list[k]) \in V
  BY <1>1, ImposeIsWorld
<1>3. AcidRain(first, w) = iter[1 .. n]
  <2>1. AcidRain(first, w) = FoldLeft(Step, base, list)
    BY DEF AcidRain
  <2> HIDE DEF n, list, base, Step
  <2> QED
    BY <1>1, <2>1 DEF FoldLeft, MapThenFoldSet
<1> HIDE DEF Step
<1>4. F \in [V -> [1 .. n -> V]]
  BY <1>2
<1>5. base \in V
  BY DEF Sound, WellFormed
<1> HIDE DEF base, list
<1>6. \E g : g = [s \in SUBSET (1 .. n) |-> Stage(g, s)]
  <2> HIDE DEF V, F, n
  <2>1. PICK g : FoldsTo(g, 1 .. n, V, base, F)
    BY <1>1, <1>4, <1>5, FoldExists
  <2>2. ASSUME NEW s \in SUBSET (1 .. n) PROVE g[s] = Stage(g, s)
    <3>1. s # {} => g[s \ {Max(s)}] \in V /\ Max(s) \in 1 .. n
      BY <1>1, <2>1, MaxOf DEF FoldsTo
    <3>2. s # {} => FoldedFrom(g, base, F, s) = Step(g[s \ {Max(s)}], list[Max(s)])
      BY <3>1 DEF FoldedFrom, F
    <3> QED
      BY <2>1, <3>2 DEF FoldedFrom, FoldsTo
  <2> HIDE DEF Stage
  <2> QED
    BY <2>1, <2>2 DEF FoldsTo
<1>7. iter = [s \in SUBSET (1 .. n) |-> Stage(iter, s)]
  <2> HIDE DEF Stage, n
  <2> QED
    BY <1>6
<1> HIDE DEF iter, F
<1> DEFINE Fine(v, s) == /\ Sound(v, flags \cup s, idle) /\ v.on = w.on
                         /\ Rested(v.made, ToSet(v.forces))
           Good == {s \in SUBSET (1 .. n) : Fine(iter[s], s)}
<1>8. {} \in Good
  <2>1. iter[{}] = w
    BY <1>7 DEF base
  <2>2. flags \cup {} = flags
    OBVIOUS
  <2> QED
    BY <2>1, <2>2
<1>9. ASSUME NEW s \in SUBSET (1 .. n), s # {}, s \ {Max(s)} \in Good
      PROVE  s \in Good
  <2> DEFINE m == Max(s)
             r == s \ {m}
             v == iter[r]
             u == Impose(v, EFFECTS[m], 0, -1)
  <2>1. m \in s /\ m \in 1 .. n /\ m \in Flagged /\ list[m] = m /\ m \notin flags
    BY <1>1, <1>9, MaxOf
  <2>2. Fine(v, r)
    BY <1>9
  <2>3. iter[s] = u
    <3>1. iter[s] = Step(v, list[m])
      BY <1>7, <1>9
    <3> QED
      BY <2>1, <3>1 DEF Step
  <2>4. r \cup {m} = s /\ m \notin r
    BY <2>1
  <2> HIDE DEF m, r, v
  <2>5. Sound(u, (flags \cup r) \cup {m}, idle) /\ Restful(v, u)
    <3> DEFINE turns == -1
               side == 0
    <3>1. /\ Sound(v, flags \cup r, idle) /\ idle \cap v.on = {} /\ v.on # {}
          /\ Rested(v.made, ToSet(v.forces)) /\ m \in Flagged /\ m \notin flags \cup r
          /\ side \in {0, 1} /\ turns \in {-1, Duration}
      BY <2>1, <2>2, <2>4
    <3>2. u = Impose(v, EFFECTS[m], side, turns)
      OBVIOUS
    <3>3. MayBeCalled(v, flags \cup r, idle, m, side, turns)
      BY <3>1 DEF MayBeCalled
    <3> HIDE DEF u, turns, side
    <3> QED
      BY <3>1, <3>2, <3>3, CalledUp
  <2>6. (flags \cup r) \cup {m} = flags \cup s
    BY <2>4
  <2>12. Fine(u, s)
    <3> HIDE DEF u
    <3> QED
      BY <2>2, <2>5, <2>6 DEF Restful
  <2> HIDE DEF u, Fine
  <2> QED
    BY <1>9, <2>3, <2>12
<1>10. 1 .. n \in Good
  <2> HIDE DEF Good, n
  <2> QED
    BY <1>1, <1>8, <1>9, FoldInduction
<1>11. Fine(AcidRain(first, w), 1 .. n)
  BY <1>3, <1>10
<1> QED
  BY <1>11 DEF Restful

-----------------------------------------------------------------------------
(* The steps of the field.                                                 *)
LEMMA FieldIs ==
  ASSUME FieldInv
  PROVE  /\ Afoot = PlacedIn(slots) \ (downed \cup {Vacant})
         /\ Idle = Mon \ (downed \cup PlacedIn(slots))
         /\ PlacedIn(slots) \subseteq Mon \cup {Vacant}
         /\ World \in Worlds /\ World.on = Afoot /\ Idle \cap World.on = {}
         /\ World.made = objects /\ World.lists = lists /\ World.forces = forces
         /\ ToSet(forces) \subseteq DOMAIN objects /\ flags \subseteq Flagged
<1>1. SlotsOK(slots) /\ Sound(World, flags, Idle)
  BY DEF FieldInv
<1>2. /\ Afoot = PlacedIn(slots) \ (downed \cup {Vacant})
      /\ Idle = Mon \ (downed \cup PlacedIn(slots))
      /\ PlacedIn(slots) \subseteq Mon \cup {Vacant}
  BY <1>1, SpotsIn DEF Afoot, Holder, Spots, Idle, Reserve
<1>3. World.on = Afoot /\ World.made = objects /\ World.lists = lists /\ World.forces = forces
  BY DEF World
<1>4. World \in Worlds /\ ToSet(World.forces) \subseteq DOMAIN World.made /\ flags \subseteq Flagged
  BY <1>1 DEF Sound, WellFormed, Shown
<1> QED
  BY <1>2, <1>3, <1>4

LEMMA FieldWillBe ==
  ASSUME SlotsOK(slots)'
  PROVE  /\ Afoot' = PlacedIn(slots') \ (downed' \cup {Vacant})
         /\ Idle' = Mon \ (downed' \cup PlacedIn(slots'))
BY SpotsIn DEF Afoot, Holder, Spots, Idle, Reserve

LEMMA WorldWillBe ==
  ASSUME NEW v \in Worlds, Becomes(v), v.on = Afoot'
  PROVE  World' = v
BY DEF World, Worlds, Becomes

LEMMA DeedKeeps ==
  ASSUME FieldInv, moment = "acting", UNCHANGED <<slots, downed, moment, due>>,
         NEW v, Becomes(v), Sound(v, flags', Idle), Restful(World, v)
  PROVE  FieldInv'
<1>1. /\ SlotsOK(slots) /\ SlotsOK(slots)' /\ downed' \subseteq Mon /\ moment' = "acting"
      /\ slots' = slots /\ downed' = downed
  BY DEF FieldInv
<1>2. Afoot' = Afoot /\ Idle' = Idle
  BY <1>1, FieldIs, FieldWillBe
<1>3. v \in Worlds /\ v.on = Afoot' /\ Rested(v.made, ToSet(v.forces))
  BY <1>2, FieldIs DEF Restful, Sound, WellFormed
<1>4. World' = v
  BY <1>3, WorldWillBe
<1>5. Rested(objects', ToSet(forces'))
  BY <1>3 DEF Becomes
<1>6. Sound(World', flags', Idle')
  BY <1>2, <1>4
<1> QED
  BY <1>1, <1>5, <1>6 DEF FieldInv

LEMMA StillOnes ==
  ASSUME NEW w \in Worlds
  PROVE  w = [made |-> w.made, lists |-> w.lists, forces |-> w.forces, on |-> w.on]
BY DEF Worlds

LEMMA CalledKeeps ==
  ASSUME FieldInv, NEW x \in Afoot, NEW g \in Weather, NEW turns \in {-1, Duration},
         moment = "acting", UNCHANGED <<slots, downed, moment, due>>, Called(x, g, turns)
  PROVE  FieldInv'
<1> DEFINE w == Lifted(Weather, World)
           u == Impose(w, EFFECTS[g], Side[x], turns)
<1>1. /\ Sound(World, flags, Idle) /\ World \in Worlds /\ World.on = Afoot /\ Idle \cap Afoot = {}
      /\ ToSet(World.forces) \subseteq DOMAIN World.made /\ Rested(World.made, ToSet(World.forces))
      /\ Afoot \subseteq Mon /\ Weather \subseteq Flagged
  BY FieldIs, KindsAre DEF FieldInv
<1>2. Sound(w, flags \ Weather, Idle) /\ CalledOff(Weather \cap flags, World, w)
  BY <1>1, LiftedKeeps
<1>3. Restful(World, w)
  <2> HIDE DEF w
  <2> QED
    BY <1>1, <1>2, RestedOff
<1>4. MayBeCalled(w, flags \ Weather, Idle, g, Side[x], turns)
  <2>1. Side[x] \in {0, 1}
    BY <1>1, ModifiersAssumption
  <2> HIDE DEF w
  <2> QED
    BY <1>1, <1>3, <2>1 DEF Restful, MayBeCalled
<1> HIDE DEF w
<1>5. Sound(u, (flags \ Weather) \cup {g}, Idle)
  BY <1>2, <1>4, CalledUp
<1>6. Restful(w, u)
  BY <1>2, <1>4, CalledUp
<1>7. Becomes(u) /\ flags' = (flags \ Weather) \cup {g}
  BY DEF Called, w
<1> HIDE DEF u
<1>8. Restful(World, u)
  BY <1>3, <1>6 DEF Restful
<1> QED
  BY <1>5, <1>7, <1>8, DeedKeeps

LEMMA DeedIs ==
  ASSUME Deed
  PROVE  moment = "acting" /\ UNCHANGED <<slots, downed, moment, due>>
BY DEF Deed

LEMMA FlaggedKeeps ==
  ASSUME FieldInv, NEW x \in Afoot, NEW g \in Flagged, g \notin flags,
         moment = "acting", UNCHANGED <<slots, downed, moment, due>>,
         Becomes(Impose(World, EFFECTS[g], Side[x], Duration)), flags' = flags \cup {g}
  PROVE  FieldInv'
<1> DEFINE u == Impose(World, EFFECTS[g], Side[x], Duration)
<1>1. /\ Sound(World, flags, Idle) /\ World.on = Afoot /\ Idle \cap Afoot = {}
      /\ Rested(World.made, ToSet(World.forces)) /\ Afoot \subseteq Mon
  BY FieldIs DEF FieldInv
<1>2. Side[x] \in {0, 1}
  BY <1>1, ModifiersAssumption
<1>3. MayBeCalled(World, flags, Idle, g, Side[x], Duration)
  BY <1>1, <1>2 DEF MayBeCalled
<1>4. Sound(u, flags \cup {g}, Idle)
  BY <1>1, <1>3, CalledUp
<1>5. Restful(World, u)
  BY <1>1, <1>3, CalledUp
<1> HIDE DEF u
<1>6. Becomes(u)
  BY DEF u
<1> QED
  BY <1>4, <1>5, <1>6, DeedKeeps

LEMMA GravityKeeps ==
  ASSUME FieldInv, NEW x \in Afoot, UseGravity(x)
  PROVE  FieldInv'
<1>1. moment = "acting" /\ UNCHANGED <<slots, downed, moment, due>>
  BY DeedIs DEF UseGravity
<1>2. 4 \in Flagged
  BY KindsAre
<1> QED
  BY <1>1, <1>2, FlaggedKeeps DEF UseGravity

LEMMA TrickRoomKeeps ==
  ASSUME FieldInv, NEW x \in Afoot, UseTrickRoom(x)
  PROVE  FieldInv'
<1>1. moment = "acting" /\ UNCHANGED <<slots, downed, moment, due>>
  BY DeedIs DEF UseTrickRoom
<1>2. 5 \in Flagged
  BY KindsAre
<1>3. CASE 5 \notin flags
  BY <1>1, <1>2, <1>3, FlaggedKeeps DEF UseTrickRoom
<1>4. CASE 5 \in flags
  <2> DEFINE w == Lifted({5}, World)
  <2>1. /\ Sound(World, flags, Idle) /\ World \in Worlds
        /\ ToSet(World.forces) \subseteq DOMAIN World.made /\ Rested(World.made, ToSet(World.forces))
    BY <1>1, FieldIs DEF FieldInv
  <2>2. Sound(w, flags \ {5}, Idle) /\ CalledOff({5} \cap flags, World, w)
    BY <1>2, <2>1, LiftedKeeps
  <2>3. Becomes(w) /\ flags' = flags \ {5}
    BY <1>4 DEF UseTrickRoom
  <2> HIDE DEF w
  <2>4. Restful(World, w)
    BY <2>1, <2>2, RestedOff
  <2> QED
    BY <1>1, <2>2, <2>3, <2>4, DeedKeeps
<1> QED
  BY <1>3, <1>4

LEMMA ReflectKeeps ==
  ASSUME FieldInv, NEW x \in Afoot, UseReflect(x)
  PROVE  FieldInv'
<1> DEFINE s == Side[x]
           o == Made("Reflect", s, Duration)
           u == Impose(World, "Reflect", s, Duration)
<1>1. moment = "acting" /\ UNCHANGED <<slots, downed, moment, due>>
  BY DeedIs DEF UseReflect
<1>2. /\ Sound(World, flags, Idle) /\ World.on = Afoot /\ Idle \cap Afoot = {} /\ World \in Worlds
      /\ Rested(World.made, ToSet(World.forces)) /\ Afoot \subseteq Mon /\ flags \subseteq Flagged
      /\ ToSet(World.forces) \subseteq DOMAIN World.made
  BY <1>1, FieldIs DEF FieldInv
<1>3. s \in {0, 1} /\ Duration \in Int /\ Duration >= 0
  BY <1>2, ModifiersAssumption
<1>4. ASSUME NEW i \in Live(World), Alike(World.made[i], o) PROVE FALSE
  <2>1. World.made[i].kind = "Reflect" /\ World.made[i].side = s
    BY <1>4 DEF Alike, Made
  <2>2. i \in LiveOf(World, x)
    BY <1>2, <2>1 DEF Sound, Listed, Concerns
  <2>3. i \in InForce(lists[x], objects) /\ objects[i].kind = "Reflect"
    BY <2>1, <2>2, FieldIs DEF LiveOf
  <2> QED
    BY <2>3 DEF UseReflect
<1>5. Wanted(World, Idle, "Reflect", s, Duration)
  <2>1. Concerns(o, x)
    BY DEF Concerns, Made
  <2> QED
    BY <1>2, <1>3, <1>4, <2>1 DEF Wanted
<1>6. Sound(u, flags \cup FlagsOf("Reflect"), Idle)
  BY <1>2, <1>5, ImposeKeeps
<1>7. Grown(World, u, o)
  BY <1>2, <1>5, ImposeKeeps
<1>8. FlagsOf("Reflect") = {}
  BY KindsAre DEF FlagsOf
<1>9. Becomes(u) /\ flags' = flags
  BY DEF UseReflect
<1> HIDE DEF u
<1>10. Restful(World, u)
  <2>1. World.made \in Seq(Object) /\ World.forces \in Seq(Nat) /\ Len(World.made) + 1 \in Nat
    BY <1>2, WorldIs
  <2>2. ToSet(u.forces) = ToSet(World.forces) \cup {Len(World.made) + 1}
    BY <1>7, <2>1, SetOfAppend DEF Grown
  <2>3. Rested(Append(World.made, o), ToSet(World.forces) \cup {Len(World.made) + 1})
    <3>1. "Reflect" \in FieldKinds \cup {"Reflect"} /\ Duration \in {-1, Duration}
          /\ ("Reflect" = "Reflect" => Duration >= 0)
      BY <1>3
    <3> QED
      BY <1>2, <1>3, <2>1, <3>1, RestedOn
  <2> QED
    BY <1>7, <2>2, <2>3 DEF Restful, Grown
<1> QED
  BY <1>1, <1>6, <1>8, <1>9, <1>10, DeedKeeps

LEMMA UseWeatherKeeps ==
  ASSUME FieldInv, NEW x \in Afoot, NEW g \in Weather, UseWeather(x, g)
  PROVE  FieldInv'
<1>1. moment = "acting" /\ UNCHANGED <<slots, downed, moment, due>>
  BY DeedIs DEF UseWeather
<1>2. Called(x, g, Duration) /\ Duration \in {-1, Duration}
  BY DEF UseWeather
<1> QED
  BY <1>1, <1>2, CalledKeeps

(* The weather of an ability stays.                                        *)
LEMMA StaysKeeps ==
  ASSUME FieldInv, NEW x \in Afoot, NEW g \in Weather,
         moment = "acting", UNCHANGED <<slots, downed, moment, due>>,
         objects' = [i \in DOMAIN objects |->
             IF i \in InForce(lists[x], objects) /\ objects[i].kind = EFFECTS[g]
             THEN [objects[i] EXCEPT !.turns = -1] ELSE objects[i]],
         UNCHANGED <<forces, lists, flags>>
  PROVE  FieldInv'
<1> DEFINE made == objects'
           v == [World EXCEPT !.made = made]
<1>1. /\ Sound(World, flags, Idle) /\ World \in Worlds /\ Rested(objects, ToSet(forces))
      /\ World.made = objects /\ World.forces = forces /\ World.lists = lists /\ World.on = Afoot
      /\ g \in Flagged /\ flags \subseteq Flagged /\ Shown(World, flags)
      /\ ToSet(forces) \subseteq DOMAIN objects
  BY FieldIs, KindsAre DEF FieldInv, Sound
<1>2. /\ DOMAIN objects = 1 .. Len(objects) /\ Len(objects) \in Nat
      /\ \A i \in DOMAIN objects : objects[i] \in Object
  BY <1>1, WorldIs
<1>3. DOMAIN made = DOMAIN objects
  OBVIOUS
<1>4. ASSUME NEW i \in DOMAIN objects
      PROVE  /\ made[i].kind = objects[i].kind /\ made[i].side = objects[i].side
             /\ made[i].gone = objects[i].gone /\ made[i] \in Object
             /\ \/ made[i].turns = objects[i].turns /\ made[i].age = objects[i].age
                \/ made[i].turns = -1
  <2> DEFINE o == objects[i]
             p == [o EXCEPT !.turns = -1]
  <2>1. o \in Object
    BY <1>2
  <2>2. /\ p.kind = o.kind /\ p.side = o.side /\ p.gone = o.gone /\ p.turns = -1
        /\ o.kind # "Reflect" => p \in Object
    BY <2>1 DEF Object
  <2>3. EFFECTS[g] # "Reflect"
    BY <1>1, KindsAre
  <2>4. made[i] = o \/ (made[i] = p /\ o.kind # "Reflect")
    BY <2>3
  <2> HIDE DEF made, o, p
  <2>5. /\ made[i].kind = o.kind /\ made[i].side = o.side
        /\ made[i].gone = o.gone /\ made[i] \in Object
        /\ (made[i].turns = o.turns /\ made[i].age = o.age) \/ made[i].turns = -1
    BY <2>1, <2>2, <2>4
  <2> QED
    BY <2>5 DEF o
<1>5. made \in Seq(Object)
  <2> DEFINE n == Len(objects)
  <2>1. n \in Nat /\ DOMAIN objects = 1 .. n
    BY <1>2
  <2>2. made = [i \in 1 .. n |-> made[i]]
    BY <2>1
  <2> HIDE DEF made, n
  <2>3. made \in [1 .. n -> Object]
    BY <1>4, <2>1, <2>2
  <2> QED
    BY <2>1, <2>3, SeqDef
<1> HIDE DEF made
<1>6. ASSUME NEW i \in InForce(forces, objects), objects[i].kind # "Reflect"
      PROVE  made[i].gone <=> ~\E h \in flags : objects[i].kind = EFFECTS[h]
  BY <1>1, <1>4, <1>6 DEF Shown, Live, InForce
<1>7. Sound(v, flags, Idle)
  <2> HIDE DEF v
  <2>1. v = [World EXCEPT !.made = made]
    BY DEF v
  <2> QED
    BY <1>1, <1>3, <1>4, <1>5, <1>6, <2>1, MadeAnew
<1>8. v.made = made /\ v.forces = forces /\ v.lists = lists /\ v.on = Afoot
  BY <1>1 DEF Worlds
<1> HIDE DEF v
<1>9. Becomes(v)
  BY <1>8 DEF Becomes, made
<1>10. Rested(made, ToSet(forces))
  BY <1>1, <1>3, <1>4 DEF Rested, Lasting
<1>11. Restful(World, v)
  BY <1>1, <1>8, <1>10 DEF Restful
<1> QED
  BY <1>7, <1>9, <1>11, DeedKeeps

LEMMA ActivateKeeps ==
  ASSUME FieldInv, NEW x \in Afoot, NEW g \in Weather, ActivateWeather(x, g)
  PROVE  FieldInv'
<1>1. moment = "acting" /\ UNCHANGED <<slots, downed, moment, due>>
  BY DeedIs DEF ActivateWeather
<1>2. CASE ~Refused(g)
  <2>1. Called(x, g, -1)
    BY <1>2 DEF ActivateWeather
  <2> DEFINE turns == -1
  <2>2. Called(x, g, turns) /\ turns \in {-1, Duration}
    BY <2>1
  <2> HIDE DEF turns
  <2> QED
    BY <1>1, <2>2, CalledKeeps
<1>3. CASE Refused(g)
  <2>1. /\ objects' = [i \in DOMAIN objects |->
             IF i \in InForce(lists[x], objects) /\ objects[i].kind = EFFECTS[g]
             THEN [objects[i] EXCEPT !.turns = -1] ELSE objects[i]]
        /\ UNCHANGED <<forces, lists, flags>>
    BY <1>3 DEF ActivateWeather
  <2> QED
    BY <1>1, <2>1, StaysKeeps
<1> QED
  BY <1>2, <1>3

(* Who comes, goes and faints.                                             *)
LEMMA DownKeeps ==
  ASSUME FieldInv, NEW x \in Afoot, GoDown(x)
  PROVE  FieldInv'
<1> DEFINE v == [World EXCEPT !.on = Afoot']
<1>1. /\ moment = "acting" /\ moment' = moment /\ slots' = slots /\ downed' = downed \cup {x}
      /\ objects' = objects /\ forces' = forces /\ lists' = lists /\ flags' = flags
  BY DEF GoDown
<1>2. /\ Sound(World, flags, Idle) /\ World \in Worlds /\ World.on = Afoot /\ Afoot \subseteq Mon
      /\ World.made = objects /\ World.forces = forces /\ World.lists = lists
      /\ SlotsOK(slots) /\ downed \subseteq Mon /\ Rested(objects, ToSet(forces))
  BY <1>1, FieldIs DEF FieldInv
<1>3. SlotsOK(slots)' /\ downed' \subseteq Mon
  BY <1>1, <1>2
<1>4. Afoot' \in SUBSET World.on /\ Idle' \in SUBSET Idle
  BY <1>1, <1>2, <1>3, FieldIs, FieldWillBe
<1>5. Sound(v, flags, Idle')
  BY <1>2, <1>4, Fewer
<1>6. v \in Worlds /\ v.made = objects /\ v.forces = forces /\ v.lists = lists /\ v.on = Afoot'
  BY <1>2, <1>4 DEF Worlds
<1> HIDE DEF v
<1>7. World' = v
  BY <1>1, <1>6, WorldWillBe DEF Becomes
<1>8. Sound(World', flags', Idle')
  BY <1>1, <1>5, <1>7
<1> QED
  BY <1>1, <1>2, <1>3, <1>8 DEF FieldInv

LEMMA PlaceIs ==
  ASSUME FieldInv, NEW place \in Spots
  PROVE  /\ place[1] \in {0, 1} /\ place[2] \in DOMAIN slots[place[1]]
         /\ Holder(place) \in PlacedIn(slots)
         /\ Holder(place) # Vacant => Side[Holder(place)] = place[1]
<1>1. place[1] \in {0, 1} /\ place[2] \in DOMAIN slots[place[1]]
  BY DEF Spots
<1>2. SlotsOK(slots) /\ Holder(place) \in ToSet(slots[place[1]])
  BY <1>1 DEF FieldInv, Holder, ToSet
<1> QED
  BY <1>1, <1>2 DEF PlacedIn, Holder, SlotsOK

LEMMA ReplaceIs ==
  ASSUME FieldInv, NEW place \in Spots, NEW y \in Reserve(place[1]), Holder(place) # Vacant,
         slots' = [slots EXCEPT ![place[1]][place[2]] = y]
  PROVE  /\ SlotsOK(slots)' /\ y \in Idle /\ y \notin PlacedIn(slots) /\ y # Vacant /\ y \in Mon \ downed
         /\ PlacedIn(slots') = (PlacedIn(slots) \ {Holder(place)}) \cup {y}
<1>1. /\ place[1] \in {0, 1} /\ place[2] \in DOMAIN slots[place[1]]
      /\ slots[place[1]][place[2]] = Holder(place)
  BY PlaceIs DEF Holder
<1>2. y \in Mon \ downed /\ Side[y] = place[1] /\ y \in Idle /\ y # Vacant
  BY <1>1, ModifiersAssumption DEF Reserve, Idle
<1>3. y \notin PlacedIn(slots)
  BY <1>2, FieldIs
<1>4. SlotsOK(slots)
  BY DEF FieldInv
<1>5. /\ SlotsOK([slots EXCEPT ![place[1]][place[2]] = y])
      /\ PlacedIn([slots EXCEPT ![place[1]][place[2]] = y])
            = (PlacedIn(slots) \ {slots[place[1]][place[2]]}) \cup {y}
  <2> DEFINE s == place[1]
             k == place[2]
  <2>1. s \in {0, 1} /\ k \in DOMAIN slots[s] /\ slots[s][k] # Vacant /\ y \in Mon /\ Side[y] = s
    BY <1>1, <1>2
  <2> HIDE DEF s, k
  <2>2. /\ SlotsOK(PutIn(slots, s, k, y))
        /\ PlacedIn(PutIn(slots, s, k, y)) = (PlacedIn(slots) \ {slots[s][k]}) \cup {y}
    BY <1>3, <1>4, <2>1, PutInIs
  <2> QED
    BY <2>2 DEF s, k, PutIn
<1> QED
  BY <1>1, <1>2, <1>3, <1>5

LEMMA EnteredSame ==
  ASSUME NEW w \in Worlds, NEW u \in Worlds, NEW y \in Mon,
         u.made = w.made, u.lists = w.lists, u.forces = w.forces
  PROVE  /\ Becomes(Entered(y, w)) <=> Becomes(Joined(y, u))
<1> DEFINE more == Kept(w.forces, {i \in InForce(w.forces, w.made) : Takes(y, i, w)})
           lost == [w.lists EXCEPT ![y] = @ \o more]
<1>1. \A i : Takes(y, i, u) <=> Takes(y, i, w)
  BY DEF Takes
<1>2. Kept(u.forces, {i \in InForce(u.forces, u.made) : Takes(y, i, u)}) = more
  BY <1>1
<1> HIDE DEF more
<1>3. Entered(y, w) = [w EXCEPT !.lists[y] = @ \o more] /\ Entered(y, u) = [u EXCEPT !.lists[y] = @ \o more]
  BY <1>2 DEF Entered, more
<1>4. /\ Entered(y, w).made = w.made /\ Entered(y, w).forces = w.forces
      /\ Entered(y, w).lists = lost
  BY <1>3 DEF Worlds
<1>5. Entered(y, u).lists = lost
  BY <1>3 DEF Worlds
<1>6. Joined(y, u).made = w.made /\ Joined(y, u).forces = w.forces /\ Joined(y, u).lists = lost
  BY <1>5 DEF Joined
<1> QED
  BY <1>4, <1>6 DEF Becomes

LEMMA DepartedIs ==
  ASSUME NEW w \in Worlds, NEW x \in Mon, Left(x, w) \in Worlds
  PROVE  /\ Departed(x, w) \in Worlds
         /\ Left(x, w).made = Departed(x, w).made /\ Left(x, w).lists = Departed(x, w).lists
         /\ Left(x, w).forces = Departed(x, w).forces /\ Left(x, w).on = w.on \ {x}
         /\ Left(x, w).made = w.made /\ Left(x, w).forces = w.forces
<1> DEFINE rest == Kept(w.lists[x], {i \in DOMAIN w.made : w.made[i].gone})
           after == [w.lists EXCEPT ![x] = rest]
           d == [w EXCEPT !.lists = after]
<1>1. Departed(x, w) = d
  BY DEF Departed, Worlds
<1>2. d.made = w.made /\ d.forces = w.forces /\ d.lists = after
  BY DEF Worlds
<1> HIDE DEF after
<1>3. Left(x, w) = [made |-> w.made, lists |-> after, forces |-> w.forces, on |-> w.on \ {x}]
  BY <1>1, <1>2 DEF Left
<1>4. after \in [Mon -> Seq(Nat)]
  BY <1>3 DEF Worlds
<1>5. d \in Worlds
  BY <1>4 DEF Worlds
<1> HIDE DEF d
<1> QED
  BY <1>1, <1>2, <1>3, <1>5

LEMMA SwitchKeeps ==
  ASSUME FieldInv, NEW place \in Spots, NEW y \in Mon, Switch(place, y)
  PROVE  FieldInv'
<1> DEFINE x == Holder(place)
           d == Departed(x, World)
           u == Left(x, World)
           v == Joined(y, u)
<1>1. /\ moment = "acting" /\ x \in Afoot /\ y \in Reserve(place[1])
      /\ slots' = [slots EXCEPT ![place[1]][place[2]] = y]
      /\ Becomes(Entered(y, d))
      /\ UNCHANGED <<flags, downed, moment, due, deeds>>
  BY DEF Switch
<1>2. /\ Sound(World, flags, Idle) /\ World \in Worlds /\ World.on = Afoot /\ Afoot \subseteq Mon
      /\ World.made = objects /\ World.forces = forces /\ downed \subseteq Mon
      /\ Rested(objects, ToSet(forces))
      /\ Afoot = PlacedIn(slots) \ (downed \cup {Vacant}) /\ Idle = Mon \ (downed \cup PlacedIn(slots))
  BY <1>1, FieldIs DEF FieldInv
<1>3. /\ SlotsOK(slots)' /\ y \in Idle /\ y \notin PlacedIn(slots) /\ y # Vacant /\ y \in Mon \ downed
      /\ PlacedIn(slots') = (PlacedIn(slots) \ {x}) \cup {y}
  BY <1>1, <1>2, ReplaceIs
<1> HIDE DEF x, u, v, d
<1>4. Afoot' = (Afoot \ {x}) \cup {y} /\ Idle' = (Idle \cup {x}) \ {y}
  <2>1. Afoot' = PlacedIn(slots') \ (downed' \cup {Vacant}) /\ Idle' = Mon \ (downed' \cup PlacedIn(slots'))
    BY <1>3, FieldWillBe
  <2>2. downed' = downed /\ x \in Mon /\ x \in PlacedIn(slots) \ (downed \cup {Vacant})
    BY <1>1, <1>2
  <2>3. Afoot' = (Afoot \ {x}) \cup {y}
    BY <1>2, <1>3, <2>1, <2>2
  <2>4. Idle' = (Idle \cup {x}) \ {y}
    BY <1>2, <1>3, <2>1, <2>2
  <2> QED
    BY <2>3, <2>4
<1>5. Sound(u, flags, Idle \cup {x}) /\ u \in Worlds
  BY <1>1, <1>2, DepartedKeeps DEF u, Sound, WellFormed
<1>6. /\ d \in Worlds /\ u.made = d.made /\ u.lists = d.lists /\ u.forces = d.forces
      /\ u.on = Afoot \ {x} /\ u.made = objects /\ u.forces = forces
  BY <1>1, <1>2, <1>5, DepartedIs DEF u, d
<1>7. Sound(v, flags, (Idle \cup {x}) \ {y}) /\ v \in Worlds
  <2>1. y \in Idle \cup {x} /\ y \notin u.on
    BY <1>2, <1>3, <1>6
  <2> QED
    BY <1>5, <2>1, EnteredKeeps DEF v, Sound, WellFormed
<1>8. v.on = Afoot' /\ v.made = objects /\ v.forces = forces
  BY <1>4, <1>6 DEF v, Joined
<1>9. Becomes(v)
  BY <1>1, <1>5, <1>6, EnteredSame DEF v
<1>10. World' = v /\ objects' = objects /\ forces' = forces
  BY <1>7, <1>8, <1>9, WorldWillBe DEF Becomes
<1>11. Sound(World', flags', Idle')
  BY <1>1, <1>4, <1>7, <1>10
<1> QED
  BY <1>1, <1>2, <1>3, <1>10, <1>11 DEF FieldInv

LEMMA SendInKeeps ==
  ASSUME FieldInv, NEW place \in Spots, NEW y \in Mon, SendIn(place, y)
  PROVE  FieldInv'
<1> DEFINE x == Holder(place)
           v == Joined(y, World)
<1>1. /\ moment = "replacing" /\ x \in downed /\ y \in Reserve(place[1])
      /\ slots' = [slots EXCEPT ![place[1]][place[2]] = y]
      /\ Becomes(Entered(y, World))
      /\ UNCHANGED <<flags, downed, moment, due, deeds>>
  BY DEF SendIn
<1>2. /\ Sound(World, flags, Idle) /\ World \in Worlds /\ World.on = Afoot /\ Afoot \subseteq Mon
      /\ World.made = objects /\ World.forces = forces /\ downed \subseteq Mon
      /\ Rested(objects, ToSet(forces))
      /\ Afoot = PlacedIn(slots) \ (downed \cup {Vacant}) /\ Idle = Mon \ (downed \cup PlacedIn(slots))
  BY <1>1, FieldIs DEF FieldInv
<1>3. x # Vacant
  BY <1>1, <1>2, ModifiersAssumption
<1>4. /\ SlotsOK(slots)' /\ y \in Idle /\ y \notin PlacedIn(slots) /\ y # Vacant /\ y \in Mon \ downed
      /\ PlacedIn(slots') = (PlacedIn(slots) \ {x}) \cup {y}
  BY <1>1, <1>3, ReplaceIs
<1> HIDE DEF x, v
<1>5. Afoot' = Afoot \cup {y} /\ Idle' = Idle \ {y}
  <2>1. Afoot' = PlacedIn(slots') \ (downed' \cup {Vacant}) /\ Idle' = Mon \ (downed' \cup PlacedIn(slots'))
    BY <1>4, FieldWillBe
  <2>2. downed' = downed /\ x \in downed
    BY <1>1
  <2>3. Afoot' = Afoot \cup {y}
    BY <1>2, <1>4, <2>1, <2>2
  <2>4. Idle' = Idle \ {y}
    BY <1>2, <1>4, <2>1, <2>2
  <2> QED
    BY <2>3, <2>4
<1>6. Sound(v, flags, Idle \ {y}) /\ v \in Worlds
  <2>1. y \in Idle /\ y \notin World.on
    BY <1>2, <1>4
  <2> QED
    BY <1>2, <2>1, EnteredKeeps DEF v, Sound, WellFormed
<1>7. v.on = Afoot' /\ v.made = objects /\ v.forces = forces
  BY <1>2, <1>5 DEF v, Joined
<1>8. Becomes(v)
  BY <1>1, <1>2, EnteredSame DEF v
<1>9. World' = v /\ objects' = objects /\ forces' = forces
  BY <1>6, <1>7, <1>8, WorldWillBe DEF Becomes
<1>10. Sound(World', flags', Idle')
  BY <1>1, <1>5, <1>6, <1>9
<1> QED
  BY <1>1, <1>2, <1>4, <1>9, <1>10 DEF FieldInv

LEMMA PursueKeeps ==
  ASSUME FieldInv, NEW place \in Spots, NEW y \in Mon, Pursue(place, y)
  PROVE  FieldInv'
<1> DEFINE x == Holder(place)
           first == IF flags = {} THEN 1 ELSE CHOOSE g \in flags : \A h \in flags : g <= h
           w == [World EXCEPT !.on = @ \ {x}]
           r == AcidRain(first, w)
           v == Joined(y, r)
<1>1. /\ moment = "acting" /\ place[1] = 1 /\ x \in Afoot /\ y \in Reserve(1)
      /\ \E z \in Afoot : Side[z] = 0
      /\ downed' = downed \cup {x}
      /\ slots' = [slots EXCEPT ![1][place[2]] = y]
      /\ Becomes(Entered(y, r))
      /\ flags' = flags \cup 1 .. first - 1
      /\ UNCHANGED <<moment, due, deeds>>
  BY DEF Pursue
<1>2. /\ Sound(World, flags, Idle) /\ World \in Worlds /\ World.on = Afoot /\ Afoot \subseteq Mon
      /\ World.made = objects /\ World.forces = forces /\ downed \subseteq Mon
      /\ Rested(objects, ToSet(forces)) /\ Idle \cap Afoot = {} /\ flags \subseteq Flagged
      /\ Afoot = PlacedIn(slots) \ (downed \cup {Vacant}) /\ Idle = Mon \ (downed \cup PlacedIn(slots))
  BY <1>1, FieldIs DEF FieldInv
<1>3. first \in Flagged /\ \A g \in 1 .. first - 1 : g \notin flags
  <2>1. Flagged = 1 .. 5
    BY KindsAre
  <2>2. CASE flags = {}
    BY <2>1, <2>2
  <2>3. CASE flags # {}
    <3>1. flags \subseteq Nat
      BY <1>2, <2>1
    <3>2. \E g \in flags : \A h \in flags : g <= h
      BY <2>3, <3>1, Least
    <3>3. first \in flags /\ \A h \in flags : first <= h
      BY <2>3, <3>2
    <3> HIDE DEF first
    <3>4. first \in 1 .. 5 /\ \A g \in 1 .. first - 1 : g \notin flags
      BY <1>2, <2>1, <3>1, <3>3
    <3> QED
      BY <2>1, <3>4
  <2> QED
    BY <2>2, <2>3
<1>4. /\ SlotsOK(slots)' /\ y \in Idle /\ y \notin PlacedIn(slots) /\ y # Vacant /\ y \in Mon \ downed
      /\ PlacedIn(slots') = (PlacedIn(slots) \ {x}) \cup {y}
  <2>1. /\ slots' = [slots EXCEPT ![place[1]][place[2]] = y] /\ y \in Reserve(place[1])
    BY <1>1
  <2> QED
    BY <1>1, <1>2, <2>1, ReplaceIs
<1>5. x # Vacant /\ Side[x] = 1
  BY <1>1, <1>2, PlaceIs
<1> HIDE DEF x, first
<1>6. Afoot' = (Afoot \ {x}) \cup {y} /\ Idle' = Idle \ {y}
  <2>1. Afoot' = PlacedIn(slots') \ (downed' \cup {Vacant}) /\ Idle' = Mon \ (downed' \cup PlacedIn(slots'))
    BY <1>4, FieldWillBe
  <2>2. downed' = downed \cup {x} /\ x \in PlacedIn(slots) \ (downed \cup {Vacant})
    BY <1>1, <1>2
  <2>3. Afoot' = (Afoot \ {x}) \cup {y}
    BY <1>2, <1>4, <2>1, <2>2
  <2>4. Idle' = Idle \ {y}
    BY <1>2, <1>4, <2>1, <2>2
  <2> QED
    BY <2>3, <2>4
<1>7. Sound(w, flags, Idle)
  BY <1>2, Fewer
<1>8. w.on = Afoot \ {x} /\ w.made = objects /\ w.forces = forces
  BY <1>2 DEF Worlds
<1>9. w.on # {} /\ Idle \cap w.on = {}
  BY <1>1, <1>2, <1>5, <1>8
<1> HIDE DEF w
<1>10. Sound(r, flags \cup 1 .. first - 1, Idle)
  BY <1>2, <1>3, <1>7, <1>8, <1>9, AcidRainKeeps
<1>11. Restful(w, r)
  BY <1>2, <1>3, <1>7, <1>8, <1>9, AcidRainKeeps
<1> HIDE DEF r, v
<1>12. r \in Worlds /\ r.on = Afoot \ {x} /\ Rested(r.made, ToSet(r.forces))
  BY <1>8, <1>10, <1>11 DEF Sound, WellFormed, Restful
<1>13. Sound(v, flags', Idle \ {y}) /\ v \in Worlds
  <2>1. y \in Idle /\ y \notin r.on
    BY <1>2, <1>4, <1>12
  <2> QED
    BY <1>1, <1>10, <2>1, EnteredKeeps DEF v, Sound, WellFormed
<1>14. v.on = Afoot' /\ v.made = r.made /\ v.forces = r.forces
  BY <1>6, <1>12 DEF v, Joined
<1>15. Becomes(v)
  BY <1>1, <1>12, EnteredSame DEF v
<1>16. World' = v /\ objects' = r.made /\ forces' = r.forces
  BY <1>13, <1>14, <1>15, WorldWillBe DEF Becomes
<1>17. Sound(World', flags', Idle')
  BY <1>6, <1>13, <1>16
<1>18. downed' \subseteq Mon /\ moment' = "acting" /\ Rested(objects', ToSet(forces'))
  BY <1>1, <1>2, <1>12, <1>16
<1> QED
  BY <1>4, <1>17, <1>18 DEF FieldInv

(* Objects that count: what the lemma on them needs of each.               *)
LEMMA CountedOn ==
  ASSUME FieldInv, NEW made, made = objects', UNCHANGED <<forces, lists>>,
         DOMAIN made = DOMAIN objects,
         \A i \in DOMAIN objects :
            /\ made[i] \in Object
            /\ made[i].kind = objects[i].kind /\ made[i].side = objects[i].side
            /\ objects[i].gone => made[i].gone,
         NEW rest \in SUBSET flags,
         \A i \in InForce(forces, objects) : objects[i].kind # "Reflect" =>
            (made[i].gone <=> ~\E g \in rest : objects[i].kind = EFFECTS[g]),
         Afoot' \in SUBSET Afoot, Idle' \in SUBSET Idle, made = [i \in DOMAIN objects |-> made[i]]
  PROVE  Sound(World', rest, Idle')
<1> DEFINE w == [World EXCEPT !.made = made]
           v == [w EXCEPT !.on = Afoot']
<1>1. /\ Sound(World, flags, Idle) /\ World \in Worlds /\ World.on = Afoot
      /\ World.made = objects /\ World.forces = forces /\ World.lists = lists /\ Afoot \subseteq Mon
  BY FieldIs DEF FieldInv, Worlds
<1>2. DOMAIN objects = 1 .. Len(objects) /\ Len(objects) \in Nat
  BY <1>1, WorldIs
<1>3. made \in Seq(Object)
  <2> DEFINE n == Len(objects)
  <2>1. n \in Nat /\ made = [i \in 1 .. n |-> made[i]] /\ \A i \in 1 .. n : made[i] \in Object
    BY <1>2
  <2> HIDE DEF n
  <2>2. made \in [1 .. n -> Object]
    BY <2>1
  <2> QED
    BY <2>1, <2>2, SeqDef
<1>4. Sound(w, rest, Idle)
  <2>1. DOMAIN made = DOMAIN World.made
    BY <1>1
  <2>2. \A i \in DOMAIN made : /\ made[i].kind = World.made[i].kind /\ made[i].side = World.made[i].side
                               /\ World.made[i].gone => made[i].gone
    BY <1>1
  <2>3. \A i \in InForce(World.forces, World.made) : World.made[i].kind # "Reflect" =>
            (made[i].gone <=> ~\E g \in rest : World.made[i].kind = EFFECTS[g])
    BY <1>1
  <2> QED
    BY <1>1, <1>3, <2>1, <2>2, <2>3, MadeAnew
<1>5. w \in Worlds /\ w.made = made /\ w.forces = forces /\ w.lists = lists /\ w.on = Afoot
  BY <1>1, <1>3 DEF Worlds
<1> HIDE DEF w
<1>6. Sound(v, rest, Idle')
  BY <1>4, <1>5, Fewer
<1>7. v \in Worlds /\ v.made = made /\ v.forces = forces /\ v.lists = lists /\ v.on = Afoot'
  BY <1>1, <1>5 DEF Worlds
<1> HIDE DEF v
<1>8. World' = v
  BY <1>7, WorldWillBe DEF Becomes
<1> QED
  BY <1>6, <1>8

LEMMA BeginKeeps ==
  ASSUME FieldInv, BeginTicks
  PROVE  FieldInv'
<1> DEFINE Of(i) == IF i \notin InForce(forces, objects) THEN objects[i]
                    ELSE IF objects[i].kind = "Reflect"
                         THEN [objects[i] EXCEPT !.turns = @ - 1, !.gone = objects[i].turns = 1]
                         ELSE [objects[i] EXCEPT !.ticked = FALSE]
           made == [i \in DOMAIN objects |-> Of(i)]
<1>1. /\ moment = "acting" /\ moment' = "ticking" /\ objects' = made
      /\ due' = UNION {{<<x, i>> : i \in {j \in InForce(lists[x], made) : IsWeather(j)}} : x \in Afoot}
      /\ forces' = forces /\ lists' = lists /\ flags' = flags /\ slots' = slots /\ downed' = downed
  BY DEF BeginTicks
<1>2. /\ Sound(World, flags, Idle) /\ World \in Worlds /\ World.on = Afoot /\ Afoot \subseteq Mon
      /\ World.made = objects /\ World.forces = forces /\ World.lists = lists /\ Shown(World, flags)
      /\ ToSet(forces) \subseteq DOMAIN objects /\ SlotsOK(slots) /\ downed \subseteq Mon
      /\ Rested(objects, ToSet(forces))
  BY <1>1, FieldIs DEF FieldInv, Sound, Worlds
<1>3. \A i \in DOMAIN objects : objects[i] \in Object
  BY <1>2, WorldIs
<1>4. Duration \in Nat \ {0}
  BY ModifiersAssumption
<1>5. ASSUME NEW i \in DOMAIN objects
      PROVE  /\ Of(i) \in Object /\ Of(i).kind = objects[i].kind /\ Of(i).side = objects[i].side
             /\ objects[i].gone => Of(i).gone
             /\ i \notin InForce(forces, objects) => Of(i) = objects[i]
             /\ i \in InForce(forces, objects) /\ objects[i].kind # "Reflect" => ~Of(i).gone
             /\ i \in InForce(forces, objects) => Counting(Of(i))
             /\ ~Of(i).gone => ~objects[i].gone
  <2> DEFINE o == objects[i]
             p == [o EXCEPT !.turns = @ - 1, !.gone = o.turns = 1]
             q == [o EXCEPT !.ticked = FALSE]
  <2>1. o \in Object
    BY <1>3
  <2>2. CASE i \notin InForce(forces, objects)
    BY <2>1, <2>2
  <2>3. CASE i \in InForce(forces, objects) /\ o.kind = "Reflect"
    <3>1. Of(i) = p
      BY <2>3
    <3>2. ~o.gone /\ o.turns > 0 /\ o.turns + o.age = Duration /\ o.turns \in Nat /\ o.age \in Nat
      <4>1. i \in ToSet(forces) /\ ~o.gone /\ o.turns >= 0 /\ o.turns \in Int
        BY <2>1, <2>3, ObjectIs DEF InForce
      <4>2. (o.turns = -1 \/ o.turns > 0) /\ Lasting(o)
        BY <1>2, <4>1 DEF Rested
      <4> QED
        BY <2>1, <4>1, <4>2, ObjectIs DEF Lasting
    <3>3. /\ p.turns = o.turns - 1 /\ p.gone = (o.turns = 1) /\ p.kind = o.kind /\ p.side = o.side
          /\ p.age = o.age /\ p.ticked = o.ticked
      BY <2>1 DEF Object
    <3>4. p \in Object
      <4>1. p \in [kind : FieldKinds \cup {"Reflect"}, turns : Int, side : {0, 1},
            gone : BOOLEAN, ticked : BOOLEAN, age : Nat]
        <5> DEFINE t == o.turns - 1
                   b == o.turns = 1
        <5>1. t \in Int /\ b \in BOOLEAN
          BY <3>2
        <5>2. p = [o EXCEPT !.turns = t, !.gone = b]
          OBVIOUS
        <5>3. o \in [kind : FieldKinds \cup {"Reflect"}, turns : Int, side : {0, 1},
            gone : BOOLEAN, ticked : BOOLEAN, age : Nat]
          BY <2>1 DEF Object
        <5> HIDE DEF t, b, o, p
        <5> QED
          BY <5>1, <5>2, <5>3
      <4>2. p.kind = "Reflect" /\ p.turns >= 0
        BY <2>3, <3>2, <3>3
      <4> HIDE DEF p
      <4> QED
        BY <4>1, <4>2 DEF Object
    <3> HIDE DEF p
    <3>5. Counting(p)
      <4>1. CASE o.turns = 1
        <5>1. p.gone
          BY <3>3, <4>1, Zenon
        <5>2. p.turns = o.turns - 1 /\ p.age = o.age
          BY <3>3
        <5>3. p.turns = 0 /\ p.age + 1 = Duration
          BY <1>4, <3>2, <4>1, <5>2
        <5> QED
          BY <5>1, <5>3 DEF Counting
      <4>2. CASE o.turns # 1
        <5>1. ~p.gone /\ p.kind = "Reflect"
          BY <2>3, <3>3, <4>2, Zenon
        <5>2. p.turns > 0 /\ p.turns + p.age = Duration - 1
          <6>1. p.turns = o.turns - 1 /\ p.age = o.age
            BY <3>3
          <6> QED
            BY <1>4, <3>2, <4>2, <6>1
        <5> QED
          BY <5>1, <5>2 DEF Counting
      <4> QED
        BY <4>1, <4>2
    <3> HIDE DEF Of
    <3> QED
      BY <2>3, <3>1, <3>2, <3>3, <3>4, <3>5
  <2>4. CASE i \in InForce(forces, objects) /\ o.kind # "Reflect"
    <3>1. Of(i) = q
      BY <2>4
    <3>2. i \in ToSet(forces) /\ ~o.gone
      BY <2>4 DEF InForce
    <3>3. (o.turns = -1 \/ o.turns > 0) /\ Lasting(o)
      BY <1>2, <3>2 DEF Rested
    <3>4. /\ q \in Object /\ q.turns = o.turns /\ q.gone = o.gone /\ q.kind = o.kind /\ q.side = o.side
          /\ q.age = o.age /\ q.ticked = FALSE
      BY <2>1 DEF Object
    <3> HIDE DEF q
    <3>5. Counting(q)
      BY <2>4, <3>2, <3>3, <3>4 DEF Counting, Lasting
    <3> HIDE DEF Of
    <3> QED
      BY <2>4, <3>1, <3>2, <3>4, <3>5
  <2> QED
    BY <2>2, <2>3, <2>4
<1> HIDE DEF Of
<1>6. DOMAIN made = DOMAIN objects /\ \A i \in DOMAIN objects : made[i] = Of(i)
  OBVIOUS
<1>7. made = [i \in DOMAIN objects |-> made[i]]
  OBVIOUS
<1> HIDE DEF made
<1>8. ASSUME NEW i \in InForce(forces, objects), objects[i].kind # "Reflect"
      PROVE  made[i].gone <=> ~\E g \in flags : objects[i].kind = EFFECTS[g]
  <2>1. i \in DOMAIN objects /\ i \in Live(World)
    BY <1>2 DEF InForce, Live
  <2>2. \E g \in flags : objects[i].kind = EFFECTS[g]
    BY <1>2, <1>8, <2>1 DEF Shown
  <2> QED
    BY <1>5, <1>6, <1>8, <2>1, <2>2
<1>9. SlotsOK(slots)' /\ Afoot' = Afoot /\ Idle' = Idle
  BY <1>1, <1>2, FieldIs, FieldWillBe
<1>10. Sound(World', flags', Idle')
  <2>1. \A i \in DOMAIN objects :
            /\ made[i] \in Object
            /\ made[i].kind = objects[i].kind /\ made[i].side = objects[i].side
            /\ objects[i].gone => made[i].gone
    BY <1>5, <1>6
  <2>2. made = objects' /\ UNCHANGED <<forces, lists>> /\ flags \in SUBSET flags
        /\ Afoot' \in SUBSET Afoot /\ Idle' \in SUBSET Idle
    BY <1>1, <1>9
  <2>3. Sound(World', flags, Idle')
    BY <1>6, <1>7, <1>8, <2>1, <2>2, CountedOn
  <2> QED
    BY <1>1, <2>3
<1>11. Tallied(made, ToSet(forces))
  <2> SUFFICES ASSUME NEW i \in DOMAIN objects
               PROVE  IF i \in ToSet(forces) THEN Counting(made[i]) ELSE Lasting(made[i])
    BY <1>6 DEF Tallied
  <2>1. CASE i \in InForce(forces, objects)
    BY <1>5, <1>6, <2>1 DEF InForce
  <2>2. CASE i \notin InForce(forces, objects)
    <3>1. made[i] = objects[i] /\ Lasting(objects[i])
      BY <1>2, <1>5, <1>6, <2>2 DEF Rested
    <3>2. i \in ToSet(forces) => objects[i].gone /\ (objects[i].turns = -1 \/ objects[i].turns > 0)
      BY <1>2, <2>2 DEF InForce, Rested
    <3> QED
      BY <3>1, <3>2 DEF Counting
  <2> QED
    BY <2>1, <2>2
<1>12. ASSUME NEW d \in due' PROVE d[1] \in Mon /\ d[2] \in ToSet(forces) /\ IsWeather(d[2])'
  <2>1. PICK x \in Afoot, i \in Nat : d = <<x, i>> /\ i \in InForce(lists[x], made) /\ IsWeather(i)
    <3>1. PICK x \in Afoot : d \in {<<x, i>> : i \in {j \in InForce(lists[x], made) : IsWeather(j)}}
      BY <1>1
    <3>2. PICK i \in InForce(lists[x], made) : d = <<x, i>> /\ IsWeather(i)
      BY <3>1
    <3>3. ToSet(lists[x]) \subseteq DOMAIN objects /\ x \in Mon
      BY <1>2 DEF Sound, WellFormed
    <3>4. i \in Nat
      BY <1>2, <3>2, <3>3, WorldIs DEF InForce
    <3> QED
      BY <3>2, <3>4
  <2>2. ToSet(lists[x]) \subseteq DOMAIN objects /\ x \in Mon /\ i \in ToSet(lists[x])
    BY <1>2, <2>1 DEF Sound, WellFormed, InForce
  <2>3. i \in LiveOf(World, x)
    BY <1>2, <1>5, <1>6, <2>1, <2>2 DEF InForce, LiveOf
  <2>4. i \in Live(World)
    BY <1>2, <2>3 DEF Sound, Listed
  <2>5. i \in ToSet(forces)
    BY <1>2, <2>4 DEF Live, InForce
  <2>6. IsWeather(i)'
    BY <1>1, <1>5, <1>6, <2>1, <2>2 DEF IsWeather
  <2> QED
    BY <2>1, <2>2, <2>5, <2>6
<1>13. \A d \in due' : d[1] \in Mon /\ d[2] \in ToSet(forces)' /\ IsWeather(d[2])'
  BY <1>1, <1>12
<1>14. Tallied(objects, ToSet(forces))'
  BY <1>1, <1>11
<1>15. /\ SlotsOK(slots)' /\ downed' \subseteq Mon /\ moment' = "ticking"
  BY <1>1, <1>2, <1>9
<1> QED
  BY <1>10, <1>13, <1>14, <1>15 DEF FieldInv

(* An effect that is ticked.                                               *)
LEMMA GlobalIs ==
  ASSUME NEW i, objects[i].kind \in FieldKinds
  PROVE  GlobalOf(i) \in Flagged /\ EFFECTS[GlobalOf(i)] = objects[i].kind
<1>1. \E g \in Flagged : EFFECTS[g] = objects[i].kind
  BY DEF FieldKinds
<1> QED
  BY <1>1 DEF GlobalOf

TicksTo(o, p) ==
    /\ p \in Object /\ p.kind = o.kind /\ p.side = o.side /\ p.age = o.age /\ p.ticked
    /\ p.gone <=> o.turns = 1
    /\ \/ o.turns = -1 /\ p.turns = -1
       \/ /\ o.turns # -1
          /\ p.turns >= 0 /\ p.turns + p.age = Duration - 1 /\ (p.gone <=> p.turns = 0)

LEMMA TickedIs ==
  ASSUME NEW i, objects[i] \in Object, objects[i].kind # "Reflect", ~objects[i].gone,
         ~objects[i].ticked, Counting(objects[i])
  PROVE  TicksTo(objects[i], TickedDown(i)) /\ Counting(TickedDown(i))
<1> DEFINE o == objects[i]
           t == IF o.turns = -1 THEN -1 ELSE o.turns - 1
           b == o.turns = 1
           p == [o EXCEPT !.turns = t, !.ticked = TRUE, !.gone = b]
<1>1. Duration \in Nat \ {0}
  BY ModifiersAssumption
<1>2. o.turns \in Int /\ o.age \in Nat /\ o.kind # "Reflect" /\ o.side = 0 /\ ~o.gone /\ ~o.ticked
  BY ObjectIs
<1>3. o \in [kind : FieldKinds \cup {"Reflect"}, turns : Int, side : {0, 1},
             gone : BOOLEAN, ticked : BOOLEAN, age : Nat]
  BY DEF Object
<1>4. TickedDown(i) = p
  BY <1>3 DEF TickedDown, Ends
<1>5. o.turns = -1 \/ (o.turns > 0 /\ o.turns + o.age = Duration)
  BY <1>2 DEF Counting
<1>6. t \in Int /\ b \in BOOLEAN /\ TRUE \in BOOLEAN
  BY <1>2
<1>7. /\ p.turns = t /\ p.ticked /\ p.kind = o.kind /\ p.side = o.side /\ p.age = o.age
      /\ p.gone = b
      /\ p \in [kind : FieldKinds \cup {"Reflect"}, turns : Int, side : {0, 1},
                gone : BOOLEAN, ticked : BOOLEAN, age : Nat]
  <2> HIDE DEF t, b, o
  <2> QED
    BY <1>3, <1>6
<1>8. \/ o.turns = -1 /\ t = -1 /\ o.turns # 1
      \/ o.turns # -1 /\ t >= 0 /\ t + o.age = Duration - 1 /\ (o.turns = 1 <=> t = 0)
  BY <1>1, <1>2, <1>5
<1>9. p.gone <=> o.turns = 1
  <2> HIDE DEF t, p
  <2> QED
    BY <1>7
<1> HIDE DEF p, t, b, o
<1>10. p \in Object
  BY <1>2, <1>7 DEF Object
<1>11. \/ o.turns = -1 /\ p.turns = -1
       \/ /\ o.turns # -1
          /\ p.turns >= 0 /\ p.turns + p.age = Duration - 1 /\ (p.gone <=> p.turns = 0)
  <2>1. CASE o.turns = -1 /\ t = -1
    BY <1>7, <2>1
  <2>2. CASE o.turns # -1 /\ t >= 0 /\ t + o.age = Duration - 1 /\ (o.turns = 1 <=> t = 0)
    <3>1. p.turns = t /\ p.age = o.age
      BY <1>7
    <3>2. p.gone <=> p.turns = 0
      BY <1>9, <2>2, <3>1, Zenon
    <3> QED
      BY <2>2, <3>1, <3>2
  <2> QED
    BY <1>8, <2>1, <2>2
<1>12. TicksTo(o, p)
  BY <1>7, <1>9, <1>10, <1>11 DEF TicksTo
<1>13. Counting(p)
  <2>1. p.turns \in Int /\ p.age \in Nat /\ Duration \in Nat
    BY <1>1, <1>10, ObjectIs
  <2>2. CASE p.turns = -1
    BY <2>2 DEF Counting
  <2>3. CASE p.turns >= 0 /\ p.turns + p.age = Duration - 1 /\ (p.gone <=> p.turns = 0)
    <3>1. CASE p.gone
      <4>1. p.turns = 0 /\ p.age + 1 = Duration
        BY <2>1, <2>3, <3>1
      <4> QED
        BY <3>1, <4>1 DEF Counting
    <3>2. CASE ~p.gone
      <4>1. p.turns > 0 /\ p.turns + p.age = Duration - 1 /\ p.ticked
        BY <1>7, <2>1, <2>3, <3>2
      <4> QED
        BY <3>2, <4>1 DEF Counting
    <3> QED
      BY <3>1, <3>2
  <2> QED
    BY <1>11, <2>2, <2>3
<1> QED
  BY <1>4, <1>12, <1>13 DEF o

LEMMA TickKeeps ==
  ASSUME FieldInv, NEW x, NEW i, NEW fatal \in BOOLEAN, TickWeather(x, i, fatal)
  PROVE  FieldInv'
<1> DEFINE idle == x \in downed \/ objects[i].gone
           first == ~idle /\ FirstTick(i)
           made == objects'
<1>1. /\ moment = "ticking" /\ <<x, i>> \in due
      /\ fatal => ~idle
      /\ due' = due \ {<<x, i>>}
      /\ objects' = IF first THEN [objects EXCEPT ![i] = TickedDown(i)] ELSE objects
      /\ flags' = IF first /\ Ends(i) THEN flags \ {GlobalOf(i)} ELSE flags
      /\ downed' = IF fatal THEN downed \cup {x} ELSE downed
      /\ forces' = forces /\ lists' = lists /\ slots' = slots /\ moment' = moment
  BY DEF TickWeather
<1>2. /\ Sound(World, flags, Idle) /\ World \in Worlds /\ World.on = Afoot /\ Afoot \subseteq Mon
      /\ World.made = objects /\ World.forces = forces /\ World.lists = lists /\ Shown(World, flags)
      /\ ToSet(forces) \subseteq DOMAIN objects /\ SlotsOK(slots) /\ downed \subseteq Mon
      /\ Tallied(objects, ToSet(forces)) /\ OneOfAKind(World) /\ flags \subseteq Flagged
  BY <1>1, FieldIs DEF FieldInv, Sound, Worlds
<1>3. \A j \in DOMAIN objects : objects[j] \in Object
  BY <1>2, WorldIs
<1>4. x \in Mon /\ i \in ToSet(forces) /\ i \in DOMAIN objects /\ IsWeather(i)
  <2>1. <<x, i>>[1] = x /\ <<x, i>>[2] = i
    OBVIOUS
  <2> QED
    BY <1>1, <1>2, <2>1 DEF FieldInv
<1>5. objects[i].kind \in FieldKinds /\ objects[i].kind # "Reflect"
  BY <1>4, KindsAre DEF IsWeather
<1>6. SlotsOK(slots)' /\ downed' \subseteq Mon
  BY <1>1, <1>2, <1>4
<1>7. Afoot' \in SUBSET Afoot /\ Idle' \in SUBSET Idle
  <2>1. /\ Afoot' = PlacedIn(slots') \ (downed' \cup {Vacant}) /\ Idle' = Mon \ (downed' \cup PlacedIn(slots'))
        /\ Afoot = PlacedIn(slots) \ (downed \cup {Vacant}) /\ Idle = Mon \ (downed \cup PlacedIn(slots))
    BY <1>6, FieldIs, FieldWillBe
  <2>2. downed \subseteq downed' /\ slots' = slots
    BY <1>1
  <2> QED
    BY <2>1, <2>2
<1>8. \A j \in InForce(forces, objects) :
          objects[j].kind # "Reflect" =>
              /\ j \in DOMAIN objects /\ ~objects[j].gone /\ objects[j].side = 0
              /\ \E g \in flags : objects[j].kind = EFFECTS[g]
  BY <1>2, <1>3, ObjectIs DEF Shown, Live, InForce
<1>9. \A d \in due' : /\ d[1] \in Mon /\ d[2] \in ToSet(forces) /\ IsWeather(d[2])
                      /\ d[2] \in DOMAIN objects
  BY <1>1, <1>2 DEF FieldInv
<1>10. CASE ~first
  <2>1. made = objects /\ flags' = flags
    BY <1>1, <1>10
  <2>2. made = [j \in DOMAIN objects |-> made[j]] /\ DOMAIN made = DOMAIN objects
    <3>1. DOMAIN objects = 1 .. Len(objects) /\ objects \in Seq(Object)
      BY <1>2, WorldIs
    <3>2. objects = [j \in DOMAIN objects |-> objects[j]]
      BY <3>1, LenProperties
    <3> HIDE DEF made
    <3> QED
      BY <2>1, <3>2
  <2>3. \A j \in InForce(forces, objects) : objects[j].kind # "Reflect" =>
            (made[j].gone <=> ~\E g \in flags : objects[j].kind = EFFECTS[g])
    BY <1>8, <2>1
  <2>4. Sound(World', flags, Idle')
    <3>1. \A j \in DOMAIN objects :
            /\ made[j] \in Object
            /\ made[j].kind = objects[j].kind /\ made[j].side = objects[j].side
            /\ objects[j].gone => made[j].gone
      BY <1>3, <2>1
    <3>2. made = objects' /\ UNCHANGED <<forces, lists>> /\ flags \in SUBSET flags
      BY <1>1
    <3> HIDE DEF made
    <3> QED
      BY <1>7, <2>2, <2>3, <3>1, <3>2, CountedOn
  <2>5. Tallied(objects, ToSet(forces))' /\ \A d \in due' : IsWeather(d[2])'
    BY <1>1, <1>2, <1>9, <2>1 DEF IsWeather
  <2> QED
    BY <1>1, <1>6, <1>9, <2>1, <2>4, <2>5 DEF FieldInv
<1>11. CASE first
  <2> DEFINE o == objects[i]
             p == TickedDown(i)
             rest == IF Ends(i) THEN flags \ {GlobalOf(i)} ELSE flags
  <2>1. ~o.gone /\ ~o.ticked /\ o \in Object
    BY <1>3, <1>4, <1>11 DEF FirstTick
  <2>2. Counting(o)
    BY <1>2, <1>4 DEF Tallied
  <2>3. TicksTo(o, p) /\ Counting(p)
    BY <1>5, <2>1, <2>2, TickedIs
  <2>4. /\ p \in Object /\ p.kind = o.kind /\ p.side = o.side /\ (p.gone <=> Ends(i))
    BY <2>3 DEF TicksTo, Ends
  <2>5. GlobalOf(i) \in Flagged /\ EFFECTS[GlobalOf(i)] = o.kind
    BY <1>5, GlobalIs
  <2>6. flags' = rest /\ rest \in SUBSET flags
    BY <1>1, <1>11
  <2>7. /\ made = [j \in DOMAIN objects |-> made[j]] /\ DOMAIN made = DOMAIN objects
        /\ made[i] = p /\ \A j \in DOMAIN objects \ {i} : made[j] = objects[j]
    <3>1. DOMAIN objects = 1 .. Len(objects) /\ objects \in Seq(Object)
      BY <1>2, WorldIs
    <3>2. objects = [j \in DOMAIN objects |-> objects[j]]
      BY <3>1, LenProperties
    <3>3. made = [objects EXCEPT ![i] = p]
      BY <1>1, <1>11
    <3> HIDE DEF p, made
    <3> QED
      BY <1>4, <3>2, <3>3
  <2> HIDE DEF p, rest
  <2>8. ASSUME NEW j \in InForce(forces, objects), objects[j].kind # "Reflect"
        PROVE  made[j].gone <=> ~\E g \in rest : objects[j].kind = EFFECTS[g]
    <3>1. j \in DOMAIN objects /\ ~objects[j].gone /\ objects[j].side = 0
      BY <1>8, <2>8
    <3>2. PICK g \in flags : objects[j].kind = EFFECTS[g]
      BY <1>8, <2>8
    <3>3. CASE j = i /\ Ends(i)
      <4>1. ASSUME NEW h \in rest, objects[j].kind = EFFECTS[h] PROVE FALSE
        BY <1>2, <2>5, <3>3, <4>1, KindsAre DEF rest
      <4> QED
        BY <2>4, <2>7, <3>3, <4>1
    <3>4. CASE j = i /\ ~Ends(i)
      BY <2>4, <2>7, <3>2, <3>4 DEF rest
    <3>5. CASE j # i
      <4>1. i \in InForce(forces, objects) /\ o.side = 0
        BY <1>4, <1>5, <2>1, ObjectIs DEF InForce
      <4>2. objects[j].kind # o.kind
        BY <1>2, <2>8, <3>1, <3>5, <4>1 DEF OneOfAKind, Alike, Live
      <4>3. g \in rest
        BY <2>5, <3>2, <4>2 DEF rest
      <4> QED
        BY <2>7, <3>1, <3>2, <3>5, <4>3
    <3> QED
      BY <3>3, <3>4, <3>5
  <2>9. ASSUME NEW j \in DOMAIN objects
        PROVE  /\ made[j] \in Object
               /\ made[j].kind = objects[j].kind /\ made[j].side = objects[j].side
               /\ objects[j].gone => made[j].gone
    BY <1>3, <2>1, <2>4, <2>7
  <2>10. Sound(World', rest, Idle')
    <3>1. made = objects' /\ UNCHANGED <<forces, lists>>
      BY <1>1
    <3>2. \A j \in DOMAIN objects :
            /\ made[j] \in Object
            /\ made[j].kind = objects[j].kind /\ made[j].side = objects[j].side
            /\ objects[j].gone => made[j].gone
      BY <2>9
    <3> HIDE DEF made
    <3> QED
      BY <1>7, <2>6, <2>7, <2>8, <3>1, <3>2, CountedOn
  <2>11. Tallied(made, ToSet(forces))
    BY <1>2, <1>4, <2>3, <2>7 DEF Tallied
  <2>12. \A d \in due' : IsWeather(d[2])'
    BY <1>9, <2>9 DEF IsWeather
  <2> QED
    BY <1>1, <1>6, <1>9, <2>6, <2>10, <2>11, <2>12 DEF FieldInv
<1> QED
  BY <1>10, <1>11

(* What is gone leaves the lists of those on the field, and that of it.    *)
Tidied(w) ==
    [made |-> w.made, on |-> w.on, forces |-> Kept(w.forces, InForce(w.forces, w.made)),
     lists |-> [x \in Mon |-> IF x \in w.on THEN Kept(w.lists[x], InForce(w.lists[x], w.made))
                                             ELSE w.lists[x]]]

LEMMA TidiedKeeps ==
  ASSUME NEW w, NEW fl, NEW idle, Sound(w, fl, idle)
  PROVE  Sound(Tidied(w), fl, idle) /\ ToSet(Tidied(w).forces) = Live(w)
<1> DEFINE F == Kept(w.forces, InForce(w.forces, w.made))
           L(x) == IF x \in w.on THEN Kept(w.lists[x], InForce(w.lists[x], w.made)) ELSE w.lists[x]
           lost == [x \in Mon |-> L(x)]
           v == Tidied(w)
<1>1. /\ w \in Worlds /\ WellFormed(w) /\ Listed(w) /\ Unlisted(w, idle) /\ OneOfAKind(w)
      /\ Shown(w, fl) /\ w.on \subseteq Mon /\ idle \subseteq Mon
  BY WorldIs DEF Sound, WellFormed, Unlisted
<1>2. w.made \in Seq(Object) /\ w.lists \in [Mon -> Seq(Nat)] /\ w.forces \in Seq(Nat)
  BY <1>1, WorldIs
<1>3. F \in Seq(Nat) /\ ToSet(F) = ToSet(w.forces) \cap InForce(w.forces, w.made) /\ Distinct(F)
  BY <1>1, <1>2, KeptIs DEF WellFormed
<1>4. ToSet(F) = Live(w)
  BY <1>3 DEF Live, InForce
<1>5. ASSUME NEW x \in Mon
      PROVE  /\ L(x) \in Seq(Nat) /\ Distinct(L(x)) /\ ToSet(L(x)) \subseteq ToSet(w.lists[x])
             /\ {i \in ToSet(L(x)) : ~w.made[i].gone} = LiveOf(w, x)
  <2>1. w.lists[x] \in Seq(Nat) /\ Distinct(w.lists[x])
    BY <1>1, <1>2 DEF WellFormed
  <2> DEFINE K == Kept(w.lists[x], LiveOf(w, x))
  <2>2. K \in Seq(Nat) /\ ToSet(K) = ToSet(w.lists[x]) \cap LiveOf(w, x) /\ Distinct(K)
    BY <2>1, KeptIs
  <2>3. L(x) = IF x \in w.on THEN K ELSE w.lists[x]
    BY DEF LiveOf
  <2> HIDE DEF K, L
  <2>4. CASE x \in w.on
    BY <2>2, <2>3, <2>4 DEF LiveOf, InForce
  <2>5. CASE x \notin w.on
    BY <2>1, <2>3, <2>5 DEF LiveOf, InForce
  <2> QED
    BY <2>4, <2>5
<1> HIDE DEF F, L
<1>6. /\ v.made = w.made /\ v.on = w.on /\ v.forces = F /\ v.lists = lost
      /\ v = [made |-> w.made, on |-> w.on, forces |-> F, lists |-> lost]
  BY DEF Tidied, F, L
<1>7. lost \in [Mon -> Seq(Nat)] /\ \A x \in Mon : lost[x] = L(x)
  BY <1>5
<1> HIDE DEF lost, v
<1>8. v \in Worlds
  BY <1>1, <1>2, <1>3, <1>6, <1>7 DEF Worlds
<1>9. WellFormed(v)
  <2>1. Live(w) \subseteq DOMAIN w.made
    BY <1>1 DEF WellFormed, Live, InForce
  <2> QED
    BY <1>1, <1>3, <1>4, <1>5, <1>6, <1>7, <1>8, <2>1 DEF WellFormed
<1>10. Live(v) = Live(w)
  BY <1>4, <1>6 DEF Live, InForce
<1>11. \A x \in Mon : LiveOf(v, x) = LiveOf(w, x)
  BY <1>5, <1>6, <1>7 DEF LiveOf, InForce
<1>12. Listed(v)
  BY <1>1, <1>6, <1>10, <1>11 DEF Listed
<1>13. Unlisted(v, idle)
  BY <1>1, <1>11 DEF Unlisted
<1>14. OneOfAKind(v) /\ Shown(v, fl)
  BY <1>1, <1>6, <1>10 DEF OneOfAKind, Shown
<1>15. Sound(v, fl, idle)
  BY <1>9, <1>12, <1>13, <1>14 DEF Sound
<1> QED
  BY <1>4, <1>6, <1>15 DEF v

LEMMA EndKeeps ==
  ASSUME FieldInv, EndTicks
  PROVE  FieldInv'
<1> DEFINE late == {i \in InForce(forces, objects) : objects[i].kind # "Reflect" /\ ~objects[i].ticked}
           Of(i) == IF i \in late THEN TickedDown(i) ELSE objects[i]
           Aged(i) == i \in ToSet(forces) /\ objects[i].turns # -1
           made == [i \in DOMAIN objects |->
                       [Of(i) EXCEPT !.age = IF Aged(i) THEN @ + 1 ELSE @]]
           rest == flags \ {GlobalOf(i) : i \in {j \in late : Ends(j)}}
           w == [World EXCEPT !.made = made]
<1>1. /\ moment = "ticking" /\ moment' \in {"over", "replacing"}
      /\ objects' = made /\ flags' = rest
      /\ lists' = [x \in Mon |-> IF x \in Afoot
                        THEN Kept(lists[x], InForce(lists[x], made)) ELSE lists[x]]
      /\ forces' = Kept(forces, InForce(forces, made))
      /\ slots' = slots /\ downed' = downed
  BY DEF EndTicks
<1>2. /\ Sound(World, flags, Idle) /\ World \in Worlds /\ World.on = Afoot /\ Afoot \subseteq Mon
      /\ World.made = objects /\ World.forces = forces /\ World.lists = lists /\ Shown(World, flags)
      /\ ToSet(forces) \subseteq DOMAIN objects /\ SlotsOK(slots) /\ downed \subseteq Mon
      /\ Tallied(objects, ToSet(forces)) /\ OneOfAKind(World) /\ flags \subseteq Flagged
  BY <1>1, FieldIs DEF FieldInv, Sound, Worlds
<1>3. \A i \in DOMAIN objects : objects[i] \in Object
  BY <1>2, WorldIs
<1>4. Duration \in Nat \ {0}
  BY ModifiersAssumption
<1>5. ASSUME NEW i \in late
      PROVE  /\ i \in ToSet(forces) /\ i \in DOMAIN objects /\ objects[i].kind # "Reflect"
             /\ ~objects[i].gone /\ ~objects[i].ticked /\ TicksTo(objects[i], TickedDown(i))
             /\ GlobalOf(i) \in Flagged /\ EFFECTS[GlobalOf(i)] = objects[i].kind
  <2>1. i \in ToSet(forces) /\ i \in DOMAIN objects /\ objects[i].kind # "Reflect"
        /\ ~objects[i].gone /\ ~objects[i].ticked /\ objects[i] \in Object
    BY <1>2, <1>3 DEF InForce
  <2>2. Counting(objects[i])
    BY <1>2, <2>1 DEF Tallied
  <2>3. objects[i].kind \in FieldKinds
    BY <2>1, ObjectIs
  <2> QED
    BY <2>1, <2>2, <2>3, TickedIs, GlobalIs
<1>6. \A i \in InForce(forces, objects) : i \in ToSet(forces) /\ i \in DOMAIN objects /\ ~objects[i].gone
  BY <1>2 DEF InForce
<1>7. ASSUME NEW i \in DOMAIN objects
      PROVE  /\ Of(i) \in Object /\ Of(i).kind = objects[i].kind /\ Of(i).side = objects[i].side
             /\ Of(i).age = objects[i].age
             /\ objects[i].gone => Of(i).gone
             /\ i \in InForce(forces, objects) => (Of(i).gone <=> i \in late /\ Ends(i))
  <2>1. CASE i \in late
    <3>1. /\ TickedDown(i) \in Object /\ TickedDown(i).kind = objects[i].kind
          /\ TickedDown(i).side = objects[i].side /\ TickedDown(i).age = objects[i].age
          /\ TickedDown(i).gone <=> Ends(i)
      BY <1>5, <2>1 DEF TicksTo, Ends
    <3> QED
      BY <1>5, <2>1, <3>1
  <2>2. CASE i \notin late
    BY <1>3, <1>6, <2>2
  <2> QED
    BY <2>1, <2>2
<1>8. ASSUME NEW i \in DOMAIN objects
      PROVE  /\ Lasting(made[i])
             /\ i \in ToSet(forces) /\ ~made[i].gone => made[i].turns = -1 \/ made[i].turns > 0
             /\ made[i] \in Object /\ made[i].kind = objects[i].kind /\ made[i].side = objects[i].side
             /\ made[i].gone <=> Of(i).gone
  <2> DEFINE o == objects[i]
             q == Of(i)
             a == IF Aged(i) THEN q.age + 1 ELSE q.age
             p == [q EXCEPT !.age = a]
  <2>1. q \in Object /\ q.kind = o.kind /\ q.side = o.side /\ q.age = o.age
    BY <1>7
  <2>2. made[i] = p
    OBVIOUS
  <2>3. a \in Nat /\ q.age \in Nat /\ q.turns \in Int /\ o \in Object /\ o.turns \in Int /\ o.age \in Nat
    BY <1>3, <2>1, ObjectIs
  <2>4. i \in late => TicksTo(o, q)
    BY <1>5
  <2>5. i \notin late => q = o
    OBVIOUS
  <2>6. IF i \in ToSet(forces) THEN Counting(o) ELSE Lasting(o)
    BY <1>2 DEF Tallied
  <2>7. i \in late <=> i \in ToSet(forces) /\ ~o.gone /\ o.kind # "Reflect" /\ ~o.ticked
    BY DEF InForce
  <2>8. a = IF i \in ToSet(forces) /\ o.turns # -1 THEN o.age + 1 ELSE o.age
    BY <2>1
  <2> HIDE DEF o, q, a, late
  <2>9. /\ p \in Object /\ p.kind = q.kind /\ p.side = q.side /\ p.turns = q.turns /\ p.gone = q.gone
        /\ p.age = a
    BY <2>1, <2>3 DEF Object
  <2> HIDE DEF p
  <2>10. /\ Lasting(p)
         /\ i \in ToSet(forces) /\ ~p.gone => p.turns = -1 \/ p.turns > 0
    <3>1. CASE i \notin ToSet(forces)
      <4>1. p.turns = o.turns /\ p.age = o.age /\ p.gone = o.gone /\ Lasting(o)
        BY <2>5, <2>6, <2>7, <2>8, <2>9, <3>1
      <4> QED
        BY <3>1, <4>1 DEF Lasting
    <3>2. CASE i \in ToSet(forces) /\ o.turns = -1
      <4>1. q.turns = -1
        <5>1. CASE i \in late
          BY <2>4, <3>2, <5>1 DEF TicksTo
        <5>2. CASE i \notin late
          BY <2>5, <3>2, <5>2
        <5> QED
          BY <5>1, <5>2
      <4> QED
        BY <2>9, <4>1 DEF Lasting
    <3>3. CASE i \in ToSet(forces) /\ o.turns # -1 /\ i \in late
      <4>1. q.turns >= 0 /\ q.turns + q.age = Duration - 1 /\ (q.gone <=> q.turns = 0)
        BY <2>4, <3>3 DEF TicksTo
      <4>2. p.turns = q.turns /\ p.age = q.age + 1 /\ p.gone = q.gone
        BY <2>1, <2>8, <2>9, <3>3
      <4>3. p.turns + p.age = Duration
        BY <1>4, <2>3, <4>1, <4>2
      <4>4. ~p.gone => p.turns > 0
        <5>1. q.turns # 0 => q.turns > 0
          BY <2>3, <4>1
        <5> QED
          BY <4>1, <4>2, <5>1, Zenon
      <4> QED
        BY <4>3, <4>4 DEF Lasting
    <3>4. CASE i \in ToSet(forces) /\ o.turns # -1 /\ i \notin late
      <4>1. p.turns = o.turns /\ p.age = o.age + 1 /\ p.gone = o.gone
        BY <2>5, <2>8, <2>9, <3>4
      <4>2. \/ o.gone /\ o.turns > 0
            \/ o.gone /\ o.turns = 0 /\ o.age + 1 = Duration
            \/ ~o.gone /\ o.turns > 0 /\ o.turns + o.age = Duration - 1
        BY <2>6, <2>7, <3>4 DEF Counting
      <4>3. CASE o.gone /\ o.turns > 0
        BY <4>1, <4>3 DEF Lasting
      <4>4. CASE o.gone /\ o.turns = 0 /\ o.age + 1 = Duration
        <5>1. p.turns + p.age = Duration /\ p.gone
          BY <1>4, <2>3, <4>1, <4>4
        <5> QED
          BY <5>1 DEF Lasting
      <4>5. CASE ~o.gone /\ o.turns > 0 /\ o.turns + o.age = Duration - 1
        <5>1. p.turns + p.age = Duration /\ p.turns > 0
          BY <1>4, <2>3, <4>1, <4>5
        <5> QED
          BY <5>1 DEF Lasting
      <4> QED
        BY <4>2, <4>3, <4>4, <4>5
    <3> QED
      BY <3>1, <3>2, <3>3, <3>4
  <2>11. /\ p.kind = o.kind /\ p.side = o.side /\ (p.gone <=> q.gone)
    BY <2>1, <2>9
  <2>12. /\ Lasting(made[i])
         /\ i \in ToSet(forces) /\ ~made[i].gone => made[i].turns = -1 \/ made[i].turns > 0
         /\ made[i] \in Object /\ made[i].kind = o.kind /\ made[i].side = o.side
         /\ made[i].gone <=> q.gone
    <3> HIDE DEF made
    <3> QED
      BY <2>2, <2>9, <2>10, <2>11
  <2> QED
    BY <2>12 DEF o, q
<1>9. DOMAIN made = DOMAIN objects /\ made = [i \in DOMAIN objects |-> made[i]]
  OBVIOUS
<1> HIDE DEF Of, made, late
<1>10. ASSUME NEW i \in InForce(forces, objects), objects[i].kind # "Reflect"
       PROVE  made[i].gone <=> ~\E g \in rest : objects[i].kind = EFFECTS[g]
  <2>1. i \in ToSet(forces) /\ i \in DOMAIN objects /\ ~objects[i].gone /\ i \in Live(World)
    BY <1>2, <1>6 DEF Live
  <2>2. objects[i].side = 0
    BY <1>3, <1>10, <2>1, ObjectIs
  <2>3. PICK g \in flags : objects[i].kind = EFFECTS[g]
    BY <1>2, <1>10, <2>1 DEF Shown
  <2>4. made[i].gone <=> i \in late /\ Ends(i)
    BY <1>7, <1>8, <2>1
  <2>5. CASE i \in late /\ Ends(i)
    <3>1. GlobalOf(i) \notin rest /\ GlobalOf(i) \in Flagged /\ EFFECTS[GlobalOf(i)] = objects[i].kind
      BY <1>5, <2>5
    <3>2. rest \subseteq Flagged
      BY <1>2
    <3> HIDE DEF rest
    <3>3. ~\E h \in rest : objects[i].kind = EFFECTS[h]
      BY <3>1, <3>2, KindsAre
    <3> QED
      BY <2>4, <2>5, <3>3
  <2>6. CASE ~(i \in late /\ Ends(i))
    <3>1. ASSUME NEW j \in late, Ends(j), g = GlobalOf(j) PROVE FALSE
      <4>1. j \in ToSet(forces) /\ j \in DOMAIN objects /\ ~objects[j].gone /\ objects[j].side = 0
        BY <1>3, <1>5, ObjectIs
      <4>2. j \in Live(World) /\ objects[j].kind = objects[i].kind
        BY <1>2, <1>5, <2>3, <3>1, <4>1 DEF Live, InForce
      <4>3. i = j
        BY <1>2, <2>1, <2>2, <4>1, <4>2 DEF OneOfAKind, Alike
      <4> QED
        BY <2>6, <3>1, <4>3
    <3>2. g \in rest
      BY <3>1
    <3> HIDE DEF rest
    <3> QED
      BY <2>3, <2>4, <2>6, <3>2
  <2> QED
    BY <2>5, <2>6
<1>11. made \in Seq(Object)
  <2> DEFINE n == Len(objects)
  <2>1. DOMAIN objects = 1 .. n /\ n \in Nat
    BY <1>2, WorldIs
  <2>2. made = [i \in 1 .. n |-> made[i]] /\ \A i \in 1 .. n : made[i] \in Object
    BY <1>8, <1>9, <2>1
  <2> HIDE DEF n
  <2>3. made \in [1 .. n -> Object]
    BY <2>2
  <2> QED
    BY <2>1, <2>3, SeqDef
<1>12. Sound(w, rest, Idle)
  <2>1. DOMAIN made = DOMAIN World.made /\ rest \in SUBSET flags
    BY <1>2, <1>9
  <2>2. ASSUME NEW i \in DOMAIN made
        PROVE  /\ made[i].kind = World.made[i].kind /\ made[i].side = World.made[i].side
               /\ World.made[i].gone => made[i].gone
    BY <1>2, <1>7, <1>8, <1>9
  <2>3. \A i \in InForce(World.forces, World.made) : World.made[i].kind # "Reflect" =>
            (made[i].gone <=> ~\E g \in rest : World.made[i].kind = EFFECTS[g])
    BY <1>2, <1>10
  <2> HIDE DEF rest
  <2> QED
    BY <1>2, <1>11, <2>1, <2>2, <2>3, MadeAnew
<1>13. /\ w \in Worlds /\ w.made = made /\ w.forces = forces /\ w.lists = lists /\ w.on = Afoot
  BY <1>2, <1>11 DEF Worlds
<1> HIDE DEF w, rest
<1> DEFINE v == Tidied(w)
<1>14. Sound(v, rest, Idle) /\ v \in Worlds
  BY <1>12, TidiedKeeps DEF Sound, WellFormed
<1>15. ToSet(v.forces) = Live(w)
  <2>1. Sound(Tidied(w), rest, Idle) /\ ToSet(Tidied(w).forces) = Live(w)
    BY <1>12, TidiedKeeps
  <2> QED
    BY <2>1
<1>16. SlotsOK(slots)' /\ Afoot' = Afoot /\ Idle' = Idle
  BY <1>1, <1>2, FieldIs, FieldWillBe
<1>17. Becomes(v) /\ v.on = Afoot'
  BY <1>1, <1>13, <1>16 DEF Tidied, Becomes
<1> HIDE DEF v
<1>18. World' = v /\ objects' = made /\ forces' = v.forces
  BY <1>1, <1>14, <1>17, WorldWillBe DEF Becomes
<1>19. Sound(World', flags', Idle')
  BY <1>1, <1>14, <1>16, <1>18
<1>20. Rested(objects', ToSet(forces'))
  <2>1. ToSet(forces') = {i \in ToSet(forces) : ~made[i].gone}
    BY <1>13, <1>15, <1>18 DEF Live, InForce
  <2> QED
    BY <1>8, <1>9, <1>18, <2>1 DEF Rested
<1>21. downed' \subseteq Mon
  BY <1>1, <1>2
<1> QED
  BY <1>1, <1>16, <1>19, <1>20, <1>21 DEF FieldInv

LEMMA OthersKeep ==
  ASSUME FieldInv, WinBetweenTiers \/ TurnEnds \/ UNCHANGED fieldVars
  PROVE  FieldInv'
<1>1. /\ objects' = objects /\ forces' = forces /\ lists' = lists /\ flags' = flags
      /\ slots' = slots /\ downed' = downed /\ due' = due
      /\ \/ moment' = "over" /\ moment = "ticking"
         \/ moment' = "acting" /\ moment = "replacing"
         \/ moment' = moment
  BY DEF WinBetweenTiers, TurnEnds, fieldVars
<1>2. SlotsOK(slots) /\ SlotsOK(slots)' /\ downed' \subseteq Mon
  BY <1>1 DEF FieldInv
<1>3. Afoot' = Afoot /\ Idle' = Idle
  BY <1>1, <1>2, FieldIs, FieldWillBe
<1>4. World' = World
  BY <1>1, <1>3 DEF World
<1>5. Sound(World', flags', Idle')
  BY <1>1, <1>3, <1>4 DEF FieldInv
<1>6. \A d : IsWeather(d)' <=> IsWeather(d)
  BY <1>1 DEF IsWeather
<1>7. /\ moment' \in {"acting", "ticking", "replacing", "over"}
      /\ moment' = "ticking" => /\ Tallied(objects', ToSet(forces'))
                                /\ \A d \in due' : /\ d[1] \in Mon /\ d[2] \in ToSet(forces')
                                                   /\ IsWeather(d[2])'
      /\ moment' \in {"acting", "replacing"} => Rested(objects', ToSet(forces'))
  BY <1>1, <1>6 DEF FieldInv
<1> QED
  BY <1>2, <1>5, <1>7 DEF FieldInv

LEMMA FieldStarts ==
  ASSUME ModifiersInit
  PROVE  FieldInv
<1>1. /\ objects = <<>> /\ forces = <<>> /\ lists = [x \in Mon |-> <<>>] /\ flags = {}
      /\ slots \in Lineups /\ downed = {} /\ moment = "acting" /\ due = {}
  BY DEF ModifiersInit
<1>2. SlotsOK(slots)
  BY <1>1, ModifiersAssumption DEF SlotsOK
<1>3. Afoot \subseteq Mon /\ Idle \subseteq Mon
  BY <1>2, SpotsIn DEF Afoot, Holder, Spots, Idle, Reserve
<1>4. <<>> \in Seq(Object) /\ <<>> \in Seq(Nat) /\ DOMAIN <<>> = {} /\ ToSet(<<>>) = {} /\ Distinct(<<>>)
  BY EmptySeq DEF ToSet, Distinct
<1>5. /\ World \in Worlds /\ World.made = <<>> /\ World.forces = <<>> /\ World.on = Afoot
      /\ \A x \in Mon : World.lists[x] = <<>>
  BY <1>1, <1>3, <1>4 DEF World, Worlds
<1>6. WellFormed(World)
  BY <1>4, <1>5 DEF WellFormed
<1>7. Live(World) = {} /\ \A x \in Mon : LiveOf(World, x) = {}
  BY <1>4, <1>5 DEF Live, LiveOf, InForce
<1>8. Listed(World) /\ Unlisted(World, Idle) /\ OneOfAKind(World) /\ Shown(World, flags)
  BY <1>1, <1>3, <1>5, <1>7 DEF Listed, Unlisted, OneOfAKind, Shown
<1>9. Sound(World, flags, Idle)
  BY <1>6, <1>8 DEF Sound
<1>10. Rested(objects, ToSet(forces))
  BY <1>1, <1>4 DEF Rested
<1> QED
  BY <1>1, <1>2, <1>9, <1>10 DEF FieldInv

LEMMA FieldSteps ==
  ASSUME FieldInv, [ModifiersNext]_fieldVars
  PROVE  FieldInv'
<1>1. ASSUME NEW x \in Afoot, NEW g \in Weather, UseWeather(x, g) PROVE FieldInv'
  BY <1>1, UseWeatherKeeps
<1>2. ASSUME NEW x \in Afoot, NEW g \in Weather, ActivateWeather(x, g) PROVE FieldInv'
  BY <1>2, ActivateKeeps
<1>3. ASSUME NEW x \in Afoot, UseGravity(x) PROVE FieldInv'
  BY <1>3, GravityKeeps
<1>4. ASSUME NEW x \in Afoot, UseTrickRoom(x) PROVE FieldInv'
  BY <1>4, TrickRoomKeeps
<1>5. ASSUME NEW x \in Afoot, UseReflect(x) PROVE FieldInv'
  BY <1>5, ReflectKeeps
<1>6. ASSUME NEW x \in Afoot, GoDown(x) PROVE FieldInv'
  BY <1>6, DownKeeps
<1>7. ASSUME NEW place \in Spots, NEW y \in Mon, Switch(place, y) PROVE FieldInv'
  BY <1>7, SwitchKeeps
<1>8. ASSUME NEW place \in Spots, NEW y \in Mon, Pursue(place, y) PROVE FieldInv'
  BY <1>8, PursueKeeps
<1>9. ASSUME NEW place \in Spots, NEW y \in Mon, SendIn(place, y) PROVE FieldInv'
  BY <1>9, SendInKeeps
<1>10. ASSUME NEW e \in due, NEW fatal \in BOOLEAN, TickWeather(e[1], e[2], fatal) PROVE FieldInv'
  BY <1>10, TickKeeps
<1>11. CASE BeginTicks
  BY <1>11, BeginKeeps
<1>12. CASE EndTicks
  BY <1>12, EndKeeps
<1>13. CASE WinBetweenTiers \/ TurnEnds \/ UNCHANGED fieldVars
  BY <1>13, OthersKeep
<1> QED
  BY <1>1, <1>2, <1>3, <1>4, <1>5, <1>6, <1>7, <1>8, <1>9, <1>10, <1>11, <1>12, <1>13 DEF ModifiersNext

(* What is in force is in the list of everybody whom it concerns, and has  *)
(* its flag; of a kind there is one.                                       *)
THEOREM FieldEffectsInvariant == ModifiersSpec => []FieldInv
<1>1. ModifiersInit => FieldInv
  BY FieldStarts
<1>2. FieldInv /\ [ModifiersNext]_fieldVars => FieldInv'
  BY FieldSteps
<1> QED
  BY <1>1, <1>2, PTL DEF ModifiersSpec

LEMMA TurnsLast ==
  ASSUME FieldInv
  PROVE  LastsItsTurns
<1> SUFFICES ASSUME moment \in {"acting", "replacing"}
             PROVE  /\ \A i \in InForce(forces, objects), x \in Afoot :
                          (objects[i].kind = "Reflect" => objects[i].side = Side[x])
                              => Cardinality({k \in DOMAIN lists[x] : lists[x][k] = i}) = 1
                    /\ \A i \in DOMAIN objects :
                          \/ objects[i].turns = -1
                          \/ objects[i].gone /\ objects[i].turns > 0
                          \/ objects[i].turns + objects[i].age = Duration
                    /\ \A x \in Afoot : InForce(lists[x], objects) \subseteq InForce(forces, objects)
                    /\ {objects[i].kind : i \in InForce(forces, objects)} \ {"Reflect"}
                            = {EFFECTS[g] : g \in flags}
  BY DEF LastsItsTurns
<1>1. /\ Sound(World, flags, Idle) /\ World.on = Afoot /\ Afoot \subseteq Mon
      /\ World.made = objects /\ World.forces = forces /\ World.lists = lists /\ Shown(World, flags)
      /\ Rested(objects, ToSet(forces)) /\ flags \subseteq Flagged /\ WellFormed(World)
      /\ Live(World) = InForce(forces, objects)
      /\ \A x \in Mon : LiveOf(World, x) = InForce(lists[x], objects)
  BY FieldIs DEF FieldInv, Sound, Worlds, Live, LiveOf
<1>2. ASSUME NEW i \in InForce(forces, objects), NEW x \in Afoot,
             objects[i].kind = "Reflect" => objects[i].side = Side[x]
      PROVE  Cardinality({k \in DOMAIN lists[x] : lists[x][k] = i}) = 1
  <2>1. i \in InForce(lists[x], objects)
    BY <1>1, <1>2 DEF Sound, Listed, Concerns
  <2>2. PICK k \in DOMAIN lists[x] : lists[x][k] = i
    BY <2>1 DEF InForce, ToSet
  <2>3. Distinct(lists[x])
    BY <1>1 DEF WellFormed
  <2>4. {n \in DOMAIN lists[x] : lists[x][n] = i} = {k}
    BY <2>2, <2>3 DEF Distinct
  <2> QED
    BY <2>4, FS_Singleton
<1>3. \A i \in DOMAIN objects :
          \/ objects[i].turns = -1
          \/ objects[i].gone /\ objects[i].turns > 0
          \/ objects[i].turns + objects[i].age = Duration
  BY <1>1 DEF Rested, Lasting
<1>4. \A x \in Afoot : InForce(lists[x], objects) \subseteq InForce(forces, objects)
  BY <1>1 DEF Sound, Listed
<1>5. {objects[i].kind : i \in InForce(forces, objects)} \ {"Reflect"} = {EFFECTS[g] : g \in flags}
  <2>1. \A i \in InForce(forces, objects) :
            objects[i].kind = "Reflect" \/ \E g \in flags : objects[i].kind = EFFECTS[g]
    BY <1>1 DEF Shown
  <2>2. \A g \in flags : \E i \in InForce(forces, objects) : objects[i].kind = EFFECTS[g]
    BY <1>1 DEF Shown
  <2>3. \A g \in flags : EFFECTS[g] # "Reflect"
    BY <1>1, KindsAre
  <2> QED
    BY <2>1, <2>2, <2>3
<1> QED
  BY <1>2, <1>3, <1>4, <1>5

-----------------------------------------------------------------------------
(* Modifiers.                                                              *)
Keys == Int \X Int
Answers == UNION {[D -> Seq(DOMAIN Modifier)] : D \in SUBSET Keys}
KeyOf(kind) == Modifier[kind].key
Holds(mods, kind) == KeyOf(kind) \in DOMAIN mods /\ mods[KeyOf(kind)] = <<kind>>
Clean(mods, about) ==
    \A key \in DOMAIN mods : \E kind \in DOMAIN Modifier :
        mods[key] = <<kind>> /\ KeyOf(kind) = key /\ Modifier[kind].about = about

(* No two modifiers of the same number have the same key.                  *)
LEMMA KeysDiffer ==
  /\ \A k \in DOMAIN Modifier : KeyOf(k) \in Keys
  /\ \A k, l \in DOMAIN Modifier : Modifier[k].about = Modifier[l].about /\ KeyOf(k) = KeyOf(l) => k = l
<1> DEFINE D == {"Compoundeyes", "BrightPowder", "SandVeil", "WideLens", "Gravity", "Burn",
                 "Reflect", "Rain", "Sun", "Sand", "SwiftSwim", "ChoiceScarf"}
<1>1. DOMAIN Modifier = D
  BY DEF Modifier
<1>2. /\ Modifier["Compoundeyes"] = Speaks("accuracy", "user", 2)
      /\ Modifier["BrightPowder"] = Speaks("accuracy", "target", 8)
      /\ Modifier["SandVeil"] = Speaks("accuracy", "target", 3)
      /\ Modifier["WideLens"] = Speaks("accuracy", "user", 9)
      /\ Modifier["Gravity"] = Speaks("accuracy", "anybody", 12)
      /\ Modifier["Burn"] = Speaks("damage", "user", 0)
      /\ Modifier["Reflect"] = Speaks("damage", "side", 1)
      /\ Modifier["Rain"] = Speaks("damage", "anybody", 3)
      /\ Modifier["Sun"] = Speaks("damage", "anybody", 4)
      /\ Modifier["Sand"] = Speaks("defence", "anybody", 3)
      /\ Modifier["SwiftSwim"] = Speaks("speed", "user", 1)
      /\ Modifier["ChoiceScarf"] = Speaks("speed", "user", 4)
  BY DEF Modifier
<1>3. \A about, whose, p : /\ Speaks(about, whose, p).about = about
                           /\ Speaks(about, whose, p).key = <<IF about = "damage" THEN 1 ELSE -1, p>>
  BY DEF Speaks
<1>4. /\ KeyOf("Compoundeyes") = <<-1, 2>> /\ KeyOf("BrightPowder") = <<-1, 8>>
      /\ KeyOf("SandVeil") = <<-1, 3>> /\ KeyOf("WideLens") = <<-1, 9>> /\ KeyOf("Gravity") = <<-1, 12>>
      /\ KeyOf("Burn") = <<1, 0>> /\ KeyOf("Reflect") = <<1, 1>> /\ KeyOf("Rain") = <<1, 3>>
      /\ KeyOf("Sun") = <<1, 4>> /\ KeyOf("Sand") = <<-1, 3>>
      /\ KeyOf("SwiftSwim") = <<-1, 1>> /\ KeyOf("ChoiceScarf") = <<-1, 4>>
  BY <1>2, <1>3 DEF KeyOf
<1>5. /\ \A k \in {"Compoundeyes", "BrightPowder", "SandVeil", "WideLens", "Gravity"} :
            Modifier[k].about = "accuracy"
      /\ \A k \in {"Burn", "Reflect", "Rain", "Sun"} : Modifier[k].about = "damage"
      /\ Modifier["Sand"].about = "defence"
      /\ \A k \in {"SwiftSwim", "ChoiceScarf"} : Modifier[k].about = "speed"
  BY <1>2, <1>3
<1>6. \A k \in D : KeyOf(k) \in Keys
  BY <1>4 DEF Keys
<1>7. \A k, l \in {"Compoundeyes", "BrightPowder", "SandVeil", "WideLens", "Gravity"} :
          KeyOf(k) = KeyOf(l) => k = l
  BY <1>4
<1>8. \A k, l \in {"Burn", "Reflect", "Rain", "Sun"} : KeyOf(k) = KeyOf(l) => k = l
  BY <1>4
<1>9. \A k, l \in {"SwiftSwim", "ChoiceScarf"} : KeyOf(k) = KeyOf(l) => k = l
  BY <1>4
<1>10. \A k, l \in D : Modifier[k].about = Modifier[l].about /\ KeyOf(k) = KeyOf(l) => k = l
  BY <1>5, <1>7, <1>8, <1>9
<1> QED
  BY <1>1, <1>6, <1>10

LEMMA PutIs ==
  ASSUME NEW mods \in Answers, NEW key \in Keys, NEW kind \in DOMAIN Modifier
  PROVE  /\ Put(mods, key, kind) \in Answers
         /\ DOMAIN Put(mods, key, kind) = DOMAIN mods \cup {key}
         /\ Put(mods, key, kind)[key] = <<kind>>
         /\ \A k \in DOMAIN mods \ {key} : Put(mods, key, kind)[k] = mods[k]
<1> DEFINE f == [k \in DOMAIN mods \cup {key} |-> IF k = key THEN <<kind>> ELSE mods[k]]
<1>1. Put(mods, key, kind) = f
  BY DEF Put
<1>2. DOMAIN mods \in SUBSET Keys /\ mods \in [DOMAIN mods -> Seq(DOMAIN Modifier)]
  BY DEF Answers
<1>3. f \in [DOMAIN mods \cup {key} -> Seq(DOMAIN Modifier)] /\ DOMAIN mods \cup {key} \in SUBSET Keys
  <2> DEFINE D == DOMAIN mods
             seq == <<kind>>
  <2>1. seq \in Seq(DOMAIN Modifier) /\ D \in SUBSET Keys /\ \A k \in D : mods[k] \in Seq(DOMAIN Modifier)
    BY <1>2
  <2> HIDE DEF D, seq
  <2>2. [k \in D \cup {key} |-> IF k = key THEN seq ELSE mods[k]] \in [D \cup {key} -> Seq(DOMAIN Modifier)]
    BY <2>1
  <2> QED
    BY <2>1, <2>2 DEF D, seq
<1>4. f \in Answers
  BY <1>3 DEF Answers
<1> QED
  BY <1>1, <1>4

LEMMA PutKeeps ==
  ASSUME NEW mods \in Answers, NEW kind \in DOMAIN Modifier, NEW about, Clean(mods, about),
         Modifier[kind].about = about
  PROVE  /\ Put(mods, KeyOf(kind), kind) \in Answers
         /\ Clean(Put(mods, KeyOf(kind), kind), about)
         /\ Holds(Put(mods, KeyOf(kind), kind), kind)
         /\ \A k \in DOMAIN Modifier :
                Modifier[k].about = about /\ Holds(mods, k) => Holds(Put(mods, KeyOf(kind), kind), k)
<1> DEFINE p == Put(mods, KeyOf(kind), kind)
<1>1. KeyOf(kind) \in Keys
  BY KeysDiffer
<1>2. /\ p \in Answers /\ DOMAIN p = DOMAIN mods \cup {KeyOf(kind)} /\ p[KeyOf(kind)] = <<kind>>
      /\ \A k \in DOMAIN mods \ {KeyOf(kind)} : p[k] = mods[k]
  BY <1>1, PutIs
<1> HIDE DEF p
<1>3. Clean(p, about)
  BY <1>2 DEF Clean
<1>4. Holds(p, kind)
  BY <1>2 DEF Holds
<1>5. ASSUME NEW k \in DOMAIN Modifier, Modifier[k].about = about, Holds(mods, k) PROVE Holds(p, k)
  <2>1. CASE k = kind
    BY <1>4, <2>1
  <2>2. CASE k # kind
    <3>1. KeyOf(k) # KeyOf(kind)
      BY <1>5, <2>2, KeysDiffer
    <3> QED
      BY <1>2, <1>5, <3>1 DEF Holds
  <2> QED
    BY <2>1, <2>2
<1> QED
  BY <1>2, <1>3, <1>4, <1>5 DEF p

(* Whoever is asked adds what it says, and hides nothing.                  *)
Adds(mods, more, about) ==
    \A k \in DOMAIN Modifier : Modifier[k].about = about /\ Holds(mods, k) => Holds(more, k)

LEMMA KindsOfIs ==
  ASSUME FieldInv, NEW x \in Afoot
  PROVE  /\ Len(KindsOf(x)) \in Nat /\ DOMAIN KindsOf(x) = 1 .. Len(KindsOf(x))
         /\ ToSet(KindsOf(x)) = ToSet(Own[x]) \cup {objects[i].kind : i \in InForce(lists[x], objects)}
<1> DEFINE on == Kept(lists[x], InForce(lists[x], objects))
           theirs == [k \in DOMAIN on |-> objects[on[k]].kind]
           S == STRING \cup FieldKinds \cup {"Reflect"}
           all == Own[x] \o theirs
<1>1. /\ World \in Worlds /\ World.lists = lists /\ World.made = objects /\ x \in Mon
      /\ ToSet(lists[x]) \subseteq DOMAIN objects /\ WellFormed(World)
  BY FieldIs DEF FieldInv, Sound, WellFormed, Worlds
<1>2. lists[x] \in Seq(Nat) /\ \A i \in DOMAIN objects : objects[i] \in Object
  BY <1>1, WorldIs
<1>3. on \in Seq(Nat) /\ ToSet(on) = InForce(lists[x], objects)
  BY <1>2, KeptIs DEF InForce
<1> HIDE DEF on
<1>4. DOMAIN on = 1 .. Len(on) /\ Len(on) \in Nat
  BY <1>3, LenProperties
<1>5. \A k \in DOMAIN on : on[k] \in DOMAIN objects /\ objects[on[k]].kind \in FieldKinds \cup {"Reflect"}
  <2> SUFFICES ASSUME NEW k \in DOMAIN on
               PROVE  on[k] \in DOMAIN objects /\ objects[on[k]].kind \in FieldKinds \cup {"Reflect"}
    OBVIOUS
  <2>1. on[k] \in ToSet(on)
    BY DEF ToSet
  <2>2. on[k] \in DOMAIN objects
    BY <1>1, <1>3, <2>1 DEF InForce
  <2> QED
    BY <1>2, <2>2, ObjectIs
<1>6. theirs \in Seq(S) /\ Len(theirs) = Len(on)
  <2> DEFINE n == Len(on)
  <2>1. n \in Nat /\ theirs = [k \in 1 .. n |-> objects[on[k]].kind]
    BY <1>4
  <2>2. \A k \in 1 .. n : objects[on[k]].kind \in S
    BY <1>4, <1>5
  <2> HIDE DEF n, theirs, S
  <2>3. theirs \in [1 .. n -> S]
    BY <2>1, <2>2
  <2>4. theirs \in Seq(S)
    BY <2>1, <2>3, SeqDef
  <2> QED
    BY <2>1, <2>3, <2>4, LenProperties DEF n
<1>7. Own[x] \in Seq(S)
  <2>1. Own[x] \in Seq(STRING)
    BY <1>1, ModifiersAssumption
  <2>2. Own[x] \in [1 .. Len(Own[x]) -> STRING] /\ Len(Own[x]) \in Nat
    BY <2>1, LenProperties
  <2>3. Own[x] \in [1 .. Len(Own[x]) -> S]
    BY <2>2
  <2> HIDE DEF S
  <2> QED
    BY <2>2, <2>3, SeqDef
<1>8. \A k \in DOMAIN on : theirs[k] = objects[on[k]].kind
  OBVIOUS
<1>9. DOMAIN theirs = DOMAIN on
  OBVIOUS
<1> HIDE DEF theirs, S
<1>10. /\ all \in Seq(S) /\ Len(all) = Len(Own[x]) + Len(theirs)
       /\ \A k \in 1 .. Len(Own[x]) + Len(theirs) :
            all[k] = IF k <= Len(Own[x]) THEN Own[x][k] ELSE theirs[k - Len(Own[x])]
  BY <1>6, <1>7, ConcatProperties
<1>11. /\ Len(all) \in Nat /\ DOMAIN all = 1 .. Len(all)
       /\ ToSet(all) = {all[k] : k \in 1 .. Len(all)}
  BY <1>10, SetOfList
<1>12. /\ Len(Own[x]) \in Nat /\ ToSet(Own[x]) = {Own[x][k] : k \in 1 .. Len(Own[x])}
  BY <1>7, SetOfList
<1>13. ToSet(theirs) = {theirs[k] : k \in 1 .. Len(theirs)} /\ DOMAIN theirs = 1 .. Len(theirs) /\ Len(theirs) \in Nat
  BY <1>6, SetOfList
<1>14. ToSet(theirs) = {objects[i].kind : i \in InForce(lists[x], objects)}
  <2>1. ToSet(theirs) = {objects[on[k]].kind : k \in DOMAIN on}
    BY <1>8, <1>9, <1>13
  <2>2. InForce(lists[x], objects) = {on[k] : k \in DOMAIN on}
    BY <1>3 DEF ToSet
  <2> QED
    BY <2>1, <2>2
<1>15. ToSet(all) = ToSet(Own[x]) \cup ToSet(theirs)
  <2> DEFINE a == Own[x]
             n == Len(a)
             m == Len(theirs)
  <2>1. /\ n \in Nat /\ m \in Nat /\ ToSet(a) = {a[k] : k \in 1 .. n}
        /\ ToSet(theirs) = {theirs[k] : k \in 1 .. m} /\ ToSet(all) = {all[k] : k \in 1 .. n + m}
        /\ \A k \in 1 .. n + m : all[k] = IF k <= n THEN a[k] ELSE theirs[k - n]
    BY <1>10, <1>11, <1>12, <1>13
  <2> HIDE DEF a, n, m, all
  <2>2. \A k \in 1 .. n : k \in 1 .. n + m /\ all[k] = a[k]
    BY <2>1
  <2>3. \A k \in 1 .. m : n + k \in 1 .. n + m /\ all[n + k] = theirs[k]
    BY <2>1
  <2>4. \A k \in 1 .. n + m : (k \in 1 .. n /\ all[k] = a[k]) \/ (k - n \in 1 .. m /\ all[k] = theirs[k - n])
    BY <2>1
  <2>5. ToSet(all) \subseteq ToSet(a) \cup ToSet(theirs)
    <3> SUFFICES ASSUME NEW k \in 1 .. n + m PROVE all[k] \in ToSet(a) \cup ToSet(theirs)
      BY <2>1
    <3> QED
      BY <2>1, <2>4
  <2>6. ToSet(a) \subseteq ToSet(all) /\ ToSet(theirs) \subseteq ToSet(all)
    BY <2>1, <2>2, <2>3
  <2> QED
    BY <2>5, <2>6 DEF a
<1>16. KindsOf(x) = all
  BY DEF KindsOf, on, theirs
<1> HIDE DEF all
<1> QED
  BY <1>11, <1>14, <1>15, <1>16

LEMMA AskedOfIs ==
  ASSUME FieldInv, NEW x \in Afoot, NEW what, NEW mods \in Answers
  PROVE  /\ AskedOf(x, what, mods) \in Answers
         /\ Clean(mods, what.about) => Clean(AskedOf(x, what, mods), what.about)
         /\ Clean(mods, what.about) => Adds(mods, AskedOf(x, what, mods), what.about)
         /\ Clean(mods, what.about) =>
                \A k \in ToSet(KindsOf(x)) : Says(k, x, what) => Holds(AskedOf(x, what, mods), k)
<1> DEFINE list == KindsOf(x)
           n == Len(list)
           V == Answers
           about == what.about
           Step(m, kind) == IF Says(kind, x, what) THEN Put(m, Modifier[kind].key, kind) ELSE m
           F == [v \in V |-> [k \in 1 .. n |-> Step(v, list[k])]]
           Stage(g, s) == IF s = {} THEN mods ELSE Step(g[s \ {Max(s)}], list[Max(s)])
           iter == CHOOSE g : g = [s \in SUBSET (1 .. n) |-> Stage(g, s)]
<1>1. n \in Nat /\ DOMAIN list = 1 .. n
  BY KindsOfIs
<1>2. ToSet(list) = {list[k] : k \in 1 .. n}
  BY <1>1 DEF ToSet
<1>3. ASSUME NEW v \in V, NEW k \in 1 .. n PROVE Step(v, list[k]) \in V
  <2> DEFINE kind == list[k]
  <2>1. CASE Says(kind, x, what)
    <3>1. kind \in DOMAIN Modifier
      BY <2>1 DEF Says
    <3> HIDE DEF kind
    <3>2. Put(v, KeyOf(kind), kind) \in V
      BY <3>1, KeysDiffer, PutIs
    <3> QED
      BY <2>1, <3>2 DEF KeyOf, kind
  <2>2. CASE ~Says(kind, x, what)
    BY <2>2
  <2> QED
    BY <2>1, <2>2
<1>4. AskedOf(x, what, mods) = iter[1 .. n]
  <2>1. AskedOf(x, what, mods) = FoldLeft(Step, mods, list)
    BY DEF AskedOf
  <2> HIDE DEF n, list, Step
  <2> QED
    BY <1>1, <2>1 DEF FoldLeft, MapThenFoldSet
<1> HIDE DEF Step, list
<1>5. F \in [V -> [1 .. n -> V]]
  BY <1>3
<1>6. \E g : g = [s \in SUBSET (1 .. n) |-> Stage(g, s)]
  <2> HIDE DEF V, F, n
  <2>0. mods \in V
    BY DEF V
  <2>1. PICK g : FoldsTo(g, 1 .. n, V, mods, F)
    BY <1>1, <1>5, <2>0, FoldExists
  <2>2. ASSUME NEW s \in SUBSET (1 .. n) PROVE g[s] = Stage(g, s)
    <3>1. s # {} => g[s \ {Max(s)}] \in V /\ Max(s) \in 1 .. n
      BY <1>1, <2>1, MaxOf DEF FoldsTo
    <3>2. s # {} => FoldedFrom(g, mods, F, s) = Step(g[s \ {Max(s)}], list[Max(s)])
      BY <3>1 DEF FoldedFrom, F
    <3> QED
      BY <2>1, <3>2 DEF FoldedFrom, FoldsTo
  <2> HIDE DEF Stage
  <2> QED
    BY <2>1, <2>2 DEF FoldsTo
<1>7. iter = [s \in SUBSET (1 .. n) |-> Stage(iter, s)]
  <2> HIDE DEF Stage, n
  <2> QED
    BY <1>6
<1> HIDE DEF iter, F
<1> DEFINE Said(v, s) == \A k \in s : Says(list[k], x, what) => Holds(v, list[k])
           Fine(v, s) == /\ v \in V
                         /\ Clean(mods, about) => Clean(v, about) /\ Adds(mods, v, about) /\ Said(v, s)
           Good == {s \in SUBSET (1 .. n) : Fine(iter[s], s)}
<1>8. {} \in Good
  <2>1. iter[{}] = mods
    BY <1>7
  <2>2. Fine(mods, {})
    BY DEF Adds
  <2> QED
    BY <2>1, <2>2
<1>9. ASSUME NEW s \in SUBSET (1 .. n), s # {}, s \ {Max(s)} \in Good
      PROVE  s \in Good
  <2> DEFINE m == Max(s)
             r == s \ {m}
             v == iter[r]
             u == iter[s]
             kind == list[m]
  <2>1. m \in s /\ m \in 1 .. n /\ s = r \cup {m}
    BY <1>1, <1>9, MaxOf
  <2>2. Fine(v, r)
    BY <1>9
  <2>3. u = Step(v, kind)
    BY <1>7, <1>9
  <2> HIDE DEF m, r, v, u
  <2>4. ASSUME ~Says(kind, x, what) PROVE Fine(u, s)
    <3>1. u = v
      BY <2>3, <2>4 DEF Step
    <3>2. Said(v, r) => Said(v, s)
      BY <2>1, <2>4
    <3> QED
      BY <2>2, <3>1, <3>2
  <2>5. ASSUME Says(kind, x, what) PROVE Fine(u, s)
    <3>1. u = Put(v, KeyOf(kind), kind)
      BY <2>3, <2>5 DEF Step, KeyOf
    <3>2. kind \in DOMAIN Modifier /\ Modifier[kind].about = about
      BY <2>5 DEF Says
    <3>3. v \in V
      BY <2>2
    <3>4. \A k \in 1 .. n : Says(list[k], x, what) =>
              list[k] \in DOMAIN Modifier /\ Modifier[list[k]].about = about
      BY DEF Says
    <3>5. kind = list[m]
      OBVIOUS
    <3> HIDE DEF kind, V, about
    <3>6. u \in V
      BY <3>1, <3>2, <3>3, KeysDiffer, PutIs DEF V
    <3>7. ASSUME Clean(mods, about) PROVE Clean(u, about) /\ Adds(mods, u, about) /\ Said(u, s)
      <4>1. Clean(v, about) /\ Adds(mods, v, about) /\ Said(v, r)
        BY <2>2, <3>7
      <4>2. Clean(u, about) /\ Holds(u, kind)
        BY <3>1, <3>2, <3>3, <4>1, PutKeeps DEF V
      <4>3. Adds(v, u, about)
        BY <3>1, <3>2, <3>3, <4>1, PutKeeps DEF V, Adds
      <4>4. Adds(mods, u, about)
        BY <4>1, <4>3 DEF Adds
      <4>5. Said(u, s)
        <5> SUFFICES ASSUME NEW k \in s, Says(list[k], x, what) PROVE Holds(u, list[k])
          OBVIOUS
        <5>1. CASE k = m
          BY <3>5, <4>2, <5>1
        <5>2. CASE k # m
          <6>1. k \in r /\ k \in 1 .. n
            BY <2>1, <5>2
          <6>2. Holds(v, list[k]) /\ list[k] \in DOMAIN Modifier /\ Modifier[list[k]].about = about
            BY <3>4, <4>1, <6>1
          <6> QED
            BY <4>3, <6>2 DEF Adds
        <5> QED
          BY <5>1, <5>2
      <4> QED
        BY <4>2, <4>4, <4>5
    <3> QED
      BY <3>6, <3>7
  <2>6. Fine(u, s)
    BY <2>4, <2>5
  <2> HIDE DEF Fine
  <2> QED
    BY <1>9, <2>6 DEF u
<1>10. 1 .. n \in Good
  <2> HIDE DEF Good, n
  <2> QED
    BY <1>1, <1>8, <1>9, FoldInduction
<1>11. Fine(AskedOf(x, what, mods), 1 .. n)
  BY <1>4, <1>10
<1>12. ASSUME Said(AskedOf(x, what, mods), 1 .. n), NEW k \in ToSet(KindsOf(x)), Says(k, x, what)
       PROVE  Holds(AskedOf(x, what, mods), k)
  <2>1. PICK j \in 1 .. n : k = list[j]
    BY <1>2 DEF list
  <2> QED
    BY <1>12, <2>1
<1> HIDE DEF Said
<1> QED
  BY <1>11, <1>12

LEMMA GetModifiersIs ==
  ASSUME FieldInv, NEW what
  PROVE  /\ GetModifiers(what) \in Answers /\ Clean(GetModifiers(what), what.about)
         /\ \A x \in Afoot : \A k \in ToSet(KindsOf(x)) : Says(k, x, what) => Holds(GetModifiers(what), k)
<1> DEFINE list == slots[0] \o slots[1]
           n == Len(list)
           V == Answers
           about == what.about
           base == <<>>
           Step(m, x) == IF x \in Afoot THEN AskedOf(x, what, m) ELSE m
           F == [v \in V |-> [k \in 1 .. n |-> Step(v, list[k])]]
           Stage(g, s) == IF s = {} THEN base ELSE Step(g[s \ {Max(s)}], list[Max(s)])
           iter == CHOOSE g : g = [s \in SUBSET (1 .. n) |-> Stage(g, s)]
<1>1. n \in Nat /\ DOMAIN list = 1 .. n /\ \A x \in Afoot : \E k \in 1 .. n : list[k] = x
  <2> DEFINE a == slots[0]
             b == slots[1]
             p == Len(a)
             q == Len(b)
  <2>1. a \in Seq(Mon \cup {Vacant}) /\ b \in Seq(Mon \cup {Vacant})
    BY DEF FieldInv, SlotsOK
  <2>2. /\ p \in Nat /\ q \in Nat /\ ToSet(a) = {a[k] : k \in 1 .. p} /\ ToSet(b) = {b[k] : k \in 1 .. q}
    BY <2>1, SetOfList
  <2>3. /\ list \in Seq(Mon \cup {Vacant}) /\ n = p + q
        /\ \A k \in 1 .. p + q : list[k] = IF k <= p THEN a[k] ELSE b[k - p]
    BY <2>1, ConcatProperties
  <2>4. n \in Nat /\ DOMAIN list = 1 .. n
    BY <2>3, LenProperties
  <2>5. \A x \in Afoot : x \in ToSet(a) \cup ToSet(b)
    BY FieldIs DEF PlacedIn
  <2> HIDE DEF a, b, p, q, list
  <2>6. \A k \in 1 .. p : k \in 1 .. n /\ list[k] = a[k]
    BY <2>2, <2>3
  <2>7. \A k \in 1 .. q : p + k \in 1 .. n /\ list[p + k] = b[k]
    BY <2>2, <2>3
  <2>8. ASSUME NEW x \in Afoot PROVE \E k \in 1 .. n : list[k] = x
    <3>1. CASE x \in ToSet(a)
      BY <2>2, <2>6, <3>1
    <3>2. CASE x \in ToSet(b)
      BY <2>2, <2>7, <3>2
    <3> QED
      BY <2>5, <3>1, <3>2
  <2> QED
    BY <2>4, <2>8
<1>2. ASSUME NEW v \in V, NEW k \in 1 .. n PROVE Step(v, list[k]) \in V
  BY AskedOfIs
<1>3. GetModifiers(what) = iter[1 .. n]
  <2>1. GetModifiers(what) = FoldLeft(Step, base, list)
    BY DEF GetModifiers
  <2> HIDE DEF n, list, Step, base
  <2> QED
    BY <1>1, <2>1 DEF FoldLeft, MapThenFoldSet
<1> HIDE DEF Step, list
<1>4. F \in [V -> [1 .. n -> V]]
  BY <1>2
<1>5. base \in V /\ DOMAIN base = {}
  <2>1. DOMAIN base = {} /\ base \in [{} -> Seq(DOMAIN Modifier)]
    <3>1. base \in Seq(Seq(DOMAIN Modifier)) /\ Len(base) = 0
      BY EmptySeq
    <3>2. base \in [1 .. 0 -> Seq(DOMAIN Modifier)]
      BY <3>1, LenProperties
    <3> HIDE DEF base
    <3> QED
      BY <3>2
  <2> QED
    BY <2>1 DEF Answers
<1> HIDE DEF base
<1>6. \E g : g = [s \in SUBSET (1 .. n) |-> Stage(g, s)]
  <2> HIDE DEF V, F, n
  <2>1. PICK g : FoldsTo(g, 1 .. n, V, base, F)
    BY <1>1, <1>4, <1>5, FoldExists
  <2>2. ASSUME NEW s \in SUBSET (1 .. n) PROVE g[s] = Stage(g, s)
    <3>1. s # {} => g[s \ {Max(s)}] \in V /\ Max(s) \in 1 .. n
      BY <1>1, <2>1, MaxOf DEF FoldsTo
    <3>2. s # {} => FoldedFrom(g, base, F, s) = Step(g[s \ {Max(s)}], list[Max(s)])
      BY <3>1 DEF FoldedFrom, F
    <3> QED
      BY <2>1, <3>2 DEF FoldedFrom, FoldsTo
  <2> HIDE DEF Stage
  <2> QED
    BY <2>1, <2>2 DEF FoldsTo
<1>7. iter = [s \in SUBSET (1 .. n) |-> Stage(iter, s)]
  <2> HIDE DEF Stage, n
  <2> QED
    BY <1>6
<1> HIDE DEF iter, F
<1> DEFINE Told(v, x) == \A k \in ToSet(KindsOf(x)) : Says(k, x, what) => Holds(v, k)
           Fine(v, s) == /\ v \in V /\ Clean(v, about)
                         /\ \A j \in s : list[j] \in Afoot => Told(v, list[j])
           Good == {s \in SUBSET (1 .. n) : Fine(iter[s], s)}
<1>8. {} \in Good
  <2>1. iter[{}] = base
    BY <1>7
  <2>2. Fine(base, {})
    BY <1>5 DEF Clean
  <2> QED
    BY <2>1, <2>2
<1>9. ASSUME NEW s \in SUBSET (1 .. n), s # {}, s \ {Max(s)} \in Good
      PROVE  s \in Good
  <2> DEFINE m == Max(s)
             r == s \ {m}
             v == iter[r]
             u == iter[s]
             x == list[m]
  <2>1. m \in s /\ m \in 1 .. n /\ s = r \cup {m}
    BY <1>1, <1>9, MaxOf
  <2>2. Fine(v, r)
    BY <1>9
  <2>3. u = Step(v, x)
    BY <1>7, <1>9
  <2> HIDE DEF m, r, v, u
  <2>4. ASSUME x \notin Afoot PROVE Fine(u, s)
    <3>1. u = v
      BY <2>3, <2>4 DEF Step
    <3>2. \A j \in s : list[j] \in Afoot => j \in r
      BY <2>1, <2>4
    <3> HIDE DEF Told
    <3> QED
      BY <2>2, <3>1, <3>2
  <2>5. ASSUME x \in Afoot PROVE Fine(u, s)
    <3>1. u = AskedOf(x, what, v)
      BY <2>3, <2>5 DEF Step
    <3>2. v \in Answers /\ Clean(v, about) /\ \A j \in r : list[j] \in Afoot => Told(v, list[j])
      BY <2>2
    <3>3. x = list[m]
      OBVIOUS
    <3> HIDE DEF x
    <3>4. u \in Answers /\ Clean(u, about) /\ Adds(v, u, about) /\ Told(u, x)
      BY <2>5, <3>1, <3>2, AskedOfIs
    <3>5. ASSUME NEW y, Told(v, y) PROVE Told(u, y)
      <4> SUFFICES ASSUME NEW k \in ToSet(KindsOf(y)), Says(k, y, what) PROVE Holds(u, k)
        OBVIOUS
      <4>1. Holds(v, k) /\ k \in DOMAIN Modifier /\ Modifier[k].about = about
        BY <3>5 DEF Says
      <4> QED
        BY <3>4, <4>1 DEF Adds
    <3> HIDE DEF Told
    <3>6. \A j \in s : list[j] \in Afoot => Told(u, list[j])
      BY <2>1, <3>2, <3>3, <3>4, <3>5
    <3> QED
      BY <3>4, <3>6
  <2>6. Fine(u, s)
    BY <2>4, <2>5
  <2> HIDE DEF Fine
  <2> QED
    BY <1>9, <2>6 DEF u
<1>10. 1 .. n \in Good
  <2> HIDE DEF Good, n
  <2> QED
    BY <1>1, <1>8, <1>9, FoldInduction
<1>11. Fine(GetModifiers(what), 1 .. n)
  BY <1>3, <1>10
<1>12. ASSUME NEW x \in Afoot PROVE Told(GetModifiers(what), x)
  <2>1. PICK j \in 1 .. n : list[j] = x
    BY <1>1
  <2> HIDE DEF Told
  <2> QED
    BY <1>11, <2>1
<1> QED
  BY <1>11, <1>12

LEMMA AllCount ==
  ASSUME FieldInv
  PROVE  CountsOnce
<1> SUFFICES ASSUME NEW what,
                    NEW kind \in Bears(what) \cup UNION {ToSet(GetModifiers(what)[k]) : k \in DOMAIN GetModifiers(what)}
             PROVE  Cardinality({at \in (DOMAIN GetModifiers(what)) \X (1 .. 9) :
                        at[2] \in DOMAIN GetModifiers(what)[at[1]] /\ GetModifiers(what)[at[1]][at[2]] = kind}) = 1
  BY DEF CountsOnce
<1> DEFINE mods == GetModifiers(what)
<1>1. /\ mods \in Answers /\ Clean(mods, what.about)
      /\ \A x \in Afoot : \A k \in ToSet(KindsOf(x)) : Says(k, x, what) => Holds(mods, k)
  BY GetModifiersIs
<1> HIDE DEF mods
<1>2. ASSUME NEW k \in DOMAIN mods
      PROVE  \E l \in DOMAIN Modifier : mods[k] = <<l>> /\ KeyOf(l) = k /\ Holds(mods, l)
  BY <1>1 DEF Clean, Holds
<1>3. ASSUME kind \in Bears(what) PROVE Holds(mods, kind)
  <2>1. CASE \E x \in Afoot : kind \in ToSet(Own[x]) /\ Says(kind, x, what)
    <3>1. PICK x \in Afoot : kind \in ToSet(Own[x]) /\ Says(kind, x, what)
      BY <2>1
    <3>2. kind \in ToSet(KindsOf(x))
      BY <3>1, KindsOfIs
    <3> QED
      BY <1>1, <3>1, <3>2
  <2>2. CASE \E i \in InForce(forces, objects) : /\ kind = objects[i].kind
                /\ \E x \in Afoot : /\ objects[i].kind = "Reflect" => objects[i].side = Side[x]
                                    /\ Says(objects[i].kind, x, what)
    <3>1. PICK i \in InForce(forces, objects), x \in Afoot :
              /\ kind = objects[i].kind /\ Says(kind, x, what)
              /\ objects[i].kind = "Reflect" => objects[i].side = Side[x]
      BY <2>2
    <3>2. /\ Sound(World, flags, Idle) /\ World.on = Afoot /\ World.made = objects
          /\ World.forces = forces /\ World.lists = lists
      BY FieldIs DEF FieldInv
    <3>3. i \in InForce(lists[x], objects)
      BY <3>1, <3>2 DEF Sound, Listed, Concerns, Live, LiveOf
    <3>4. kind \in ToSet(KindsOf(x))
      BY <3>1, <3>3, KindsOfIs
    <3> QED
      BY <1>1, <3>1, <3>4
  <2> QED
    BY <1>3, <2>1, <2>2 DEF Bears
<1>4. kind \in Bears(what) \/ \E k \in DOMAIN mods : kind \in ToSet(mods[k])
  BY DEF mods
<1>5. Holds(mods, kind)
  <2>1. ASSUME NEW k \in DOMAIN mods, kind \in ToSet(mods[k]) PROVE Holds(mods, kind)
    <3>1. PICK l \in DOMAIN Modifier : mods[k] = <<l>> /\ Holds(mods, l)
      BY <1>2
    <3>2. ToSet(<<l>>) = {l}
      BY DEF ToSet
    <3> QED
      BY <2>1, <3>1, <3>2
  <2> QED
    BY <1>3, <1>4, <2>1
<1>6. {at \in (DOMAIN mods) \X (1 .. 9) : at[2] \in DOMAIN mods[at[1]] /\ mods[at[1]][at[2]] = kind}
            = {<<KeyOf(kind), 1>>}
  <2>1. ASSUME NEW k \in DOMAIN mods, NEW p \in 1 .. 9, p \in DOMAIN mods[k], mods[k][p] = kind
        PROVE  k = KeyOf(kind) /\ p = 1
    <3>1. PICK l \in DOMAIN Modifier : mods[k] = <<l>> /\ KeyOf(l) = k
      BY <1>2
    <3>2. DOMAIN <<l>> = {1} /\ <<l>>[1] = l
      OBVIOUS
    <3> QED
      BY <2>1, <3>1, <3>2
  <2>2. KeyOf(kind) \in DOMAIN mods /\ 1 \in 1 .. 9 /\ 1 \in DOMAIN mods[KeyOf(kind)] /\ mods[KeyOf(kind)][1] = kind
    <3>1. DOMAIN <<kind>> = {1} /\ <<kind>>[1] = kind
      OBVIOUS
    <3> QED
      BY <1>5, <3>1 DEF Holds
  <2> DEFINE key == KeyOf(kind)
  <2> HIDE DEF key
  <2>3. {at \in (DOMAIN mods) \X (1 .. 9) : at[2] \in DOMAIN mods[at[1]] /\ mods[at[1]][at[2]] = kind}
            = {<<key, 1>>}
    BY <2>1, <2>2 DEF key
  <2> QED
    BY <2>3 DEF key
<1>7. Cardinality({<<KeyOf(kind), 1>>}) = 1
  BY FS_Singleton
<1> QED
  BY <1>6, <1>7 DEF mods

(* An effect that is in many lists is one effect: it lasts its turns and,  *)
(* while it does, counts once.                                             *)
THEOREM OneOfManyHolds == ModifiersSpec => []OneOfMany
<1>1. FieldInv => OneOfMany
  BY TurnsLast, AllCount DEF OneOfMany
<1> QED
  BY <1>1, FieldEffectsInvariant, PTL
=============================================================================
