------------------------- MODULE BattleTurnsProofs -------------------------
(***************************************************************************)
(* Theorems about BattleTurns, for every party size and every team size:   *)
(* its type invariant; that a suspended turn always gets a usable Pokemon  *)
(* from the player it asked; that requests, answers and the posted turn    *)
(* fit the field, and accepted switches can be carried out; and that it    *)
(* implements TurnRounds.                                                  *)
(***************************************************************************)
EXTENDS BattleTurns, FiniteSetTheorems, SequenceTheorems, FunctionTheorems, TLAPS

-----------------------------------------------------------------------------
(* Nobody is asked and nobody has answered.                                *)
Quiet == \A p \in Party : requests[p] = <<>> /\ turns[p] = <<>>

(* What holds between the lists, the queue and the stage of the queue      *)
(* thread, whatever the field looks like: a posted turn is the only one,   *)
(* nobody is asked while a turn runs, and while it is suspended only for   *)
(* the Pokemon it waits for.                                               *)
RoundInv ==
    /\ queue # <<>> => stage = "idle" /\ Len(queue) = 1 /\ Quiet
    /\ stage \notin {"idle", "select"} => Quiet
    /\ stage = "select" =>
            /\ user \in Action
            /\ selection # NoSelection
            /\ \A p \in Party : turns[p] = <<>>
            /\ ~waiting => Quiet
    /\ waiting => replacement
    /\ \A p \in Party : Len(turns[p]) <= Len(requests[p])

IInv == TypeOK /\ RoundInv /\ SelectionIsUsable

-----------------------------------------------------------------------------
(* Sets of slots.                                                          *)

(* Teams and slots are sets of natural numbers, and NoMon is none.         *)
LEMMA ConstantTypes ==
    /\ PartySize \in Nat \ {0}
    /\ 0 \in Party /\ 1 \in Party
    /\ \A p \in Party : 1 - p \in Party /\ p # 1 - p
    /\ \A p \in Party : TeamSize[p] \in Nat \ {0} /\ Mon(p) \subseteq Nat
    /\ Slot \subseteq Nat
    /\ NoMon \notin Nat
BY SizesAssumption DEF Party, Mon, Slot, NoMon

(* Every set of slots is finite, so that its size is a number.             *)
LEMMA SlotSets ==
    ASSUME NEW S \in SUBSET Slot
    PROVE  IsFiniteSet(S) /\ Cardinality(S) \in Nat
<1>1. IsFiniteSet(Slot)
  BY SizesAssumption, FS_Interval DEF Slot
<1>. QED  BY <1>1, FS_Subset, FS_CardinalityType

(* The visit in increasing order meets every slot of the set: the number   *)
(* of smaller ones is a bijection from the set to 0 .. size - 1.           *)
LEMMA EveryRankIsTaken ==
    ASSUME NEW S \in SUBSET Slot, NEW i \in 1 .. Cardinality(S)
    PROVE  \E s \in S : Cardinality({t \in S : t < s}) = i - 1
<1>. DEFINE n == Cardinality(S)
            rank == [s \in S |-> Cardinality({t \in S : t < s})]
<1>1. IsFiniteSet(S) /\ n \in Nat
  BY SlotSets
<1>2. ASSUME NEW s \in S
      PROVE  rank[s] \in 0 .. n - 1
  <2>1. IsFiniteSet(S \ {s}) /\ Cardinality(S \ {s}) = n - 1
    BY <1>1, FS_RemoveElement
  <2>2. {t \in S : t < s} \in SUBSET (S \ {s})
    BY ConstantTypes
  <2>3. Cardinality({t \in S : t < s}) <= n - 1
    BY <2>1, <2>2, FS_Subset
  <2>4. Cardinality({t \in S : t < s}) \in Nat
    BY SlotSets
  <2>. QED  BY <1>1, <2>3, <2>4
<1>3. ASSUME NEW s \in S, NEW u \in S, s < u
      PROVE  rank[s] < rank[u]
  <2>. DEFINE below == {t \in S : t < s}
  <2>1. IsFiniteSet(below) /\ Cardinality(below) \in Nat /\ s \notin below
    BY SlotSets, ConstantTypes
  <2>2. IsFiniteSet(below \cup {s})
        /\ Cardinality(below \cup {s}) = Cardinality(below) + 1
    BY <2>1, FS_AddElement
  <2>. \A t \in S : t \in Nat
    BY ConstantTypes
  <2>3. below \cup {s} \in SUBSET {t \in S : t < u}
    BY <1>3
  <2>4. IsFiniteSet({t \in S : t < u}) /\ Cardinality({t \in S : t < u}) \in Nat
    BY SlotSets
  <2>5. Cardinality(below \cup {s}) <= Cardinality({t \in S : t < u})
    BY <2>3, <2>4, FS_Subset
  <2>. QED  BY <2>1, <2>2, <2>4, <2>5
<1>4. rank \in [S -> 0 .. n - 1]
  BY <1>2
<1>5. ASSUME NEW s \in S, NEW u \in S, rank[s] = rank[u]
      PROVE  s = u
  <2>1. s \in Nat /\ u \in Nat /\ rank[s] \in Nat
    BY <1>1, <1>2, ConstantTypes
  <2>. QED  BY <1>3, <1>5, <2>1
<1>6. rank \in Injection(S, 0 .. n - 1)
  BY <1>4, <1>5, Fun_IsInj
<1>7. IsFiniteSet(0 .. n - 1) /\ Cardinality(0 .. n - 1) = n
  <2>. HIDE DEF n
  <2>1. n - 1 \in Int /\ (0 > n - 1 => n = 0)
    BY <1>1
  <2>2. IsFiniteSet(0 .. n - 1)
        /\ Cardinality(0 .. n - 1) = IF 0 > n - 1 THEN 0 ELSE n - 1 - 0 + 1
    BY <2>1, FS_Interval
  <2>. QED  BY <1>1, <2>1, <2>2
<1>8. rank \in Surjection(S, 0 .. n - 1)
  BY <1>6, <1>7, FS_Injection
<1>9. i - 1 \in 0 .. n - 1
  BY <1>1
<1>10. PICK s \in S : rank[s] = i - 1
  <2>. HIDE DEF n, rank
  <2>. QED  BY <1>8, <1>9 DEF Surjection
<1>. QED  BY <1>10

(* Visiting a set of slots in order (the loops of getActivePokemon and     *)
(* getFaintedPokemon) yields as many slots as the set has.                 *)
LEMMA SlotOrderType ==
    ASSUME NEW S \in SUBSET Slot
    PROVE  /\ InSlotOrder(S) \in Seq(S)
           /\ InSlotOrder(S) \in Seq(Slot)
           /\ Len(InSlotOrder(S)) = Cardinality(S)
<1>. DEFINE n == Cardinality(S)
            nth(i) == CHOOSE s \in S : Cardinality({t \in S : t < s}) = i - 1
<1>1. n \in Nat
  BY SlotSets
<1>2. \A i \in 1 .. n : nth(i) \in S
  BY EveryRankIsTaken
<1>3. InSlotOrder(S) = [i \in 1 .. n |-> nth(i)]
  BY DEF InSlotOrder
<1>. HIDE DEF nth
<1>4. [i \in 1 .. n |-> nth(i)] \in [1 .. n -> S]
  BY <1>2
<1>5. InSlotOrder(S) \in Seq(S) /\ Len(InSlotOrder(S)) = Cardinality(S)
  BY <1>1, <1>3, <1>4
<1>6. InSlotOrder(S) \in Seq(Slot)
  BY <1>5, SeqMonotonic
<1>. QED  BY <1>5, <1>6

-----------------------------------------------------------------------------
(* Types of the parts of actions.                                          *)

(* withdrawPokemon and sendOutPokemon leave a Pokemon or nobody in each    *)
(* slot.                                                                   *)
LEMMA ReplaceType ==
    ASSUME TypeOK, NEW p \in Party, NEW m, NEW r \in Nat, Replace(p, m, r)
    PROVE  active' \in [Party -> [Slot -> Nat \cup {NoMon}]]
BY DEF TypeOK, Replace

(* Fainting adds members of the teams only.                                *)
LEMMA FaintType ==
    ASSUME TypeOK, active' \in [Party -> [Slot -> Nat \cup {NoMon}]], SomeFaint
    PROVE  fainted' \in [Party -> SUBSET Nat]
<1>1. \A p \in Party : OnField(p) \subseteq Nat /\ OnField(p)' \subseteq Nat
  BY DEF TypeOK, OnField
<1>2. PICK f0 \in SUBSET (OnField(0) \cup OnField(0)'),
           f1 \in SUBSET (OnField(1) \cup OnField(1)') :
        fainted' = [p \in Party |-> fainted[p] \cup (IF p = 0 THEN f0 ELSE f1)]
  BY DEF SomeFaint
<1>3. f0 \subseteq Nat /\ f1 \subseteq Nat
  BY <1>1, <1>2, ConstantTypes
<1>. QED  BY <1>2, <1>3 DEF TypeOK

(* The bench (getLegalSwitches) holds Pokemon.                             *)
LEMMA ReserveType ==
    ASSUME NEW p \in Party
    PROVE  Reserve(p) \subseteq Nat
BY ConstantTypes DEF Reserve, Alive

(* requestMoves and requestReplacements ask about slots.                   *)
LEMMA AskNextType ==
    ASSUME TypeOK, AskNext
    PROVE  /\ requests' \in [Party -> Seq(Slot)]
           /\ replacement' \in BOOLEAN
           /\ \A p \in Party : Len(requests[p]) <= Len(requests'[p])
<1>1. CASE victory
  BY <1>1 DEF AskNext, TypeOK
<1>2. CASE ~victory
  <2>. DEFINE S(p) == IF replacement' THEN ToReplace(p)' ELSE ActiveSlots(p)'
  <2>1. \A p \in Party : S(p) \in SUBSET Slot
    BY DEF ToReplace, FaintedSlots, ActiveSlots
  <2>2. /\ replacement' \in BOOLEAN
        /\ requests' = [p \in Party |-> requests[p] \o InSlotOrder(S(p))]
    BY <1>2 DEF AskNext
  <2>. HIDE DEF S
  <2>3. \A p \in Party : InSlotOrder(S(p)) \in Seq(Slot)
    BY <2>1, SlotOrderType
  <2>4. ASSUME NEW p \in Party
        PROVE  /\ requests[p] \o InSlotOrder(S(p)) \in Seq(Slot)
               /\ Len(requests[p]) <= Len(requests[p] \o InSlotOrder(S(p)))
    <3>1. requests[p] \in Seq(Slot) /\ InSlotOrder(S(p)) \in Seq(Slot)
      BY <2>3 DEF TypeOK
    <3>. QED  BY <3>1, ConcatProperties, LenProperties
  <2>. QED  BY <2>2, <2>4
<1>. QED  BY <1>1, <1>2

-----------------------------------------------------------------------------
(* The battle begins with the invariant (beginBattle).                     *)
LEMMA InitInv == Init => IInv
<1>. SUFFICES ASSUME Init PROVE IInv
  OBVIOUS
<1>1. \A p \in Party : InSlotOrder(ActiveSlots(p)) \in Seq(Slot)
  BY SlotOrderType DEF ActiveSlots
<1>2. TypeOK
  <2>1. active \in [Party -> [Slot -> Nat \cup {NoMon}]]
    BY ConstantTypes DEF Init
  <2>2. fainted \in [Party -> SUBSET Nat] /\ requests \in [Party -> Seq(Slot)]
    BY <1>1 DEF Init
  <2>3. turns \in [Party -> Seq(Turn)] /\ queue \in Seq(Seq(Turn))
    BY DEF Init
  <2>. QED  BY <2>1, <2>2, <2>3 DEF Init, TypeOK, Stage
<1>3. RoundInv
  <2>1. \A p \in Party : Len(turns[p]) = 0 /\ Len(requests[p]) \in Nat
    BY <1>2 DEF Init, TypeOK
  <2>. QED  BY <2>1 DEF Init, RoundInv
<1>4. SelectionIsUsable
  BY DEF Init, SelectionIsUsable
<1>. QED  BY <1>2, <1>3, <1>4 DEF IInv

-----------------------------------------------------------------------------
(* Collecting turns.                                                       *)

(* handleTurn keeps the invariant: an answer stays within the requests of  *)
(* its party, and one that ends a selection comes from the bench.          *)
LEMMA HandleTurnInv ==
    ASSUME IInv, NEW p \in Party, NEW t \in Answers(p), HandleTurn(p, t)
    PROVE  IInv'
<1>. DEFINE slot == requests[p][Len(turns[p]) + 1]
            answer == [type |-> t.type, id |-> t.id, by |-> active[p][slot]]
            answered == [turns EXCEPT ![p] = Append(@, answer)]
<1>. USE DEF IInv
<1>1. t.type \in {"move", "switch"} /\ t.id \in Nat
  BY ConstantTypes DEF Answers
<1>2. /\ requests[p] \in Seq(Slot) /\ turns[p] \in Seq(Turn)
      /\ Len(requests[p]) \in Nat /\ Len(turns[p]) \in Nat
      /\ Len(turns[p]) + 1 \in 1 .. Len(requests[p])
  BY DEF TypeOK, HandleTurn, RoundInv
<1>3. answer \in Turn
  <2>1. slot \in Slot
    BY <1>2, ElementOfSeq
  <2>2. active[p][slot] \in Nat \cup {NoMon}
    BY <2>1 DEF TypeOK
  <2>. QED  BY <1>1, <2>2 DEF Turn
<1>4. /\ answered \in [Party -> Seq(Turn)]
      /\ answered[p] \in Seq(Turn)
      /\ Len(answered[p]) = Len(turns[p]) + 1
      /\ \A q \in Party \ {p} : answered[q] = turns[q]
  <2>1. Append(turns[p], answer) \in Seq(Turn)
        /\ Len(Append(turns[p], answer)) = Len(turns[p]) + 1
    BY <1>2, <1>3, AppendProperties
  <2>. QED  BY <2>1 DEF TypeOK
<1>5. requests[p] # <<>>
  BY <1>2
<1>6. queue = <<>> /\ stage \in {"idle", "select"} /\ (stage = "select" => waiting)
  BY <1>5 DEF RoundInv, Quiet
<1>7. /\ stage' = stage /\ user' = user /\ pending' = pending
      /\ active' = active /\ fainted' = fainted /\ replacement' = replacement
      /\ victory' = victory /\ terminated' = terminated /\ forfeit' = forfeit
      /\ ~terminated
  BY DEF HandleTurn, field
<1>. HIDE DEF slot, answer, answered
<1>8. CASE /\ Len(answered[p]) < Len(requests[p])
           /\ turns' = answered
           /\ UNCHANGED <<queue, requests, waiting, selection>>
  <2>1. ~waiting
    <3>1. ASSUME waiting PROVE p = user.party
      BY <1>5, <3>1, ConstantTypes DEF SelectionIsUsable, RoundInv, TypeOK,
         Action, Party
    <3>2. ASSUME waiting PROVE Len(requests[p]) = 1
      BY <3>1, <3>2 DEF SelectionIsUsable
    <3>. QED  BY <1>2, <1>4, <1>8, <3>2
  <2>2. TypeOK'
    BY <1>4, <1>7, <1>8 DEF TypeOK
  <2>3. RoundInv'
    <3>1. \A q \in Party : Len(turns'[q]) <= Len(requests'[q])
      BY <1>2, <1>4, <1>8 DEF RoundInv
    <3>. QED  BY <1>6, <1>7, <1>8, <2>1, <3>1 DEF RoundInv
  <2>4. SelectionIsUsable'
    BY <1>6, <1>7, <1>8, <2>1 DEF SelectionIsUsable
  <2>. QED  BY <2>2, <2>3, <2>4
<1>9. CASE /\ waiting
           /\ waiting' = FALSE
           /\ selection' = [party |-> p, mon |-> t.id]
           /\ turns' = [turns EXCEPT ![p] = <<>>]
           /\ requests' = [requests EXCEPT ![p] = <<>>]
           /\ UNCHANGED queue
  <2>1. stage = "select" /\ p = user.party /\ user \in Action
    BY <1>5, <1>9, ConstantTypes DEF SelectionIsUsable, RoundInv, TypeOK,
       Action, Party
  <2>2. t.id \in Reserve(p)
    BY <1>1, <1>9 DEF HandleTurn, TurnLegal, RoundInv
  <2>3. Quiet'
    BY <1>9, <2>1, ConstantTypes DEF Quiet, SelectionIsUsable, RoundInv,
       TypeOK, Party
  <2>4. TypeOK'
    <3>1. selection' \in [party : Party, mon : Nat]
      BY <1>1, <1>9
    <3>2. requests' \in [Party -> Seq(Slot)] /\ turns' \in [Party -> Seq(Turn)]
      BY <1>9 DEF TypeOK
    <3>. QED  BY <1>7, <1>9, <3>1, <3>2 DEF TypeOK
  <2>5. RoundInv'
    <3>1. \A q \in Party : Len(turns'[q]) <= Len(requests'[q])
      BY <2>3 DEF Quiet
    <3>2. selection' # NoSelection
      BY <1>1, <1>9 DEF NoSelection, NoParty, Party
    <3>. QED  BY <1>6, <1>7, <1>9, <2>1, <2>3, <3>1, <3>2 DEF RoundInv, Quiet
  <2>6. SelectionIsUsable'
    BY <1>7, <1>9, <2>1, <2>2
       DEF SelectionIsUsable, OnField, Reserve, Alive
  <2>. QED  BY <2>4, <2>5, <2>6
<1>10. CASE /\ ~waiting
            /\ MaybeExecuteTurn(answered)
            /\ UNCHANGED <<waiting, selection>>
            /\ Len(answered[p]) = Len(requests[p])
  <2>1. stage = "idle"
    BY <1>6, <1>10
  <2>2. CASE \A q \in Party : Len(requests[q]) = Len(answered[q])
    <3>1. /\ queue' = <<answered[0] \o answered[1]>>
          /\ turns' = [q \in Party |-> <<>>]
          /\ requests' = [q \in Party |-> <<>>]
      <4>1. queue' = Append(queue, answered[0] \o answered[1])
            /\ turns' = [q \in Party |-> <<>>]
            /\ requests' = [q \in Party |-> <<>>]
        BY <1>10, <2>2 DEF MaybeExecuteTurn
      <4>. QED  BY <1>6, <4>1
    <3>2. answered[0] \o answered[1] \in Seq(Turn)
      BY <1>4, ConstantTypes, ConcatProperties
    <3>3. queue' \in Seq(Seq(Turn)) /\ Len(queue') = 1
      BY <3>1, <3>2
    <3>4. Quiet' /\ \A q \in Party : Len(turns'[q]) <= Len(requests'[q])
      BY <3>1 DEF Quiet
    <3>5. TypeOK'
      BY <1>7, <1>10, <3>1, <3>3 DEF TypeOK
    <3>6. RoundInv'
      BY <1>7, <1>10, <2>1, <3>3, <3>4 DEF RoundInv
    <3>7. SelectionIsUsable'
      BY <1>7, <1>10, <2>1 DEF SelectionIsUsable
    <3>. QED  BY <3>5, <3>6, <3>7
  <2>3. CASE ~\A q \in Party : Len(requests[q]) = Len(answered[q])
    <3>1. turns' = answered /\ UNCHANGED <<queue, requests>>
      BY <1>10, <2>3 DEF MaybeExecuteTurn
    <3>2. ASSUME NEW q \in Party
          PROVE  Len(turns'[q]) <= Len(requests'[q])
      <4>1. CASE q = p
        <5>1. Len(answered[p]) = Len(requests[p]) /\ Len(requests[p]) \in Nat
          BY <1>10, <1>2
        <5>. QED  BY <3>1, <4>1, <5>1
      <4>2. CASE q # p
        <5>1. answered[q] = turns[q] /\ Len(turns[q]) <= Len(requests[q])
          BY <1>2, <1>4, <4>2 DEF RoundInv
        <5>. QED  BY <3>1, <5>1
      <4>. QED  BY <4>1, <4>2
    <3>3. TypeOK'
      BY <1>4, <1>7, <1>10, <3>1 DEF TypeOK
    <3>4. RoundInv'
      BY <1>6, <1>7, <1>10, <2>1, <3>1, <3>2 DEF RoundInv
    <3>5. SelectionIsUsable'
      BY <1>7, <1>10, <2>1 DEF SelectionIsUsable
    <3>. QED  BY <3>3, <3>4, <3>5
  <2>. QED  BY <2>2, <2>3
<1>. QED  BY <1>8, <1>9, <1>10 DEF HandleTurn, slot, answer, answered

(* handleCancelTurn keeps the invariant.                                   *)
LEMMA HandleCancelTurnInv ==
    ASSUME IInv, NEW p \in Party, HandleCancelTurn(p)
    PROVE  IInv'
<1>. USE DEF IInv
<1>1. turns[p] \in Seq(Turn) /\ turns[p] # <<>> /\ Len(turns[p]) \in Nat
  BY DEF HandleCancelTurn, TypeOK
<1>2. stage = "idle" /\ queue = <<>> /\ ~waiting
  BY <1>1 DEF HandleCancelTurn, Unlocked, RoundInv, Quiet, SelectionIsUsable
<1>3. /\ SubSeq(turns[p], 1, Len(turns[p]) - 1) \in Seq(Turn)
      /\ Len(SubSeq(turns[p], 1, Len(turns[p]) - 1)) <= Len(turns[p])
  BY <1>1
<1>4. turns' \in [Party -> Seq(Turn)]
      /\ \A q \in Party : Len(turns'[q]) <= Len(requests'[q])
  <2>1. turns' = [turns EXCEPT ![p] = SubSeq(turns[p], 1, Len(turns[p]) - 1)]
        /\ requests' = requests
    BY DEF HandleCancelTurn
  <2>2. Len(SubSeq(turns[p], 1, Len(turns[p]) - 1)) \in Nat
        /\ \A q \in Party : Len(requests[q]) \in Nat
    BY <1>3 DEF TypeOK
  <2>. QED  BY <1>1, <1>3, <2>1, <2>2 DEF TypeOK, RoundInv
<1>5. TypeOK'
  BY <1>4 DEF HandleCancelTurn, TypeOK, field
<1>6. RoundInv'
  BY <1>2, <1>4 DEF HandleCancelTurn, RoundInv, field
<1>7. SelectionIsUsable'
  BY <1>2 DEF HandleCancelTurn, SelectionIsUsable, field
<1>. QED  BY <1>5, <1>6, <1>7

-----------------------------------------------------------------------------
(* Executing a turn.                                                       *)

(* The Pokemon of a turn (processTurn, processReplacements) have a party   *)
(* and a number: no empty slot is among them.                              *)
LEMMA InTurnType ==
    ASSUME TypeOK
    PROVE  InTurn \in Seq([party : Party, mon : Nat])
<1>1. ASSUME NEW p \in Party, NEW S \in SUBSET Slot,
             \A s \in S : active[p][s] \in Nat
      PROVE  PokemonOf(p, S) \in Seq([party : Party, mon : Nat])
  <2>1. /\ InSlotOrder(S) \in Seq(S) /\ Len(InSlotOrder(S)) = Cardinality(S)
        /\ Cardinality(S) \in Nat
    BY SlotOrderType, SlotSets
  <2>2. \A i \in 1 .. Cardinality(S) : InSlotOrder(S)[i] \in S
    BY <2>1, ElementOfSeq
  <2>. DEFINE n == Cardinality(S)
              nth(i) == [party |-> p, mon |-> active[p][InSlotOrder(S)[i]]]
  <2>3. \A i \in 1 .. n : nth(i) \in [party : Party, mon : Nat]
    BY <1>1, <2>2
  <2>4. PokemonOf(p, S) = [i \in 1 .. n |-> nth(i)] /\ n \in Nat
    BY <2>1 DEF PokemonOf
  <2>. HIDE DEF n, nth
  <2>. QED  BY <2>3, <2>4
<1>2. ASSUME NEW p \in Party
      PROVE  /\ ToReplace(p) \in SUBSET Slot
             /\ \A s \in ToReplace(p) : active[p][s] \in Nat
             /\ ActiveSlots(p) \in SUBSET Slot
             /\ \A s \in ActiveSlots(p) : active[p][s] \in Nat
  BY ConstantTypes
     DEF TypeOK, ToReplace, FaintedSlots, ActiveSlots, Alive
<1>. DEFINE S(p) == IF replacement THEN ToReplace(p) ELSE ActiveSlots(p)
<1>3. \A p \in Party : PokemonOf(p, S(p)) \in Seq([party : Party, mon : Nat])
  BY <1>1, <1>2
<1>4. InTurn = PokemonOf(0, S(0)) \o PokemonOf(1, S(1))
  BY DEF InTurn
<1>. HIDE DEF S
<1>. QED  BY <1>3, <1>4, ConstantTypes, ConcatProperties

(* The beginning of executeTurn keeps the invariant.                       *)
LEMMA ExecuteTurnInv ==
    ASSUME IInv, ExecuteTurn
    PROVE  IInv'
<1>. USE DEF IInv
<1>. DEFINE batch == Head(queue)
            action(i) == [party |-> InTurn[i].party, mon |-> InTurn[i].mon,
                          type |-> batch[i].type, id |-> batch[i].id]
<1>1. /\ queue # <<>> /\ stage = "idle" /\ Len(queue) = 1 /\ Quiet /\ ~waiting
      /\ queue \in Seq(Seq(Turn)) /\ batch \in Seq(Turn)
  BY DEF ExecuteTurn, RoundInv, SelectionIsUsable, TypeOK
<1>2. queue' = <<>>
  <2>1. queue' = Tail(queue) /\ Tail(queue) \in Seq(Seq(Turn))
        /\ Len(Tail(queue)) = 0
    BY <1>1, HeadTailProperties DEF ExecuteTurn
  <2>. QED  BY <2>1, EmptySeq
<1>3. /\ active' = active /\ fainted' = fainted /\ requests' = requests
      /\ turns' = turns /\ replacement' = replacement /\ waiting' = waiting
      /\ selection' = selection /\ victory' = victory
      /\ terminated' = terminated /\ user' = user /\ forfeit' = forfeit
  BY DEF ExecuteTurn, field
<1>4. /\ stage' \in {"idle", "thrown", "replace", "turn"}
      /\ pending' \subseteq Action
  <2>1. CASE UNCHANGED pending /\ stage' \in {"idle", "thrown"}
    BY <2>1 DEF TypeOK
  <2>2. CASE /\ Len(batch) = Len(InTurn)
             /\ stage' = IF replacement THEN "replace" ELSE "turn"
             /\ pending' = {action(i) : i \in 1 .. Len(batch)}
    <3>1. ASSUME NEW i \in 1 .. Len(batch)
          PROVE  action(i) \in Action
      <4>1. batch[i] \in Turn
        BY <1>1, ElementOfSeq
      <4>2. InTurn[i] \in [party : Party, mon : Nat]
        BY <2>2, InTurnType, ElementOfSeq
      <4>. QED  BY <4>1, <4>2 DEF Turn, Action
    <3>. QED  BY <2>2, <3>1
  <2>. QED  BY <1>1, <2>1, <2>2 DEF ExecuteTurn
<1>5. TypeOK'
  BY <1>2, <1>3, <1>4 DEF TypeOK, Stage
<1>6. RoundInv'
  BY <1>1, <1>2, <1>3, <1>4 DEF RoundInv, Quiet
<1>7. SelectionIsUsable'
  BY <1>1, <1>3, <1>4 DEF SelectionIsUsable
<1>. QED  BY <1>5, <1>6, <1>7

(* Skipping the action of a fainted Pokemon keeps the invariant.           *)
LEMMA SkipActionInv ==
    ASSUME IInv, NEW a \in pending, SkipAction(a)
    PROVE  IInv'
<1>. USE DEF IInv
<1>1. stage = "turn" /\ ~waiting
  BY DEF SkipAction, SelectionIsUsable
<1>2. TypeOK'
  BY DEF SkipAction, TypeOK, field
<1>3. RoundInv'
  BY <1>1 DEF SkipAction, RoundInv, Quiet, field
<1>4. SelectionIsUsable'
  BY <1>1 DEF SkipAction, SelectionIsUsable, field
<1>. QED  BY <1>2, <1>3, <1>4

(* The common end of the actions of a running turn: the field changes, and *)
(* the turn goes on or the battle is won.                                  *)
LEMMA TurnStepInv ==
    ASSUME IInv, stage \in {"turn", "replace"},
           active' \in [Party -> [Slot -> Nat \cup {NoMon}]], SomeFaint,
           Win \/ (GoOn(stage, pending') /\ pending' \subseteq pending),
           UNCHANGED <<requests, turns, replacement, waiting, selection,
                       queue, user, forfeit>>
    PROVE  IInv'
<1>. USE DEF IInv
<1>1. ~waiting
  BY DEF SelectionIsUsable
<1>2. /\ stage' \in {"idle", "blocked", "turn", "replace"}
      /\ pending' \subseteq pending
      /\ victory' \in BOOLEAN /\ terminated' \in BOOLEAN
  BY DEF Win, GoOn, TypeOK
<1>3. queue = <<>> /\ Quiet
  BY DEF RoundInv
<1>4. TypeOK'
  BY <1>2, FaintType DEF TypeOK, Stage
<1>5. RoundInv'
  BY <1>1, <1>2, <1>3 DEF RoundInv, Quiet
<1>6. SelectionIsUsable'
  BY <1>1, <1>2 DEF SelectionIsUsable
<1>. QED  BY <1>4, <1>5, <1>6

(* executeSwitchAction keeps the invariant.                                *)
LEMMA SwitchActionInv ==
    ASSUME IInv, NEW a \in pending, SwitchAction(a)
    PROVE  IInv'
<1>1. a \in Action
  BY DEF IInv, TypeOK
<1>2. active' \in [Party -> [Slot -> Nat \cup {NoMon}]]
  <2>1. a.party \in Party /\ a.id \in Nat /\ Replace(a.party, a.mon, a.id)
    BY <1>1 DEF Action, SwitchAction
  <2>. QED  BY <2>1, ReplaceType DEF IInv
<1>3. Win \/ (GoOn(stage, pending') /\ pending' \subseteq pending)
  BY DEF SwitchAction, GoOn
<1>. QED  BY <1>2, <1>3, TurnStepInv DEF SwitchAction

(* executePendingMoveAction keeps the invariant.                           *)
LEMMA MoveActionInv ==
    ASSUME IInv, NEW a \in pending, MoveAction(a)
    PROVE  IInv'
<1>1. active' \in [Party -> [Slot -> Nat \cup {NoMon}]]
  <2>1. CASE UNCHANGED active
    BY <2>1 DEF IInv, TypeOK
  <2>2. CASE DragOut
    <3>1. PICK p \in Party :
            \E m \in OnField(p) \cap Alive(p), r \in Reserve(p) :
                Replace(p, m, r)
      BY <2>2 DEF DragOut
    <3>2. PICK m \in OnField(p) \cap Alive(p), r \in Reserve(p) :
            Replace(p, m, r)
      BY <3>1
    <3>3. r \in Nat
      BY <3>2, ReserveType
    <3>. QED  BY <3>2, <3>3, ReplaceType DEF IInv
  <2>. QED  BY <2>1, <2>2 DEF MoveAction
<1>2. Win \/ (GoOn(stage, pending') /\ pending' \subseteq pending)
  BY DEF MoveAction, GoOn
<1>. QED  BY <1>1, <1>2, TurnStepInv DEF MoveAction

(* requestInactivePokemon establishes what a suspended turn relies on.     *)
LEMMA RequestInactivePokemonInv ==
    ASSUME IInv, NEW a \in pending, RequestInactivePokemon(a)
    PROVE  IInv'
<1>. USE DEF IInv
<1>. DEFINE slot == CHOOSE s \in Slot : active[a.party][s] = a.mon
<1>1. a \in Action /\ a.party \in Party /\ a.mon \in Nat
  BY DEF TypeOK, Action
<1>2. stage = "turn" /\ queue = <<>> /\ Quiet
  BY DEF RequestInactivePokemon, RoundInv
<1>3. a.mon \in OnField(a.party) /\ active' = active
  BY DEF RequestInactivePokemon, CanAct
<1>4. slot \in Slot
  BY <1>3 DEF OnField
<1>5. requests' = [requests EXCEPT ![a.party] = Append(<<>>, slot)]
      /\ turns' = turns
  BY <1>1, <1>2 DEF RequestInactivePokemon, Quiet, TypeOK
<1>. HIDE DEF slot
<1>6. /\ requests' \in [Party -> Seq(Slot)]
      /\ Len(requests'[a.party]) = 1
      /\ requests'[1 - a.party] = <<>>
  <2>1. Append(<<>>, slot) \in Seq(Slot) /\ Len(Append(<<>>, slot)) = 1
    BY <1>4
  <2>2. \A q \in Party : requests[q] = <<>>
    BY <1>2 DEF Quiet
  <2>. QED  BY <1>1, <1>5, <2>1, <2>2, ConstantTypes DEF TypeOK
<1>7. /\ stage' = "select" /\ user' = a /\ waiting' = TRUE
      /\ replacement' = TRUE /\ queue' = queue /\ terminated' = terminated
      /\ victory' = victory /\ forfeit' = forfeit /\ pending' \subseteq pending
      /\ selection' = [party |-> a.party, mon |-> a.mon]
  BY DEF RequestInactivePokemon
<1>8. TypeOK'
  <2>1. active' \in [Party -> [Slot -> Nat \cup {NoMon}]]
    BY <1>3 DEF TypeOK
  <2>2. fainted' \in [Party -> SUBSET Nat]
    BY <2>1, FaintType DEF RequestInactivePokemon
  <2>3. selection' \in [party : Party, mon : Nat]
    BY <1>1, <1>7
  <2>. QED  BY <1>1, <1>5, <1>6, <1>7, <2>1, <2>2, <2>3 DEF TypeOK, Stage
<1>9. RoundInv'
  <2>1. selection' # NoSelection
    BY <1>1, <1>7 DEF NoSelection, NoParty, Party
  <2>2. \A q \in Party : turns'[q] = <<>> /\ Len(turns'[q]) <= Len(requests'[q])
    BY <1>2, <1>5, <1>6 DEF Quiet
  <2>. QED  BY <1>1, <1>2, <1>7, <2>1, <2>2 DEF RoundInv
<1>10. SelectionIsUsable'
  BY <1>3, <1>6, <1>7 DEF SelectionIsUsable, OnField
<1>. QED  BY <1>8, <1>9, <1>10

(* A turn that goes on after a selection keeps the invariant.              *)
LEMMA ResumeTurnInv ==
    ASSUME IInv, ResumeTurn
    PROVE  IInv'
<1>. USE DEF IInv
<1>1. /\ stage = "select" /\ ~waiting /\ queue = <<>> /\ Quiet
      /\ user \in Action /\ user.party \in Party
  BY DEF ResumeTurn, RoundInv, Action
<1>2. /\ selection' = NoSelection /\ user' = NoUser /\ requests' = requests
      /\ turns' = turns /\ replacement' = replacement /\ waiting' = waiting
      /\ queue' = queue /\ forfeit' = forfeit
  BY DEF ResumeTurn
<1>3. /\ stage' \in {"faulted", "turn", "idle", "blocked"}
      /\ pending' \subseteq pending
      /\ victory' \in BOOLEAN /\ terminated' \in BOOLEAN
  BY DEF ResumeTurn, Win, GoOn, TypeOK
<1>4. /\ active' \in [Party -> [Slot -> Nat \cup {NoMon}]]
      /\ fainted' \in [Party -> SUBSET Nat]
  <2>1. CASE terminated /\ UNCHANGED field
    BY <2>1 DEF TypeOK, field
  <2>2. CASE /\ ~terminated
             /\ Replace(user.party, user.mon, selection.mon)
             /\ SomeFaint
    <3>1. selection.mon \in Nat
      BY <1>1, <2>2, ReserveType DEF SelectionIsUsable
    <3>2. active' \in [Party -> [Slot -> Nat \cup {NoMon}]]
      BY <1>1, <2>2, <3>1, ReplaceType
    <3>. QED  BY <2>2, <3>2, FaintType
  <2>. QED  BY <2>1, <2>2 DEF ResumeTurn
<1>5. TypeOK'
  BY <1>2, <1>3, <1>4 DEF TypeOK, Stage
<1>6. RoundInv'
  BY <1>1, <1>2, <1>3 DEF RoundInv, Quiet
<1>7. SelectionIsUsable'
  BY <1>1, <1>2, <1>3 DEF SelectionIsUsable
<1>. QED  BY <1>5, <1>6, <1>7

(* The end of a turn of moves keeps the invariant.                         *)
LEMMA EndTurnInv ==
    ASSUME IInv, EndTurn
    PROVE  IInv'
<1>. USE DEF IInv
<1>1. stage = "turn" /\ ~waiting /\ queue = <<>> /\ Quiet
  BY DEF EndTurn, RoundInv, SelectionIsUsable
<1>2. active' \in [Party -> [Slot -> Nat \cup {NoMon}]] /\ SomeFaint
  BY DEF EndTurn, TypeOK
<1>3. CASE Win /\ UNCHANGED <<requests, replacement>>
  <2>1. Win \/ (GoOn(stage, pending') /\ pending' \subseteq pending)
    BY <1>3
  <2>. QED  BY <1>1, <1>2, <1>3, <2>1, TurnStepInv DEF EndTurn
<1>4. CASE GoOn("idle", {}) /\ AskNext
  <2>1. /\ stage' = "idle" /\ pending' = {} /\ waiting' = waiting
        /\ turns' = turns /\ selection' = selection /\ queue' = queue
        /\ user' = user /\ forfeit' = forfeit
        /\ victory' = victory /\ terminated' = terminated
    BY <1>4 DEF EndTurn, GoOn
  <2>2. TypeOK'
    BY <1>2, <1>4, <2>1, FaintType, AskNextType DEF TypeOK, Stage
  <2>3. \A p \in Party : Len(turns'[p]) <= Len(requests'[p])
    <3>1. \A p \in Party : turns'[p] = <<>> /\ requests'[p] \in Seq(Slot)
      BY <1>1, <2>1, <2>2 DEF Quiet, TypeOK
    <3>. QED  BY <3>1
  <2>4. RoundInv'
    BY <1>1, <2>1, <2>3 DEF RoundInv
  <2>5. SelectionIsUsable'
    BY <1>1, <2>1 DEF SelectionIsUsable
  <2>. QED  BY <2>2, <2>4, <2>5
<1>. QED  BY <1>3, <1>4 DEF EndTurn

(* The end of a turn of replacements keeps the invariant.                  *)
LEMMA EndReplacementsInv ==
    ASSUME IInv, EndReplacements
    PROVE  IInv'
<1>. USE DEF IInv
<1>1. stage = "replace" /\ ~waiting /\ queue = <<>> /\ Quiet
  BY DEF EndReplacements, RoundInv, SelectionIsUsable
<1>2. /\ stage' = "idle" /\ AskNext
      /\ active' = active /\ fainted' = fainted /\ pending' = pending
      /\ waiting' = waiting /\ turns' = turns /\ selection' = selection
      /\ queue' = queue /\ user' = user /\ forfeit' = forfeit
      /\ victory' = victory /\ terminated' = terminated
  BY DEF EndReplacements, field
<1>3. TypeOK'
  BY <1>2, AskNextType DEF TypeOK, Stage
<1>4. \A p \in Party : Len(turns'[p]) <= Len(requests'[p])
  <2>1. \A p \in Party : turns'[p] = <<>> /\ requests'[p] \in Seq(Slot)
    BY <1>1, <1>2, <1>3 DEF Quiet, TypeOK
  <2>. QED  BY <2>1
<1>5. RoundInv'
  BY <1>1, <1>2, <1>4 DEF RoundInv
<1>6. SelectionIsUsable'
  BY <1>1, <1>2 DEF SelectionIsUsable
<1>. QED  BY <1>3, <1>5, <1>6

-----------------------------------------------------------------------------
(* Leaving.                                                                *)

(* getRandomInactivePokemon answers a suspended turn with a healthy        *)
(* Pokemon from the bench of the player who was asked.                     *)
LEMMA PickForWaitingInv ==
    ASSUME IInv, PickForWaiting, victory' \in BOOLEAN,
           forfeit' \in Party \cup {NoParty},
           UNCHANGED <<field, replacement, terminated, queue, stage, pending,
                       user>>
    PROVE  IInv'
<1>. USE DEF IInv
<1>1. /\ waiting /\ stage = "select" /\ user \in Action /\ user.party \in Party
      /\ selection.party = user.party /\ queue = <<>>
  BY DEF PickForWaiting, SelectionIsUsable, RoundInv, Action
<1>2. PICK m \in Reserve(user.party) :
            selection' = [party |-> user.party, mon |-> m]
  BY <1>1 DEF PickForWaiting
<1>3. /\ waiting' = FALSE
      /\ requests' = [requests EXCEPT ![user.party] = <<>>]
      /\ turns' = [turns EXCEPT ![user.party] = <<>>]
  BY <1>1 DEF PickForWaiting
<1>4. Quiet'
  BY <1>1, <1>3, ConstantTypes
     DEF Quiet, SelectionIsUsable, RoundInv, TypeOK, Party
<1>5. m \in Nat
  BY <1>1, <1>2, ReserveType
<1>6. TypeOK'
  <2>1. selection' \in [party : Party, mon : Nat]
    BY <1>1, <1>2, <1>5
  <2>2. requests \in [Party -> Seq(Slot)] /\ turns \in [Party -> Seq(Turn)]
    BY DEF TypeOK
  <2>3. requests' \in [Party -> Seq(Slot)] /\ turns' \in [Party -> Seq(Turn)]
    BY <1>1, <1>3, <2>2
  <2>. QED  BY <1>3, <2>1, <2>3 DEF TypeOK, field
<1>7. RoundInv'
  <2>1. selection' # NoSelection
    BY <1>1, <1>2 DEF NoSelection, NoParty, Party
  <2>2. \A q \in Party : turns'[q] = <<>> /\ Len(turns'[q]) <= Len(requests'[q])
    BY <1>4 DEF Quiet
  <2>. QED  BY <1>1, <1>3, <1>4, <2>1, <2>2 DEF RoundInv
<1>8. SelectionIsUsable'
  BY <1>1, <1>2, <1>3 DEF SelectionIsUsable, OnField, Reserve, Alive, field
<1>. QED  BY <1>6, <1>7, <1>8

(* Terminating the battle keeps the invariant.                             *)
LEMMA TerminateInv ==
    ASSUME IInv, Unlocked, ~waiting, terminated' = TRUE, victory' \in BOOLEAN,
           forfeit' \in Party \cup {NoParty},
           UNCHANGED <<field, requests, turns, replacement, waiting, selection,
                       queue, stage, pending, user>>
    PROVE  IInv'
<1>. USE DEF IInv
<1>1. TypeOK'
  BY DEF TypeOK, field
<1>2. RoundInv'
  BY DEF RoundInv, Quiet
<1>3. SelectionIsUsable'
  BY DEF SelectionIsUsable
<1>. QED  BY <1>1, <1>2, <1>3

(* The first part of handleForfeit keeps the invariant.                    *)
LEMMA HandleForfeitInv ==
    ASSUME IInv, NEW p \in Party, HandleForfeit(p)
    PROVE  IInv'
<1>1. CASE PickForWaiting /\ forfeit' = p /\ UNCHANGED terminated
  BY <1>1, PickForWaitingInv DEF HandleForfeit
<1>2. CASE /\ ~waiting
           /\ terminated' = TRUE
           /\ UNCHANGED <<requests, turns, waiting, selection, forfeit>>
  <2>1. forfeit' \in Party \cup {NoParty}
    BY <1>2 DEF IInv, TypeOK
  <2>. QED  BY <1>2, <2>1, TerminateInv DEF HandleForfeit
<1>. QED  BY <1>1, <1>2 DEF HandleForfeit

(* The loop of handleForfeit keeps the invariant.                          *)
LEMMA FinishForfeitInv ==
    ASSUME IInv, FinishForfeit
    PROVE  IInv'
<1>1. victory' \in BOOLEAN
  BY DEF FinishForfeit, IInv, TypeOK
<1>2. CASE PickForWaiting /\ UNCHANGED <<terminated, forfeit>>
  <2>1. forfeit' \in Party \cup {NoParty}
    BY <1>2 DEF IInv, TypeOK
  <2>. QED  BY <1>1, <1>2, <2>1, PickForWaitingInv DEF FinishForfeit
<1>3. CASE /\ ~waiting
           /\ terminated' = TRUE
           /\ forfeit' = NoParty
           /\ UNCHANGED <<requests, turns, waiting, selection>>
  BY <1>1, <1>3, TerminateInv DEF FinishForfeit
<1>. QED  BY <1>2, <1>3 DEF FinishForfeit

-----------------------------------------------------------------------------
(* The invariant is inductive: every step of the battle keeps it.          *)
LEMMA NextInv ==
    ASSUME IInv, [Next]_vars
    PROVE  IInv'
<1>1. ASSUME NEW p \in Party, NEW t \in Answers(p), HandleTurn(p, t)
      PROVE  IInv'
  BY <1>1, HandleTurnInv
<1>2. ASSUME NEW p \in Party, HandleCancelTurn(p)
      PROVE  IInv'
  BY <1>2, HandleCancelTurnInv
<1>3. ASSUME NEW p \in Party, HandleForfeit(p)
      PROVE  IInv'
  BY <1>3, HandleForfeitInv
<1>4. CASE ExecuteTurn
  BY <1>4, ExecuteTurnInv
<1>5. ASSUME NEW a \in pending, SkipAction(a) \/ SwitchAction(a)
             \/ MoveAction(a) \/ RequestInactivePokemon(a)
      PROVE  IInv'
  BY <1>5, SkipActionInv, SwitchActionInv, MoveActionInv,
     RequestInactivePokemonInv
<1>6. CASE ResumeTurn \/ EndTurn \/ EndReplacements
  BY <1>6, ResumeTurnInv, EndTurnInv, EndReplacementsInv
<1>7. CASE FinishForfeit
  BY <1>7, FinishForfeitInv
<1>8. CASE UNCHANGED vars
  BY <1>8 DEF vars, IInv, TypeOK, RoundInv, Quiet, SelectionIsUsable,
     OnField, Reserve, Alive
<1>. QED  BY <1>1, <1>2, <1>3, <1>4, <1>5, <1>6, <1>7, <1>8
          DEF Next, Clients, QueueThread

(* The inductive invariant holds throughout every battle.                  *)
THEOREM InvariantHolds == Spec => []IInv
<1>1. Init => IInv
  BY InitInv
<1>2. IInv /\ [Next]_vars => IInv'
  BY NextInv
<1>. QED  BY <1>1, <1>2, PTL DEF Spec

(* Every variable keeps its type: the request lists hold slots, the        *)
(* actions of a turn belong to Pokemon, and no empty slot is ever taken    *)
(* for one.                                                                *)
THEOREM TypeCorrect == Spec => []TypeOK
<1>1. IInv => TypeOK
  BY DEF IInv
<1>. QED  BY <1>1, InvariantHolds, PTL

(* A turn that waits for an inactive Pokemon waits for the player it       *)
(* asked alone, and goes on with a healthy Pokemon from his bench, whether *)
(* he chose it or a forfeit did.                                           *)
THEOREM SelectionUsable == Spec => []SelectionIsUsable
<1>1. IInv => SelectionIsUsable
  BY DEF IInv
<1>. QED  BY <1>1, InvariantHolds, PTL

-----------------------------------------------------------------------------
(* What is asked, answered and posted fits the field.                      *)

(* A turn runs in a battle that goes on; while it is suspended only moves  *)
(* are left of it, for switches come first; and nobody is asked once the   *)
(* battle is decided.                                                      *)
StageInv ==
    /\ stage \in {"turn", "replace"} => ~terminated
    /\ (stage = "idle" /\ victory /\ ~terminated) => Quiet
    /\ stage = "select" => \A a \in pending : a.type = "move"

(* Who is asked for a replacement answers with a switch.                   *)
ReplacingInv ==
    (Collecting /\ replacement) =>
        \A p \in Party : \A i \in 1 .. Len(turns[p]) : turns[p][i].type = "switch"

(* The switches of a posted turn send out different healthy Pokemon from   *)
(* the bench of the party that they will be paired with.                   *)
BatchInv ==
    (queue # <<>> /\ ~terminated) =>
        \A i \in 1 .. Len(Head(queue)) : Head(queue)[i].type = "switch" =>
            /\ Head(queue)[i].id \in Reserve(InTurn[i].party)
            /\ \A j \in 1 .. Len(Head(queue)) :
                  (/\ j # i /\ Head(queue)[j].type = "switch"
                   /\ InTurn[j].party = InTurn[i].party)
                  => Head(queue)[j].id # Head(queue)[i].id

ListsInv == RequestsFitField /\ ReplacingInv /\ BatchFitsField /\ BatchInv

FieldInv == StageInv /\ ListsInv /\ SwitchTargetsFree /\ OneSlotEach

(* Nothing is collected or posted while a turn runs, or after the battle.  *)
LEMMA NothingCollected ==
    ASSUME stage' # "thrown",
           terminated' \/ (queue' = <<>> /\ (stage' # "idle" \/ victory'))
    PROVE  ListsInv'
BY DEF ListsInv, RequestsFitField, ReplacingInv, BatchFitsField, BatchInv, Collecting

(* Nobody is on the bench twice: who enters in the place of another from   *)
(* the bench is in one slot only.                                          *)
LEMMA ReplaceKeeps ==
    ASSUME TypeOK, OneSlotEach, NEW p \in Party, NEW m \in Nat, NEW r \in Nat,
           r \notin OnField(p), Replace(p, m, r)
    PROVE  /\ OneSlotEach'
           /\ OnField(p)' \subseteq OnField(p) \cup {r}
           /\ \A q \in Party \ {p} : OnField(q)' = OnField(q)
<1>1. /\ \A s \in Slot : active'[p][s] = IF active[p][s] = m THEN r ELSE active[p][s]
      /\ \A q \in Party \ {p} : active'[q] = active[q]
  BY DEF Replace, TypeOK
<1>2. \A s \in Slot : active[p][s] # r
  BY ConstantTypes DEF OnField
<1>3. ASSUME NEW q \in Party, NEW s \in Slot, NEW t \in Slot,
             active'[q][s] = active'[q][t], active'[q][s] # NoMon
      PROVE  s = t
  <2>1. CASE q = p
    BY <1>1, <1>2, <1>3, <2>1, ConstantTypes DEF OneSlotEach
  <2>2. CASE q # p
    BY <1>1, <1>3, <2>2 DEF OneSlotEach
  <2>. QED  BY <2>1, <2>2
<1>4. OnField(p)' \subseteq OnField(p) \cup {r}
  BY <1>1 DEF OnField
<1>5. \A q \in Party \ {p} : OnField(q)' = OnField(q)
  BY <1>1 DEF OnField
<1>. QED  BY <1>3, <1>4, <1>5 DEF OneSlotEach

(* Who is on the bench and does not enter stays there: only those on the   *)
(* field faint.                                                            *)
LEMMA StaysOnBench ==
    ASSUME TypeOK, SomeFaint, NEW p \in Party, NEW r \in Reserve(p), r \notin OnField(p)'
    PROVE  r \in Reserve(p)'
<1>1. PICK f0 \in SUBSET (OnField(0) \cup OnField(0)'),
           f1 \in SUBSET (OnField(1) \cup OnField(1)') :
        fainted' = [q \in Party |-> fainted[q] \cup (IF q = 0 THEN f0 ELSE f1)]
  BY DEF SomeFaint
<1>2. fainted'[p] \subseteq fainted[p] \cup OnField(p) \cup OnField(p)'
  BY <1>1 DEF Party
<1>. QED  BY <1>2 DEF Reserve, Alive, Mon

(* What the steps of a running turn leave as it was fits the field.        *)
LEMMA TurnStepField ==
    ASSUME IInv, FieldInv, stage \in {"turn", "replace", "select"}, ~terminated, ~waiting,
           Win \/ (GoOn(stage', pending') /\ stage' \in {"turn", "replace", "idle"}),
           UNCHANGED <<requests, turns, queue>>, stage' = "idle" => terminated' \/ victory',
           OneSlotEach',
           \A a \in pending' :
              /\ a \in pending
              /\ a.type = "switch" => a.id \in Reserve(a.party)'
    PROVE  FieldInv'
<1>1. queue = <<>> /\ Quiet
  BY DEF IInv, RoundInv
<1>2. /\ stage' \in {"turn", "replace", "idle", "blocked"}
      /\ stage' \in {"turn", "replace"} => ~terminated'
  BY DEF Win, GoOn
<1>3. Quiet' /\ queue' = <<>>
  BY <1>1 DEF Quiet
<1>4. StageInv'
  BY <1>2, <1>3 DEF StageInv
<1>5. ListsInv'
  BY <1>2, <1>3, NothingCollected
<1>6. SwitchTargetsFree'
  <2>1. \A p \in Party : Len(turns'[p]) = 0
    BY <1>3 DEF Quiet
  <2>2. ASSUME NEW a \in pending', NEW b \in pending', a.type = "switch", b.type = "switch",
               b # a, b.party = a.party
        PROVE  b.id # a.id
    BY <2>2 DEF FieldInv, SwitchTargetsFree
  <2>. QED  BY <2>1, <2>2 DEF SwitchTargetsFree
<1>. QED  BY <1>4, <1>5, <1>6 DEF FieldInv

LEMMA ExecuteTurnField ==
    ASSUME IInv, FieldInv, ExecuteTurn
    PROVE  FieldInv'
<1>. DEFINE batch == Head(queue)
            action(i) == [party |-> InTurn[i].party, mon |-> InTurn[i].mon,
                          type |-> batch[i].type, id |-> batch[i].id]
<1>1. /\ queue # <<>> /\ stage = "idle" /\ Quiet /\ queue' = <<>>
  <2>1. /\ queue # <<>> /\ stage = "idle" /\ Len(queue) = 1 /\ Quiet
        /\ queue \in Seq(Seq(Turn))
    BY DEF ExecuteTurn, IInv, RoundInv, TypeOK
  <2>2. queue' = Tail(queue) /\ Tail(queue) \in Seq(Seq(Turn)) /\ Len(Tail(queue)) = 0
    BY <2>1, HeadTailProperties DEF ExecuteTurn
  <2>. QED  BY <2>1, <2>2, EmptySeq
<1>2. /\ active' = active /\ fainted' = fainted /\ requests' = requests
      /\ turns' = turns /\ victory' = victory /\ terminated' = terminated
  BY DEF ExecuteTurn, field
<1>3. Quiet' /\ OneSlotEach'
  BY <1>1, <1>2 DEF Quiet, FieldInv, OneSlotEach
<1>4. \A p \in Party : Len(turns'[p]) = 0
  BY <1>3 DEF Quiet
<1>5. CASE terminated /\ UNCHANGED <<stage, pending>>
  <2>1. ListsInv'
    BY <1>1, <1>2, <1>5, NothingCollected
  <2>. QED  BY <1>1, <1>2, <1>3, <1>5, <2>1 DEF FieldInv, StageInv, SwitchTargetsFree
<1>6. CASE ~terminated
  <2>0. /\ Len(batch) = Len(InTurn)
        /\ replacement => \A i \in 1 .. Len(batch) : batch[i].type = "switch"
    BY <1>1, <1>6 DEF FieldInv, ListsInv, BatchFitsField
  <2>1. /\ stage' \in {"turn", "replace"}
        /\ pending' = {action(i) : i \in 1 .. Len(batch)}
    BY <1>6, <2>0 DEF ExecuteTurn
  <2>2. ListsInv'
    BY <1>1, <2>1, NothingCollected
  <2>3. StageInv'
    BY <1>2, <1>6, <2>1 DEF StageInv
  <2>. HIDE DEF batch
  <2>4. \A i \in 1 .. Len(batch) : batch[i].type = "switch" =>
            /\ batch[i].id \in Reserve(InTurn[i].party)
            /\ \A j \in 1 .. Len(batch) :
                  j # i /\ batch[j].type = "switch" /\ InTurn[j].party = InTurn[i].party
                  => batch[j].id # batch[i].id
    BY <1>1, <1>6 DEF FieldInv, ListsInv, BatchInv, batch
  <2>5. \A p : Reserve(p)' = Reserve(p)
    BY <1>2 DEF Reserve, Alive, OnField
  <2>6. ASSUME NEW a \in pending', a.type = "switch"
        PROVE  /\ a.id \in Reserve(a.party)'
               /\ \A b \in pending' : b # a /\ b.party = a.party /\ b.type = "switch"
                                      => b.id # a.id
    <3>1. PICK i \in 1 .. Len(batch) : a = action(i)
      BY <2>1
    <3>2. a.id \in Reserve(a.party)'
      BY <2>4, <2>5, <2>6, <3>1
    <3>3. ASSUME NEW b \in pending', b # a, b.party = a.party, b.type = "switch"
          PROVE  b.id # a.id
      <4>1. PICK j \in 1 .. Len(batch) : b = action(j)
        BY <2>1
      <4>2. j # i /\ batch[j].type = "switch" /\ batch[i].type = "switch"
            /\ InTurn[j].party = InTurn[i].party
        BY <2>6, <3>1, <3>3, <4>1
      <4>. QED  BY <2>4, <3>1, <4>1, <4>2
    <3>. QED  BY <3>2, <3>3
  <2>7. SwitchTargetsFree'
    BY <1>4, <2>6 DEF SwitchTargetsFree
  <2>. QED  BY <1>3, <2>2, <2>3, <2>7 DEF FieldInv
<1>. QED  BY <1>5, <1>6 DEF ExecuteTurn

LEMMA SkipActionField ==
    ASSUME IInv, FieldInv, NEW a \in pending, SkipAction(a)
    PROVE  FieldInv'
<1>1. /\ stage = "turn" /\ stage' = "turn" /\ ~waiting /\ ~terminated /\ terminated' = terminated
      /\ queue = <<>> /\ queue' = <<>> /\ Quiet
  BY DEF SkipAction, IInv, RoundInv, SelectionIsUsable, FieldInv, StageInv
<1>2. /\ active' = active /\ fainted' = fainted /\ turns' = turns /\ pending' \subseteq pending
  BY DEF SkipAction, field
<1>3. ListsInv'
  BY <1>1, NothingCollected
<1>4. OneSlotEach' /\ StageInv'
  BY <1>1, <1>2 DEF FieldInv, OneSlotEach, StageInv
<1>5. \A p : Reserve(p)' = Reserve(p)
  BY <1>2 DEF Reserve, Alive, OnField
<1>6. SwitchTargetsFree'
  BY <1>1, <1>2, <1>5 DEF FieldInv, SwitchTargetsFree
<1>. QED  BY <1>3, <1>4, <1>6 DEF FieldInv

(* While a move is executed every switch has been.                         *)
LEMMA OnlyMovesAreLeft ==
    ASSUME IInv, NEW a \in pending, NextInOrder(a), a.type = "move"
    PROVE  \A b \in pending : b.type = "move"
BY DEF NextInOrder

LEMMA SwitchActionField ==
    ASSUME IInv, FieldInv, NEW a \in pending, SwitchAction(a)
    PROVE  FieldInv'
<1>1. /\ a \in Action /\ a.party \in Party /\ a.mon \in Nat /\ a.id \in Nat
      /\ stage \in {"turn", "replace"} /\ a.type = "switch"
      /\ Replace(a.party, a.mon, a.id) /\ SomeFaint
      /\ UNCHANGED <<requests, turns, queue>>
      /\ Win \/ GoOn(stage, pending \ {a})
  BY DEF IInv, TypeOK, Action, SwitchAction
<1>2. ~terminated /\ ~waiting
  BY <1>1 DEF IInv, SelectionIsUsable, FieldInv, StageInv
<1>3. a.id \in Reserve(a.party) /\ a.id \notin OnField(a.party)
  BY <1>1, <1>2 DEF FieldInv, SwitchTargetsFree, Reserve
<1>4. /\ OneSlotEach'
      /\ OnField(a.party)' \subseteq OnField(a.party) \cup {a.id}
      /\ \A q \in Party \ {a.party} : OnField(q)' = OnField(q)
  BY <1>1, <1>3, ReplaceKeeps DEF IInv, FieldInv
<1>5. pending' \subseteq pending \ {a}
  BY <1>1 DEF Win, GoOn
<1>6. ASSUME NEW b \in pending', b.type = "switch"
      PROVE  b.id \in Reserve(b.party)'
  <2>1. b \in pending /\ b # a /\ b.party \in Party /\ b.id \in Reserve(b.party)
    BY <1>2, <1>5, <1>6 DEF FieldInv, SwitchTargetsFree, IInv, TypeOK, Action
  <2>2. b.party = a.party => b.id # a.id
    BY <1>1, <1>2, <1>6, <2>1 DEF FieldInv, SwitchTargetsFree
  <2>3. b.id \notin OnField(b.party)'
    BY <1>4, <2>1, <2>2 DEF Reserve
  <2>. QED  BY <1>1, <2>1, <2>3, StaysOnBench DEF IInv
<1>7. /\ Win \/ (GoOn(stage', pending') /\ stage' \in {"turn", "replace", "idle"})
      /\ stage' = "idle" => terminated' \/ victory'
  BY <1>1 DEF Win, GoOn
<1>. QED  BY <1>1, <1>2, <1>4, <1>5, <1>6, <1>7, TurnStepField

LEMMA MoveActionField ==
    ASSUME IInv, FieldInv, NEW a \in pending, MoveAction(a)
    PROVE  FieldInv'
<1>1. /\ stage = "turn" /\ NextInOrder(a) /\ a.type = "move"
      /\ UNCHANGED <<requests, turns, queue>>
      /\ Win \/ GoOn("turn", pending \ {a})
  BY DEF MoveAction
<1>2. ~terminated /\ ~waiting
  BY <1>1 DEF IInv, SelectionIsUsable, FieldInv, StageInv
<1>3. OneSlotEach'
  <2>1. CASE UNCHANGED active
    BY <2>1 DEF FieldInv, OneSlotEach
  <2>2. CASE DragOut
    <3>1. PICK p \in Party : \E m \in OnField(p) \cap Alive(p), r \in Reserve(p) :
                Replace(p, m, r)
      BY <2>2 DEF DragOut
    <3>2. PICK m \in OnField(p) \cap Alive(p), r \in Reserve(p) : Replace(p, m, r)
      BY <3>1
    <3>3. m \in Nat /\ r \in Nat /\ r \notin OnField(p)
      BY <3>2, ConstantTypes DEF Reserve, Alive
    <3>. QED  BY <3>2, <3>3, ReplaceKeeps DEF IInv, FieldInv
  <2>. QED  BY <2>1, <2>2 DEF MoveAction
<1>4. pending' \subseteq pending
  BY <1>1 DEF Win, GoOn
<1>5. \A b \in pending' : b \in pending /\ b.type # "switch"
  BY <1>1, <1>4, OnlyMovesAreLeft
<1>6. /\ Win \/ (GoOn(stage', pending') /\ stage' \in {"turn", "replace", "idle"})
      /\ stage' = "idle" => terminated' \/ victory'
  BY <1>1 DEF Win, GoOn
<1>. QED  BY <1>1, <1>2, <1>3, <1>5, <1>6, TurnStepField

LEMMA RequestInactivePokemonField ==
    ASSUME IInv, FieldInv, NEW a \in pending, RequestInactivePokemon(a)
    PROVE  FieldInv'
<1>1. /\ stage = "turn" /\ NextInOrder(a) /\ a.type = "move" /\ stage' = "select"
      /\ active' = active /\ turns' = turns /\ queue' = queue /\ terminated' = terminated
      /\ pending' \subseteq pending
  BY DEF RequestInactivePokemon
<1>2. queue = <<>> /\ Quiet
  BY <1>1 DEF IInv, RoundInv
<1>3. ListsInv'
  BY <1>1, <1>2, NothingCollected
<1>4. \A b \in pending' : b.type = "move"
  BY <1>1, OnlyMovesAreLeft
<1>5. StageInv' /\ OneSlotEach'
  BY <1>1, <1>4 DEF StageInv, FieldInv, OneSlotEach
<1>6. \A p \in Party : Len(turns'[p]) = 0
  BY <1>1, <1>2 DEF Quiet
<1>7. SwitchTargetsFree'
  BY <1>4, <1>6 DEF SwitchTargetsFree
<1>. QED  BY <1>3, <1>5, <1>7 DEF FieldInv

LEMMA ResumeTurnField ==
    ASSUME IInv, FieldInv, ResumeTurn
    PROVE  FieldInv'
<1>1. /\ stage = "select" /\ ~waiting /\ queue = <<>> /\ Quiet
      /\ user \in Action /\ user.party \in Party /\ user.mon \in Nat
      /\ \A b \in pending : b.type = "move"
      /\ UNCHANGED <<requests, turns, queue>>
  BY DEF ResumeTurn, IInv, RoundInv, Action, FieldInv, StageInv
<1>2. CASE terminated /\ stage' = "faulted" /\ UNCHANGED <<field, victory, terminated, pending>>
  <2>1. ListsInv'
    BY <1>1, <1>2, NothingCollected
  <2>2. StageInv' /\ OneSlotEach' /\ SwitchTargetsFree'
    BY <1>1, <1>2 DEF StageInv, FieldInv, OneSlotEach, SwitchTargetsFree, field
  <2>. QED  BY <2>1, <2>2 DEF FieldInv
<1>3. CASE /\ ~terminated
           /\ Replace(user.party, user.mon, selection.mon)
           /\ SomeFaint
           /\ Win \/ GoOn("turn", pending)
  <2>1. selection.mon \in Reserve(user.party)
    BY <1>1, <1>3 DEF IInv, SelectionIsUsable
  <2>2. selection.mon \in Nat /\ selection.mon \notin OnField(user.party)
    BY <1>1, <2>1, ConstantTypes DEF Reserve, Alive
  <2>3. OneSlotEach'
    BY <1>1, <1>3, <2>2, ReplaceKeeps DEF IInv, FieldInv
  <2>4. pending' \subseteq pending
    BY <1>3 DEF Win, GoOn
  <2>5. \A b \in pending' : b \in pending /\ b.type # "switch"
    BY <1>1, <2>4
  <2>6. /\ Win \/ (GoOn(stage', pending') /\ stage' \in {"turn", "replace", "idle"})
        /\ stage' = "idle" => terminated' \/ victory'
    BY <1>3 DEF Win, GoOn
  <2>. QED  BY <1>1, <1>3, <2>3, <2>5, <2>6, TurnStepField
<1>. QED  BY <1>2, <1>3 DEF ResumeTurn

(* The players are asked about what the next turn will read.               *)
LEMMA AskNextFits ==
    ASSUME IInv, Quiet, queue = <<>>, AskNext, ~victory, UNCHANGED <<turns, queue>>,
           stage' = "idle"
    PROVE  ListsInv'
<1>1. \A p \in Party : requests[p] = <<>> /\ turns'[p] = <<>> /\ Len(turns'[p]) = 0
  BY DEF Quiet
<1>2. requests' = [p \in Party |-> requests[p] \o InSlotOrder(Asked(p)')]
  BY DEF AskNext, Asked
<1>3. ASSUME NEW p \in Party
      PROVE  requests'[p] = InSlotOrder(Asked(p)') /\ Len(requests'[p]) \in Nat
  <2>1. Asked(p)' \in SUBSET Slot
    BY DEF Asked, ToReplace, FaintedSlots, ActiveSlots
  <2>2. InSlotOrder(Asked(p)') \in Seq(Slot)
    BY <2>1, SlotOrderType
  <2>. QED  BY <1>1, <1>2, <2>2, ConcatEmptySeq
<1>4. RequestsFitField'
  <2>1. ASSUME NEW p \in Party
        PROVE  /\ requests'[p] = InSlotOrder(Asked(p)')
               /\ Len(turns'[p]) <= Len(requests'[p])
               /\ \A i \in 1 .. Len(turns'[p]) :
                    turns'[p][i].by = active'[p][requests'[p][i]]
    BY <1>1, <1>3
  <2>. QED  BY <2>1 DEF RequestsFitField
<1>. QED  BY <1>1, <1>4 DEF ListsInv, ReplacingInv, BatchFitsField, BatchInv

LEMMA EndTurnField ==
    ASSUME IInv, FieldInv, EndTurn
    PROVE  FieldInv'
<1>1. /\ stage = "turn" /\ ~waiting /\ queue = <<>> /\ Quiet /\ ~terminated
      /\ pending = {} /\ active' = active /\ SomeFaint /\ UNCHANGED <<turns, queue>>
  BY DEF EndTurn, IInv, RoundInv, SelectionIsUsable, FieldInv, StageInv
<1>2. OneSlotEach'
  BY <1>1 DEF FieldInv, OneSlotEach
<1>3. CASE Win /\ UNCHANGED requests
  <2>1. pending' = {} /\ (stage' = "idle" => terminated')
    BY <1>3 DEF Win
  <2>. QED  BY <1>1, <1>2, <1>3, <2>1, TurnStepField
<1>4. CASE GoOn("idle", {}) /\ AskNext
  <2>1. stage' = "idle" /\ pending' = {} /\ UNCHANGED <<victory, terminated>>
    BY <1>4 DEF GoOn
  <2>2. CASE victory
    <3>1. UNCHANGED requests
      BY <1>4, <2>2 DEF AskNext
    <3>. QED  BY <1>1, <1>2, <1>4, <2>1, <2>2, <3>1, TurnStepField
  <2>3. CASE ~victory
    <3>1. ListsInv'
      BY <1>1, <1>4, <2>1, <2>3, AskNextFits
    <3>2. \A p \in Party : Len(turns'[p]) = 0
      BY <1>1 DEF Quiet
    <3>. QED  BY <1>2, <2>1, <2>3, <3>1, <3>2 DEF FieldInv, StageInv, SwitchTargetsFree
  <2>. QED  BY <2>2, <2>3
<1>. QED  BY <1>3, <1>4 DEF EndTurn

LEMMA EndReplacementsField ==
    ASSUME IInv, FieldInv, EndReplacements
    PROVE  FieldInv'
<1>1. /\ stage = "replace" /\ queue = <<>> /\ Quiet /\ ~terminated
      /\ pending' = {} /\ stage' = "idle" /\ AskNext
      /\ UNCHANGED <<active, turns, queue, victory, terminated>>
  BY DEF EndReplacements, IInv, RoundInv, FieldInv, StageInv, field
<1>2. OneSlotEach'
  BY <1>1 DEF FieldInv, OneSlotEach
<1>3. \A p \in Party : Len(turns'[p]) = 0
  BY <1>1 DEF Quiet
<1>4. SwitchTargetsFree'
  BY <1>1, <1>3 DEF SwitchTargetsFree
<1>5. CASE victory
  <2>1. Quiet' /\ queue' = <<>>
    BY <1>1, <1>5 DEF AskNext, Quiet
  <2>2. ListsInv'
    BY <1>1, <1>5, <2>1, NothingCollected
  <2>. QED  BY <1>1, <1>2, <1>4, <2>1, <2>2 DEF FieldInv, StageInv
<1>6. CASE ~victory
  <2>1. ListsInv'
    BY <1>1, <1>6, AskNextFits
  <2>. QED  BY <1>1, <1>2, <1>4, <1>6, <2>1 DEF FieldInv, StageInv
<1>. QED  BY <1>5, <1>6

LEMMA HandleForfeitField ==
    ASSUME IInv, FieldInv, (\E p \in Party : HandleForfeit(p)) \/ FinishForfeit
    PROVE  FieldInv'
<1>1. /\ UNCHANGED <<active, fainted, pending, queue, stage>>
      /\ stage \in {"idle", "select"}
  BY DEF HandleForfeit, FinishForfeit, field, Unlocked
<1>2. \/ PickForWaiting /\ UNCHANGED terminated
      \/ terminated' = TRUE /\ UNCHANGED <<requests, turns>>
  BY DEF HandleForfeit, FinishForfeit
<1>3. PickForWaiting => queue = <<>> /\ stage = "select"
  BY DEF PickForWaiting, IInv, SelectionIsUsable, RoundInv
<1>4. ListsInv'
  BY <1>1, <1>2, <1>3, NothingCollected
<1>5. StageInv'
  BY <1>1, <1>2, <1>3 DEF FieldInv, StageInv
<1>6. OneSlotEach'
  BY <1>1 DEF FieldInv, OneSlotEach
<1>7. SwitchTargetsFree'
  <2>1. CASE terminated'
    BY <2>1 DEF SwitchTargetsFree
  <2>2. CASE PickForWaiting /\ UNCHANGED terminated
    <3>1. \A p \in Party : turns'[p] = <<>> /\ Len(turns'[p]) = 0
      BY <1>3, <2>2 DEF PickForWaiting, IInv, RoundInv, TypeOK
    <3>2. pending' = pending /\ \A p : Reserve(p)' = Reserve(p)
      BY <1>1 DEF Reserve, Alive, OnField
    <3>. QED  BY <2>2, <3>1, <3>2 DEF FieldInv, SwitchTargetsFree
  <2>. QED  BY <1>2, <2>1, <2>2
<1>. QED  BY <1>4, <1>5, <1>6, <1>7 DEF FieldInv

(* The two lists of a turn, one after the other: where each entry is.      *)
PlaceOf(q, k, m) == IF q = 0 THEN k ELSE m + k

LEMMA PlacesOf ==
    ASSUME NEW m \in Nat, NEW n \in Nat
    PROVE  /\ \A i \in 1 .. m + n : \E q \in Party :
                \E k \in 1 .. (IF q = 0 THEN m ELSE n) : i = PlaceOf(q, k, m)
           /\ \A k \in 1 .. m : PlaceOf(0, k, m) = k /\ k \in 1 .. m + n
           /\ \A k \in 1 .. n : PlaceOf(1, k, m) = m + k /\ m + k \in 1 .. m + n
<1>1. \A k \in 1 .. m : PlaceOf(0, k, m) = k /\ k \in 1 .. m + n
  BY DEF PlaceOf
<1>2. \A k \in 1 .. n : PlaceOf(1, k, m) = m + k /\ m + k \in 1 .. m + n
  BY DEF PlaceOf
<1>3. ASSUME NEW i \in 1 .. m + n
      PROVE  \E q \in Party : \E k \in 1 .. (IF q = 0 THEN m ELSE n) : i = PlaceOf(q, k, m)
  <2>0. 0 \in Party /\ 1 \in Party
    BY DEF Party
  <2>1. CASE i <= m
    <3>1. i \in 1 .. (IF 0 = 0 THEN m ELSE n) /\ i = PlaceOf(0, i, m)
      BY <2>1 DEF PlaceOf
    <3>. QED  BY <2>0, <3>1
  <2>2. CASE ~(i <= m)
    <3>1. i - m \in 1 .. n /\ i = m + (i - m)
      BY <2>2
    <3>2. i - m \in 1 .. (IF 1 = 0 THEN m ELSE n) /\ i = PlaceOf(1, i - m, m)
      BY <3>1 DEF PlaceOf
    <3>. QED  BY <2>0, <3>2
  <2>. QED  BY <2>1, <2>2
<1>. QED  BY <1>1, <1>2, <1>3

LEMMA PlacesInLists ==
    ASSUME NEW S, NEW a \in Seq(S), NEW b \in Seq(S)
    PROVE  /\ a \o b \in Seq(S) /\ Len(a \o b) = Len(a) + Len(b)
           /\ \A k \in 1 .. Len(a) : (a \o b)[PlaceOf(0, k, Len(a))] = a[k]
<1>1. Len(a) \in Nat /\ Len(b) \in Nat
  OBVIOUS
<1>2. ASSUME NEW k \in 1 .. Len(a)
      PROVE  (a \o b)[PlaceOf(0, k, Len(a))] = a[k]
  <2>1. PlaceOf(0, k, Len(a)) = k
    BY DEF PlaceOf
  <2>2. k \in 1 .. Len(a) + Len(b) /\ k <= Len(a)
    BY <1>1
  <2>3. (a \o b)[k] = IF k <= Len(a) THEN a[k] ELSE b[k - Len(a)]
    BY <2>2, ConcatProperties
  <2>. QED  BY <2>1, <2>2, <2>3
<1>. QED  BY <1>2, ConcatProperties

LEMMA SecondPlaces ==
    ASSUME NEW S, NEW a \in Seq(S), NEW b \in Seq(S)
    PROVE  \A k \in 1 .. Len(b) : (a \o b)[PlaceOf(1, k, Len(a))] = b[k]
<1>1. Len(a) \in Nat /\ Len(b) \in Nat
  OBVIOUS
<1>2. ASSUME NEW k \in 1 .. Len(b)
      PROVE  (a \o b)[PlaceOf(1, k, Len(a))] = b[k]
  <2>1. PlaceOf(1, k, Len(a)) = Len(a) + k /\ Len(a) + k \in 1 .. Len(a) + Len(b)
    BY <1>1, PlacesOf
  <2>2. ~(Len(a) + k <= Len(a)) /\ (Len(a) + k) - Len(a) = k
    BY <1>1
  <2>3. (a \o b)[Len(a) + k] = IF Len(a) + k <= Len(a) THEN a[Len(a) + k]
                               ELSE b[(Len(a) + k) - Len(a)]
    BY <2>1, ConcatProperties
  <2>. QED  BY <2>1, <2>2, <2>3
<1>. QED  BY <1>2

(* The Pokemon of a turn are those of the slots that were asked about,     *)
(* those of party 0 first.                                                 *)
LEMMA InTurnAsked ==
    ASSUME TypeOK, \A q \in Party : requests[q] = InSlotOrder(Asked(q))
    PROVE  /\ Len(InTurn) = Len(requests[0]) + Len(requests[1])
           /\ \A q \in Party : \A k \in 1 .. Len(requests[q]) :
                InTurn[PlaceOf(q, k, Len(requests[0]))] =
                    [party |-> q, mon |-> active[q][requests[q][k]]]
<1>. DEFINE list(q) == PokemonOf(q, Asked(q))
            entry(q, k) == [party |-> q, mon |-> active[q][requests[q][k]]]
            all == {entry(q, k) : q \in Party, k \in Nat}
<1>1. ASSUME NEW q \in Party
      PROVE  /\ Len(requests[q]) \in Nat /\ Len(list(q)) = Len(requests[q])
             /\ list(q) \in Seq(all)
             /\ \A k \in 1 .. Len(requests[q]) : list(q)[k] = entry(q, k)
  <2>1. Asked(q) \in SUBSET Slot
    BY DEF Asked, ToReplace, FaintedSlots, ActiveSlots
  <2>2. Len(requests[q]) = Cardinality(Asked(q)) /\ Cardinality(Asked(q)) \in Nat
    BY <2>1, SlotOrderType, SlotSets
  <2>3. PICK n \in Nat : n = Len(requests[q])
    BY <2>2
  <2>4. list(q) = [k \in 1 .. n |-> entry(q, k)]
    BY <2>2, <2>3 DEF PokemonOf
  <2>5. \A k \in 1 .. n : entry(q, k) \in all
    OBVIOUS
  <2>. HIDE DEF all, entry, list
  <2>6. list(q) \in Seq(all) /\ Len(list(q)) = n
    BY <2>4, <2>5
  <2>7. \A k \in 1 .. n : list(q)[k] = entry(q, k)
    BY <2>4
  <2>. QED  BY <2>3, <2>6, <2>7
<1>2. InTurn = list(0) \o list(1)
  BY DEF InTurn, Asked
<1>3. 0 \in Party /\ 1 \in Party
  BY DEF Party
<1>. HIDE DEF list, entry, all
<1>4. /\ list(0) \in Seq(all) /\ list(1) \in Seq(all)
      /\ Len(list(0)) = Len(requests[0]) /\ Len(list(1)) = Len(requests[1])
  BY <1>1, <1>3
<1>5. /\ Len(InTurn) = Len(requests[0]) + Len(requests[1])
      /\ \A k \in 1 .. Len(requests[0]) : InTurn[PlaceOf(0, k, Len(requests[0]))] = list(0)[k]
      /\ \A k \in 1 .. Len(requests[1]) : InTurn[PlaceOf(1, k, Len(requests[0]))] = list(1)[k]
  <2>1. Len(list(0) \o list(1)) = Len(list(0)) + Len(list(1))
    BY <1>4, PlacesInLists, Zenon
  <2>2. \A k \in 1 .. Len(list(0)) :
            (list(0) \o list(1))[PlaceOf(0, k, Len(list(0)))] = list(0)[k]
    BY <1>4, PlacesInLists, Zenon
  <2>3. \A k \in 1 .. Len(list(1)) :
            (list(0) \o list(1))[PlaceOf(1, k, Len(list(0)))] = list(1)[k]
    BY <1>4, SecondPlaces, Zenon
  <2>. QED  BY <1>2, <1>4, <2>1, <2>2, <2>3, Zenon
<1>6. ASSUME NEW q \in Party, NEW k \in 1 .. Len(requests[q])
      PROVE  InTurn[PlaceOf(q, k, Len(requests[0]))] = entry(q, k)
  <2>1. CASE q = 0
    BY <1>1, <1>5, <2>1, Zenon
  <2>2. CASE q = 1
    BY <1>1, <1>5, <2>2, Zenon
  <2>. QED  BY <2>1, <2>2 DEF Party
<1>. QED  BY <1>5, <1>6 DEF entry

(* The answers after handleTurn has added one.                             *)
Answered(p, t) ==
    [turns EXCEPT ![p] = Append(@, [type |-> t.type, id |-> t.id,
                                    by |-> active[p][requests[p][Len(turns[p]) + 1]]])]

LEMMA AnswerFits ==
    ASSUME IInv, FieldInv, NEW p \in Party, NEW t \in Answers(p), HandleTurn(p, t),
           NEW q \in Party
    PROVE  /\ Answered(p, t)[q] \in Seq(Turn)
           /\ Len(Answered(p, t)[q]) <= Len(requests[q])
           /\ \A i \in 1 .. Len(Answered(p, t)[q]) : Answered(p, t)[q][i].type = "switch" =>
                 /\ Answered(p, t)[q][i].id \in Reserve(q)
                 /\ \A j \in 1 .. i - 1 : Answered(p, t)[q][j].type = "switch" =>
                        Answered(p, t)[q][j].id # Answered(p, t)[q][i].id
           /\ Collecting => \A i \in 1 .. Len(Answered(p, t)[q]) :
                 /\ Answered(p, t)[q][i].by = active[q][requests[q][i]]
                 /\ replacement => Answered(p, t)[q][i].type = "switch"
<1>. DEFINE n == Len(turns[p])
            answer == [type |-> t.type, id |-> t.id, by |-> active[p][requests[p][n + 1]]]
<1>1. /\ t.type \in {"move", "switch"} /\ t.id \in Nat /\ ~terminated
      /\ t.type = "switch" => t.id \in Reserve(p)
      /\ replacement => t.type = "switch"
      /\ \A i \in 1 .. n : turns[p][i].type = "switch" /\ t.type = "switch"
                           => turns[p][i].id # t.id
  BY ConstantTypes DEF Answers, HandleTurn, TurnLegal, AlreadyChosen
<1>2. /\ turns[q] \in Seq(Turn) /\ requests[q] \in Seq(Slot)
      /\ Len(turns[q]) \in Nat /\ Len(requests[q]) \in Nat
      /\ Len(turns[q]) <= Len(requests[q])
  BY DEF IInv, TypeOK, RoundInv
<1>3. /\ \A i \in 1 .. Len(turns[q]) : turns[q][i].type = "switch" =>
            /\ turns[q][i].id \in Reserve(q)
            /\ \A j \in 1 .. i - 1 : turns[q][j].type = "switch" => turns[q][j].id # turns[q][i].id
      /\ Collecting => \A i \in 1 .. Len(turns[q]) :
            /\ turns[q][i].by = active[q][requests[q][i]]
            /\ replacement => turns[q][i].type = "switch"
  BY <1>1 DEF FieldInv, SwitchTargetsFree, ListsInv, RequestsFitField, ReplacingInv
<1>4. CASE q # p
  <2>1. Answered(p, t)[q] = turns[q]
    BY <1>4 DEF Answered, IInv, TypeOK
  <2>. QED  BY <1>2, <1>3, <2>1
<1>5. CASE q = p
  <2>1. n \in Nat /\ Len(requests[p]) \in Nat /\ n < Len(requests[p]) /\ n + 1 \in 1 .. Len(requests[p])
    BY <1>2, <1>5 DEF HandleTurn
  <2>2. answer \in Turn
    <3>1. requests[p][n + 1] \in Slot
      BY <1>2, <1>5, <2>1, ElementOfSeq
    <3>2. active[p][requests[p][n + 1]] \in Nat \cup {NoMon}
      BY <3>1 DEF IInv, TypeOK
    <3>. QED  BY <1>1, <3>2 DEF Turn
  <2>3. /\ Answered(p, t)[p] = Append(turns[p], answer)
        /\ turns[p] \in Seq(Turn)
    BY DEF Answered, IInv, TypeOK
  <2>. DEFINE ans == Answered(p, t)[p]
  <2>4. /\ ans \in Seq(Turn) /\ Len(ans) = n + 1 /\ ans[n + 1] = answer
        /\ \A i \in 1 .. n : ans[i] = turns[p][i]
    BY <2>2, <2>3, AppendProperties
  <2>. HIDE DEF ans
  <2>5. ASSUME NEW i \in 1 .. Len(ans)
        PROVE  /\ ans[i].type = "switch" =>
                     /\ ans[i].id \in Reserve(p)
                     /\ \A j \in 1 .. i - 1 : ans[j].type = "switch" => ans[j].id # ans[i].id
               /\ Collecting => /\ ans[i].by = active[p][requests[p][i]]
                                /\ replacement => ans[i].type = "switch"
    <3>1. CASE i \in 1 .. n
      <4>1. ans[i] = turns[p][i] /\ \A j \in 1 .. i - 1 : j \in 1 .. n /\ ans[j] = turns[p][j]
        BY <2>1, <2>4, <3>1
      <4>. QED  BY <1>3, <1>5, <3>1, <4>1
    <3>2. CASE i = n + 1
      <4>1. ans[i] = answer /\ \A j \in 1 .. i - 1 : j \in 1 .. n /\ ans[j] = turns[p][j]
        BY <2>1, <2>4, <3>2
      <4>. QED  BY <1>1, <3>2, <4>1
    <3>. QED  BY <2>1, <2>4, <3>1, <3>2
  <2>6. Len(ans) <= Len(requests[p])
    BY <2>1, <2>4
  <2>. QED  BY <1>5, <2>4, <2>5, <2>6 DEF ans
<1>. QED  BY <1>4, <1>5

(* A posted turn fits the field, position by position.                     *)
Posted(p, t) == Answered(p, t)[0] \o Answered(p, t)[1]

FitsTurn(batch) ==
    /\ Len(batch) = Len(InTurn)
    /\ \A i \in 1 .. Len(batch) :
        /\ batch[i].by = InTurn[i].mon
        /\ replacement => batch[i].type = "switch"
        /\ batch[i].type = "switch" =>
             /\ batch[i].id \in Reserve(InTurn[i].party)
             /\ \A j \in 1 .. Len(batch) :
                  j # i /\ batch[j].type = "switch" /\ InTurn[j].party = InTurn[i].party
                  => batch[j].id # batch[i].id

LEMMA PostedFits ==
    ASSUME IInv, FieldInv, NEW p \in Party, NEW t \in Answers(p), HandleTurn(p, t), Collecting,
           \A q \in Party : Len(requests[q]) = Len(Answered(p, t)[q])
    PROVE  FitsTurn(Posted(p, t))
<1>. DEFINE ans == Answered(p, t)
            place(q, k) == PlaceOf(q, k, Len(requests[0]))
<1>0. \A q \in Party : /\ ans[q] \in Seq(Turn)
                       /\ \A i \in 1 .. Len(ans[q]) :
                            /\ ans[q][i].type = "switch" =>
                                 /\ ans[q][i].id \in Reserve(q)
                                 /\ \A j \in 1 .. i - 1 : ans[q][j].type = "switch"
                                                          => ans[q][j].id # ans[q][i].id
                            /\ ans[q][i].by = active[q][requests[q][i]]
                            /\ replacement => ans[q][i].type = "switch"
  BY AnswerFits, SMTT(30)
<1>. DEFINE batch == Posted(p, t)
<1>. HIDE DEF ans, batch
<1>1. \A q \in Party :
        /\ requests[q] = InSlotOrder(Asked(q)) /\ ans[q] \in Seq(Turn)
        /\ Len(ans[q]) = Len(requests[q]) /\ Len(requests[q]) \in Nat
  BY <1>0 DEF ans, FieldInv, ListsInv, RequestsFitField, IInv, TypeOK
<1>2. /\ Len(InTurn) = Len(requests[0]) + Len(requests[1])
      /\ \A q \in Party : \A k \in 1 .. Len(requests[q]) :
            InTurn[place(q, k)] = [party |-> q, mon |-> active[q][requests[q][k]]]
  BY <1>1, InTurnAsked DEF IInv
<1>3. \A q \in Party : \A k \in 1 .. Len(requests[q]) :
        /\ ans[q][k].type = "switch" =>
             /\ ans[q][k].id \in Reserve(q)
             /\ \A j \in 1 .. k - 1 : ans[q][j].type = "switch" => ans[q][j].id # ans[q][k].id
        /\ ans[q][k].by = active[q][requests[q][k]]
        /\ replacement => ans[q][k].type = "switch"
  BY <1>0, <1>1
<1>p. 0 \in Party /\ 1 \in Party
  BY DEF Party
<1>4. /\ batch \in Seq(Turn) /\ Len(batch) = Len(requests[0]) + Len(requests[1])
      /\ \A q \in Party : \A k \in 1 .. Len(requests[q]) : batch[place(q, k)] = ans[q][k]
  <2>1. /\ ans[0] \in Seq(Turn) /\ ans[1] \in Seq(Turn) /\ batch = ans[0] \o ans[1]
        /\ Len(ans[0]) = Len(requests[0]) /\ Len(ans[1]) = Len(requests[1])
    BY <1>1, <1>p DEF ans, batch, Posted
  <2>2. /\ batch \in Seq(Turn) /\ Len(batch) = Len(requests[0]) + Len(requests[1])
        /\ \A k \in 1 .. Len(requests[0]) : batch[place(0, k)] = ans[0][k]
        /\ \A k \in 1 .. Len(requests[1]) : batch[place(1, k)] = ans[1][k]
    <3>1. ans[0] \o ans[1] \in Seq(Turn)
      BY <2>1, PlacesInLists, Zenon
    <3>2. Len(ans[0] \o ans[1]) = Len(ans[0]) + Len(ans[1])
      BY <2>1, PlacesInLists, Zenon
    <3>3. \A k \in 1 .. Len(ans[0]) :
              (ans[0] \o ans[1])[PlaceOf(0, k, Len(ans[0]))] = ans[0][k]
      BY <2>1, PlacesInLists, Zenon
    <3>4. \A k \in 1 .. Len(ans[1]) :
              (ans[0] \o ans[1])[PlaceOf(1, k, Len(ans[0]))] = ans[1][k]
      BY <2>1, SecondPlaces, ZenonT(60)
    <3>. QED  BY <2>1, <3>1, <3>2, <3>3, <3>4, Zenon
  <2>3. ASSUME NEW q \in Party, NEW k \in 1 .. Len(requests[q])
        PROVE  batch[place(q, k)] = ans[q][k]
    <3>0. q = 0 \/ q = 1
      BY DEF Party
    <3>. HIDE DEF place
    <3>1. CASE q = 0
      BY <2>2, <3>1, Zenon
    <3>2. CASE q = 1
      BY <2>2, <3>2, Zenon
    <3>. QED  BY <3>0, <3>1, <3>2, Zenon
  <2>. QED  BY <2>2, <2>3
<1>5. ASSUME NEW i \in 1 .. Len(batch)
      PROVE  \E q \in Party : \E k \in 1 .. Len(requests[q]) :
                i = place(q, k) /\ batch[i] = ans[q][k]
  <2>1. Len(requests[0]) \in Nat /\ Len(requests[1]) \in Nat
        /\ i \in 1 .. Len(requests[0]) + Len(requests[1])
    BY <1>1, <1>4, <1>p
  <2>2. PICK q \in Party : \E k \in 1 .. (IF q = 0 THEN Len(requests[0]) ELSE Len(requests[1])) :
                i = place(q, k)
    BY <2>1, PlacesOf
  <2>3. (IF q = 0 THEN Len(requests[0]) ELSE Len(requests[1])) = Len(requests[q])
    BY DEF Party
  <2>4. PICK k \in 1 .. Len(requests[q]) : i = place(q, k)
    BY <2>2, <2>3
  <2>. QED  BY <1>4, <2>4
<1>6. ASSUME NEW i \in 1 .. Len(batch)
      PROVE  /\ batch[i].by = InTurn[i].mon
             /\ replacement => batch[i].type = "switch"
             /\ batch[i].type = "switch" =>
                  /\ batch[i].id \in Reserve(InTurn[i].party)
                  /\ \A j \in 1 .. Len(batch) :
                       j # i /\ batch[j].type = "switch" /\ InTurn[j].party = InTurn[i].party
                       => batch[j].id # batch[i].id
  <2>1. PICK q \in Party : \E k \in 1 .. Len(requests[q]) :
                i = place(q, k) /\ batch[i] = ans[q][k]
    BY <1>5
  <2>2. PICK k \in 1 .. Len(requests[q]) : i = place(q, k) /\ batch[i] = ans[q][k]
    BY <2>1
  <2>3. InTurn[i] = [party |-> q, mon |-> active[q][requests[q][k]]]
    BY <1>2, <2>2
  <2>4. /\ batch[i].by = InTurn[i].mon
        /\ replacement => batch[i].type = "switch"
        /\ batch[i].type = "switch" => batch[i].id \in Reserve(InTurn[i].party)
    BY <1>3, <2>2, <2>3
  <2>5. ASSUME NEW j \in 1 .. Len(batch), j # i, batch[j].type = "switch",
               batch[i].type = "switch", InTurn[j].party = InTurn[i].party
        PROVE  batch[j].id # batch[i].id
    <3>1. PICK r \in Party : \E l \in 1 .. Len(requests[r]) :
                j = place(r, l) /\ batch[j] = ans[r][l]
      BY <1>5
    <3>2. PICK l \in 1 .. Len(requests[r]) : j = place(r, l) /\ batch[j] = ans[r][l]
      BY <3>1
    <3>3. r = q
      <4>1. InTurn[j] = [party |-> r, mon |-> active[r][requests[r][l]]]
        BY <1>2, <3>2
      <4>. QED  BY <2>3, <2>5, <4>1
    <3>4. k # l /\ k \in Nat /\ l \in Nat
      BY <2>2, <2>5, <3>2, <3>3
    <3>5. k \in 1 .. l - 1 \/ l \in 1 .. k - 1
      BY <3>2, <3>4
    <3>. QED  BY <1>3, <2>2, <2>5, <3>2, <3>3, <3>5
  <2>. QED  BY <2>4, <2>5
<1>. QED  BY <1>2, <1>4, <1>6 DEF FitsTurn, batch

LEMMA HandleTurnField ==
    ASSUME IInv, FieldInv, NEW p \in Party, NEW t \in Answers(p), HandleTurn(p, t)
    PROVE  FieldInv'
<1>. DEFINE ans == Answered(p, t)
<1>1. /\ stage \in {"idle", "select"} /\ ~terminated
      /\ UNCHANGED <<active, fainted, replacement, victory, terminated, stage, pending>>
      /\ \/ Len(ans[p]) < Len(requests[p]) /\ turns' = ans /\ UNCHANGED <<queue, requests>>
         \/ /\ waiting /\ UNCHANGED queue
            /\ turns' = [turns EXCEPT ![p] = <<>>]
         \/ ~waiting /\ MaybeExecuteTurn(ans)
  BY DEF HandleTurn, Unlocked, field, Answered
<1>2. /\ ~Quiet /\ queue = <<>>
      /\ waiting => stage = "select"
      /\ stage = "idle" => ~victory
  <2>1. ~Quiet
    BY DEF HandleTurn, Quiet
  <2>. QED  BY <1>1, <2>1 DEF IInv, RoundInv, SelectionIsUsable, FieldInv, StageInv
<1>3. \A q \in Party :
        /\ ans[q] \in Seq(Turn) /\ Len(ans[q]) <= Len(requests[q])
        /\ \A i \in 1 .. Len(ans[q]) : ans[q][i].type = "switch" =>
             /\ ans[q][i].id \in Reserve(q)
             /\ \A j \in 1 .. i - 1 : ans[q][j].type = "switch" => ans[q][j].id # ans[q][i].id
        /\ Collecting => \A i \in 1 .. Len(ans[q]) :
             /\ ans[q][i].by = active[q][requests[q][i]]
             /\ replacement => ans[q][i].type = "switch"
  BY AnswerFits
<1>4. StageInv'
  BY <1>1, <1>2 DEF StageInv, FieldInv
<1>5. OneSlotEach'
  BY <1>1 DEF FieldInv, OneSlotEach
<1>6. \A q \in Party : turns'[q] \in {<<>>, turns[q], ans[q]}
  BY <1>1 DEF MaybeExecuteTurn, IInv, TypeOK
<1>7. SwitchTargetsFree'
  <2>1. \A q : Reserve(q)' = Reserve(q)
    BY <1>1 DEF Reserve, Alive, OnField
  <2>2. \A a \in pending' : a.type = "switch" =>
            /\ a.id \in Reserve(a.party)'
            /\ \A b \in pending' : (b # a /\ b.party = a.party /\ b.type = "switch")
                                   => b.id # a.id
    BY <1>1, <2>1 DEF FieldInv, SwitchTargetsFree
  <2>3. ASSUME NEW q \in Party, NEW i \in 1 .. Len(turns'[q]), turns'[q][i].type = "switch"
        PROVE  /\ turns'[q][i].id \in Reserve(q)'
               /\ \A j \in 1 .. i - 1 : turns'[q][j].type = "switch"
                                        => turns'[q][j].id # turns'[q][i].id
    <3>1. CASE turns'[q] = <<>>
      BY <2>3, <3>1
    <3>2. CASE turns'[q] = turns[q]
      BY <1>1, <2>1, <2>3, <3>2 DEF FieldInv, SwitchTargetsFree
    <3>3. CASE turns'[q] = ans[q]
      BY <1>3, <2>1, <2>3, <3>3
    <3>. QED  BY <1>6, <3>1, <3>2, <3>3
  <2>. QED  BY <2>2, <2>3 DEF SwitchTargetsFree
<1>8. ListsInv'
  <2>0. \A q : Asked(q)' = Asked(q)
    BY <1>1 DEF Asked, ToReplace, FaintedSlots, ActiveSlots, Reserve, Alive, OnField
  <2>1. CASE stage = "select"
    <3>1. queue' = <<>>
      BY <1>1, <1>2, <2>1 DEF HandleTurn, IInv, RoundInv
    <3>. QED  BY <1>1, <2>1, <3>1, NothingCollected
  <2>2. CASE stage = "idle"
    <3>1. Collecting /\ ~waiting
      BY <1>1, <1>2, <2>2 DEF Collecting
    <3>2. \A q \in Party : requests[q] = InSlotOrder(Asked(q)) /\ Len(requests[q]) \in Nat
      BY <3>1 DEF FieldInv, ListsInv, RequestsFitField, IInv, TypeOK
    <3>3. CASE turns' = ans /\ UNCHANGED <<queue, requests>>
      <4>1. ASSUME NEW q \in Party
            PROVE  /\ requests'[q] = InSlotOrder(Asked(q)')
                   /\ Len(turns'[q]) <= Len(requests'[q])
                   /\ \A i \in 1 .. Len(turns'[q]) :
                        /\ turns'[q][i].by = active'[q][requests'[q][i]]
                        /\ replacement' => turns'[q][i].type = "switch"
        BY <1>1, <1>3, <2>0, <3>1, <3>2, <3>3
      <4>2. RequestsFitField' /\ ReplacingInv'
        BY <4>1 DEF RequestsFitField, ReplacingInv
      <4>. QED  BY <1>1, <1>2, <2>2, <3>3, <4>2 DEF ListsInv, BatchFitsField, BatchInv
    <3>4. CASE /\ \A q \in Party : Len(requests[q]) = Len(ans[q])
               /\ queue' = Append(queue, ans[0] \o ans[1])
               /\ turns' = [q \in Party |-> <<>>]
               /\ requests' = [q \in Party |-> <<>>]
      <4>. DEFINE batch == Posted(p, t)
      <4>1. queue' = <<batch>> /\ Head(queue') = batch /\ Len(queue') = 1 /\ queue' # <<>>
        <5>1. queue' = Append(<<>>, batch)
          BY <1>2, <3>4 DEF Posted
        <5>2. Append(<<>>, batch) = <<batch>>
          OBVIOUS
        <5>. HIDE DEF batch
        <5>. QED  BY <5>1, <5>2
      <4>2. InTurn' = InTurn /\ \A q : Reserve(q)' = Reserve(q)
        BY <1>1 DEF InTurn, PokemonOf, ToReplace, FaintedSlots, ActiveSlots, Reserve, Alive,
           OnField
      <4>3. FitsTurn(batch)
        <5>1. \A q \in Party : Len(requests[q]) = Len(Answered(p, t)[q])
          BY <3>4
        <5>. QED  BY <3>1, <5>1, PostedFits
      <4>. HIDE DEF batch
      <4>4. BatchFitsField'
        BY <1>1, <2>2, <3>4, <4>1, <4>2, <4>3 DEF BatchFitsField, FitsTurn
      <4>5. BatchInv'
        BY <4>1, <4>2, <4>3 DEF BatchInv, FitsTurn
      <4>. QED  BY <4>1, <4>4, <4>5 DEF ListsInv, RequestsFitField, ReplacingInv, Collecting
    <3>. QED  BY <1>1, <3>1, <3>3, <3>4 DEF MaybeExecuteTurn
  <2>. QED  BY <1>1, <2>1, <2>2
<1>. QED  BY <1>4, <1>5, <1>7, <1>8 DEF FieldInv

(* handleCancelTurn leaves the answers before the last one.                *)
LEMMA HandleCancelTurnField ==
    ASSUME IInv, FieldInv, NEW p \in Party, HandleCancelTurn(p)
    PROVE  FieldInv'
<1>1. turns[p] \in Seq(Turn) /\ turns[p] # <<>> /\ Len(turns[p]) \in Nat \ {0}
  BY EmptySeq DEF HandleCancelTurn, IInv, TypeOK
<1>2. /\ stage = "idle" /\ queue = <<>> /\ ~Quiet /\ ~terminated /\ ~victory
      /\ UNCHANGED <<active, fainted, requests, replacement, victory, terminated, queue, stage,
                     pending>>
      /\ turns' = [turns EXCEPT ![p] = SubSeq(turns[p], 1, Len(turns[p]) - 1)]
  BY <1>1 DEF HandleCancelTurn, Unlocked, IInv, RoundInv, Quiet, FieldInv, StageInv, field
<1>3. ASSUME NEW q \in Party
      PROVE  /\ Len(turns'[q]) \in Nat /\ Len(turns[q]) \in Nat
             /\ Len(turns'[q]) <= Len(turns[q])
             /\ \A i \in 1 .. Len(turns'[q]) : turns'[q][i] = turns[q][i]
  <2>1. CASE q = p
    <3>1. turns'[q] = SubSeq(turns[p], 1, Len(turns[p]) - 1)
      BY <1>2, <2>1 DEF IInv, TypeOK
    <3>2. /\ Len(SubSeq(turns[p], 1, Len(turns[p]) - 1)) = Len(turns[p]) - 1
          /\ \A i \in 1 .. Len(turns[p]) - 1 :
                SubSeq(turns[p], 1, Len(turns[p]) - 1)[i] = turns[p][i]
      BY <1>1
    <3>. QED  BY <1>1, <2>1, <3>1, <3>2
  <2>2. CASE q # p
    BY <1>2, <2>2 DEF IInv, TypeOK
  <2>. QED  BY <2>1, <2>2
<1>4. \A q : Asked(q)' = Asked(q) /\ Reserve(q)' = Reserve(q)
  BY <1>2 DEF Asked, ToReplace, FaintedSlots, ActiveSlots, Reserve, Alive, OnField
<1>5. StageInv' /\ OneSlotEach'
  BY <1>2 DEF FieldInv, StageInv, OneSlotEach
<1>6. Collecting
  BY <1>2 DEF Collecting
<1>7. ASSUME NEW q \in Party
      PROVE  /\ requests'[q] = InSlotOrder(Asked(q)')
             /\ Len(turns'[q]) <= Len(requests'[q])
             /\ \A i \in 1 .. Len(turns'[q]) :
                  /\ turns'[q][i].by = active'[q][requests'[q][i]]
                  /\ replacement' => turns'[q][i].type = "switch"
  <2>1. /\ requests[q] = InSlotOrder(Asked(q)) /\ Len(turns[q]) <= Len(requests[q])
        /\ Len(requests[q]) \in Nat
        /\ \A i \in 1 .. Len(turns[q]) :
             /\ turns[q][i].by = active[q][requests[q][i]]
             /\ replacement => turns[q][i].type = "switch"
    BY <1>6 DEF FieldInv, ListsInv, RequestsFitField, ReplacingInv, IInv, TypeOK
  <2>2. \A i \in 1 .. Len(turns'[q]) : i \in 1 .. Len(turns[q])
    BY <1>3
  <2>. QED  BY <1>2, <1>3, <1>4, <2>1, <2>2
<1>8. ListsInv'
  <2>1. RequestsFitField' /\ ReplacingInv'
    BY <1>7 DEF RequestsFitField, ReplacingInv
  <2>. QED  BY <1>2, <2>1 DEF ListsInv, BatchFitsField, BatchInv
<1>9. SwitchTargetsFree'
  <2>1. ASSUME NEW q \in Party, NEW i \in 1 .. Len(turns'[q]), turns'[q][i].type = "switch"
        PROVE  /\ turns'[q][i].id \in Reserve(q)'
               /\ \A j \in 1 .. i - 1 : turns'[q][j].type = "switch"
                                        => turns'[q][j].id # turns'[q][i].id
    <3>1. /\ i \in 1 .. Len(turns[q]) /\ turns'[q][i] = turns[q][i]
          /\ \A j \in 1 .. i - 1 : turns'[q][j] = turns[q][j]
      BY <1>3
    <3>. QED  BY <1>2, <1>4, <2>1, <3>1 DEF FieldInv, SwitchTargetsFree
  <2>2. \A a \in pending' : a.type = "switch" =>
            /\ a.id \in Reserve(a.party)'
            /\ \A b \in pending' : (b # a /\ b.party = a.party /\ b.type = "switch")
                                   => b.id # a.id
    BY <1>2, <1>4 DEF FieldInv, SwitchTargetsFree
  <2>. QED  BY <2>1, <2>2 DEF SwitchTargetsFree
<1>. QED  BY <1>5, <1>8, <1>9 DEF FieldInv

(* beginBattle asks about the Pokemon that it sent out.                    *)
LEMMA InitField == Init => FieldInv
<1>. SUFFICES ASSUME Init PROVE FieldInv
  OBVIOUS
<1>1. \A p \in Party : turns[p] = <<>> /\ Len(turns[p]) = 0
  BY DEF Init
<1>2. \A p \in Party : requests[p] = InSlotOrder(Asked(p)) /\ Len(requests[p]) \in Nat
  <2>1. ASSUME NEW p \in Party
        PROVE  requests[p] = InSlotOrder(Asked(p)) /\ Len(requests[p]) \in Nat
    <3>1. ActiveSlots(p) \in SUBSET Slot /\ Asked(p) = ActiveSlots(p)
      BY DEF Init, Asked, ActiveSlots
    <3>2. InSlotOrder(ActiveSlots(p)) \in Seq(Slot)
      BY <3>1, SlotOrderType
    <3>. QED  BY <3>1, <3>2 DEF Init
  <2>. QED  BY <2>1
<1>3. RequestsFitField
  BY <1>1, <1>2 DEF RequestsFitField
<1>4. ReplacingInv /\ BatchFitsField /\ BatchInv /\ StageInv
  BY DEF Init, ReplacingInv, BatchFitsField, BatchInv, StageInv
<1>5. SwitchTargetsFree
  BY <1>1 DEF Init, SwitchTargetsFree
<1>6. OneSlotEach
  BY ConstantTypes DEF Init, OneSlotEach
<1>. QED  BY <1>3, <1>4, <1>5, <1>6 DEF FieldInv, ListsInv

LEMMA NextField ==
    ASSUME IInv, FieldInv, [Next]_vars
    PROVE  FieldInv'
<1>1. ASSUME NEW p \in Party, NEW t \in Answers(p), HandleTurn(p, t)
      PROVE  FieldInv'
  BY <1>1, HandleTurnField
<1>2. ASSUME NEW p \in Party, HandleCancelTurn(p)
      PROVE  FieldInv'
  BY <1>2, HandleCancelTurnField
<1>3. CASE (\E p \in Party : HandleForfeit(p)) \/ FinishForfeit
  BY <1>3, HandleForfeitField
<1>4. CASE ExecuteTurn
  BY <1>4, ExecuteTurnField
<1>5. ASSUME NEW a \in pending, SkipAction(a) \/ SwitchAction(a)
             \/ MoveAction(a) \/ RequestInactivePokemon(a)
      PROVE  FieldInv'
  BY <1>5, SkipActionField, SwitchActionField, MoveActionField, RequestInactivePokemonField
<1>6. CASE ResumeTurn \/ EndTurn \/ EndReplacements
  BY <1>6, ResumeTurnField, EndTurnField, EndReplacementsField
<1>7. CASE UNCHANGED vars
  <2>1. UNCHANGED <<active, fainted, requests, turns, replacement, victory, terminated, queue,
                    stage, pending>>
    BY <1>7 DEF vars
  <2>2. /\ \A q : Asked(q)' = Asked(q) /\ Reserve(q)' = Reserve(q)
        /\ InTurn' = InTurn
    BY <2>1 DEF Asked, InTurn, PokemonOf, ToReplace, FaintedSlots, ActiveSlots, Reserve, Alive,
       OnField
  <2>3. (Collecting' <=> Collecting) /\ (Quiet' <=> Quiet)
    BY <2>1 DEF Collecting, Quiet
  <2>4. RequestsFitField' /\ ReplacingInv'
    BY <2>1, <2>2, <2>3 DEF FieldInv, ListsInv, RequestsFitField, ReplacingInv
  <2>5. BatchFitsField'
    BY <2>1, <2>2 DEF FieldInv, ListsInv, BatchFitsField
  <2>6. BatchInv'
    BY <2>1, <2>2 DEF FieldInv, ListsInv, BatchInv
  <2>7. StageInv' /\ OneSlotEach'
    BY <2>1, <2>3 DEF FieldInv, StageInv, OneSlotEach
  <2>8. SwitchTargetsFree'
    BY <2>1, <2>2 DEF FieldInv, SwitchTargetsFree
  <2>. QED  BY <2>4, <2>5, <2>6, <2>7, <2>8 DEF FieldInv, ListsInv
<1>. QED  BY <1>1, <1>2, <1>3, <1>4, <1>5, <1>6, <1>7
          DEF Next, Clients, QueueThread

(* What holds of the field and the lists together, throughout.             *)
THEOREM FieldInvariant == Spec => [](IInv /\ FieldInv)
<1>1. Init => IInv /\ FieldInv
  BY InitInv, InitField
<1>2. IInv /\ FieldInv /\ [Next]_vars => (IInv /\ FieldInv)'
  BY NextInv, NextField
<1>. QED  BY <1>1, <1>2, PTL DEF Spec

(* What the players are asked, what they answered and the turn that is     *)
(* posted fit the field, slot by slot: processTurn and processReplacements *)
(* pair turns with Pokemon by position and throw if there are more or      *)
(* fewer, and they never do.                                               *)
THEOREM ListsFit == Spec => []FitsField
<1>1. FieldInv => FitsField
  BY DEF FieldInv, ListsInv, FitsField
<1>. QED  BY <1>1, FieldInvariant, PTL

(* A switch that was accepted can be carried out when its turn comes, and  *)
(* no Pokemon is ever in two slots.                                        *)
THEOREM SwitchesCarriedOut == Spec => []SwitchesFit
<1>1. FieldInv => SwitchesFit
  BY DEF FieldInv, SwitchesFit
<1>. QED  BY <1>1, FieldInvariant, PTL

-----------------------------------------------------------------------------
(* Collecting and executing turns implements the rounds of TurnRounds.     *)

(* A slot holds a member of the team, and the first is never empty: a team *)
(* has a Pokemon for it, and who leaves is replaced.                       *)
SlotsInv ==
    \A p \in Party : /\ active[p][0] # NoMon
                     /\ \A s \in Slot : active[p][s] \in Mon(p) \cup {NoMon}

(* While a battle goes on both parties have somebody left; and a forfeit   *)
(* or a victory is the last thing that is asked about.                     *)
AliveInv == (~terminated /\ stage # "blocked") => \A p \in Party : Alive(p) # {}

DecidedInv ==
    /\ forfeit # NoParty => victory
    /\ (stage = "idle" /\ victory /\ ~terminated) => queue = <<>>

RInv == IInv /\ FieldInv /\ SlotsInv /\ AliveInv /\ DecidedInv

LEMMA InitRounds == Init => SlotsInv /\ AliveInv /\ DecidedInv
<1>. SUFFICES ASSUME Init PROVE SlotsInv /\ AliveInv /\ DecidedInv
  OBVIOUS
<1>1. ASSUME NEW p \in Party
      PROVE  /\ active[p][0] # NoMon /\ Alive(p) # {}
             /\ \A s \in Slot : active[p][s] \in Mon(p) \cup {NoMon}
  <2>1. 0 \in Slot /\ 0 < TeamSize[p] /\ 0 \in Mon(p) /\ TeamSize[p] \in Nat
    BY SizesAssumption, ConstantTypes DEF Slot, Mon
  <2>2. active[p] = [s \in Slot |-> IF s < TeamSize[p] THEN s ELSE NoMon] /\ fainted[p] = {}
    BY DEF Init
  <2>3. active[p][0] = 0 /\ 0 # NoMon
    BY <2>1, <2>2 DEF NoMon
  <2>4. ASSUME NEW s \in Slot
        PROVE  active[p][s] \in Mon(p) \cup {NoMon}
    <3>1. s \in Nat
      BY ConstantTypes
    <3>. QED  BY <2>1, <2>2, <3>1 DEF Mon
  <2>5. 0 \in Alive(p)
    BY <2>1, <2>2 DEF Alive
  <2>. QED  BY <2>3, <2>4, <2>5
<1>. QED  BY <1>1 DEF Init, SlotsInv, AliveInv, DecidedInv

(* A slot changes only when a Pokemon from the bench takes it.             *)
LEMMA SlotsNext ==
    ASSUME IInv, FieldInv, SlotsInv, Next
    PROVE  SlotsInv'
<1>1. \/ active' = active
      \/ \E p \in Party : \E m \in Nat, r \in Reserve(p) : Replace(p, m, r)
  <2>1. CASE (\E p \in Party : HandleForfeit(p)) \/ FinishForfeit
    BY <2>1 DEF HandleForfeit, FinishForfeit, field
  <2>2. CASE \E p \in Party : (\E t \in Answers(p) : HandleTurn(p, t)) \/ HandleCancelTurn(p)
    BY <2>2 DEF HandleTurn, HandleCancelTurn, field
  <2>3. CASE ExecuteTurn \/ EndTurn \/ EndReplacements
    BY <2>3 DEF ExecuteTurn, EndTurn, EndReplacements, field
  <2>4. CASE \E a \in pending : SkipAction(a) \/ RequestInactivePokemon(a)
    BY <2>4 DEF SkipAction, RequestInactivePokemon, field
  <2>5. ASSUME NEW a \in pending, SwitchAction(a)
        PROVE  \E p \in Party : \E m \in Nat, r \in Reserve(p) : Replace(p, m, r)
    <3>1. a.party \in Party /\ a.mon \in Nat /\ ~terminated /\ a.type = "switch"
      BY <2>5 DEF SwitchAction, IInv, TypeOK, Action, FieldInv, StageInv
    <3>2. a.id \in Reserve(a.party)
      BY <3>1 DEF FieldInv, SwitchTargetsFree
    <3>. QED  BY <2>5, <3>1, <3>2 DEF SwitchAction
  <2>6. ASSUME NEW a \in pending, MoveAction(a)
        PROVE  \/ active' = active
               \/ \E p \in Party : \E m \in Nat, r \in Reserve(p) : Replace(p, m, r)
    <3>1. \A p \in Party : OnField(p) \subseteq Nat
      BY DEF IInv, TypeOK, OnField
    <3>. QED  BY <2>6, <3>1 DEF MoveAction, DragOut
  <2>7. ASSUME ResumeTurn
        PROVE  \/ active' = active
               \/ \E p \in Party : \E m \in Nat, r \in Reserve(p) : Replace(p, m, r)
    <3>1. CASE terminated
      BY <2>7, <3>1 DEF ResumeTurn, field
    <3>2. CASE ~terminated
      <4>1. /\ user.party \in Party /\ user.mon \in Nat
            /\ selection.mon \in Reserve(user.party)
        BY <2>7, <3>2 DEF ResumeTurn, IInv, RoundInv, SelectionIsUsable, Action
      <4>. QED  BY <2>7, <3>2, <4>1 DEF ResumeTurn
    <3>. QED  BY <3>1, <3>2
  <2>. QED  BY <2>1, <2>2, <2>3, <2>4, <2>5, <2>6, <2>7 DEF Next, Clients, QueueThread
<1>2. CASE active' = active
  BY <1>2 DEF SlotsInv
<1>3. ASSUME NEW p \in Party, NEW m \in Nat, NEW r \in Reserve(p), Replace(p, m, r)
      PROVE  SlotsInv'
  <2>1. r \in Mon(p) /\ r # NoMon /\ 0 \in Slot
    BY SizesAssumption, ConstantTypes DEF Reserve, Alive, Slot
  <2>2. \A q \in Party : \A s \in Slot :
            active'[q][s] = active[q][s] \/ (q = p /\ active'[q][s] = r)
    BY <1>3 DEF Replace, IInv, TypeOK
  <2>. QED  BY <2>1, <2>2 DEF SlotsInv
<1>. QED  BY <1>1, <1>2, <1>3

(* A turn goes on only if determineVictory finds somebody on both teams.   *)
LEMMA AliveNext ==
    ASSUME IInv, FieldInv, SlotsInv, AliveInv, Next
    PROVE  AliveInv'
<1>1. CASE (\E p \in Party : HandleForfeit(p)) \/ FinishForfeit
  BY <1>1 DEF HandleForfeit, FinishForfeit, field, AliveInv, Alive, Unlocked
<1>2. CASE \E p \in Party : (\E t \in Answers(p) : HandleTurn(p, t)) \/ HandleCancelTurn(p)
  BY <1>2 DEF HandleTurn, HandleCancelTurn, field, AliveInv, Alive
<1>3. CASE ExecuteTurn
  BY <1>3 DEF ExecuteTurn, field, AliveInv, Alive
<1>4. CASE EndReplacements
  BY <1>4 DEF EndReplacements, field, AliveInv, Alive
<1>5. CASE EndTurn
  BY <1>5 DEF EndTurn, Win, GoOn, AliveInv, AllFainted
<1>6. CASE ResumeTurn
  BY <1>6 DEF ResumeTurn, Win, GoOn, AliveInv, AllFainted
<1>7. CASE \E a \in pending : SwitchAction(a) \/ MoveAction(a)
  BY <1>7 DEF SwitchAction, MoveAction, Win, GoOn, AliveInv, AllFainted
<1>8. CASE \E a \in pending : SkipAction(a)
  BY <1>8 DEF SkipAction, field, AliveInv, Alive
<1>9. ASSUME NEW a \in pending, RequestInactivePokemon(a)
      PROVE  AliveInv'
  <2>1. /\ a.party \in Party /\ a.mon \in OnField(a.party) /\ a.mon \notin fainted'[a.party]
        /\ Alive(1 - a.party)' # {}
    BY <1>9 DEF RequestInactivePokemon, CanAct, AllFainted, IInv, TypeOK, Action
  <2>2. a.mon \in Mon(a.party)
    BY <2>1 DEF OnField, SlotsInv
  <2>3. Alive(a.party)' # {}
    BY <2>1, <2>2 DEF Alive
  <2>4. \A p \in Party : p = a.party \/ p = 1 - a.party
    BY <2>1 DEF Party
  <2>. QED  BY <2>1, <2>3, <2>4 DEF AliveInv
<1>. QED  BY <1>1, <1>2, <1>3, <1>4, <1>5, <1>6, <1>7, <1>8, <1>9
          DEF Next, Clients, QueueThread

LEMMA DecidedNext ==
    ASSUME IInv, FieldInv, DecidedInv, Next
    PROVE  DecidedInv'
<1>1. CASE (\E p \in Party : HandleForfeit(p)) \/ FinishForfeit
  BY <1>1 DEF HandleForfeit, FinishForfeit, DecidedInv, PickForWaiting, IInv, SelectionIsUsable
<1>2. ASSUME NEW p \in Party, NEW t \in Answers(p), HandleTurn(p, t)
      PROVE  DecidedInv'
  <2>1. ~Quiet /\ ~terminated
    BY <1>2 DEF HandleTurn, Quiet
  <2>2. stage = "idle" => ~victory
    BY <2>1 DEF FieldInv, StageInv
  <2>. QED  BY <1>2, <2>1, <2>2 DEF HandleTurn, DecidedInv
<1>3. CASE \E p \in Party : HandleCancelTurn(p)
  BY <1>3 DEF HandleCancelTurn, DecidedInv
<1>4. CASE ExecuteTurn
  <2>1. CASE terminated
    BY <1>4, <2>1 DEF ExecuteTurn, DecidedInv
  <2>2. CASE ~terminated
    BY <1>4, <2>2 DEF ExecuteTurn, DecidedInv
  <2>. QED  BY <2>1, <2>2
<1>5. CASE ResumeTurn
  <2>1. queue' = <<>>
    BY <1>5 DEF ResumeTurn, IInv, RoundInv
  <2>. QED  BY <1>5, <2>1 DEF ResumeTurn, Win, GoOn, DecidedInv
<1>6. CASE EndTurn \/ EndReplacements
  <2>1. queue' = <<>>
    BY <1>6 DEF EndTurn, EndReplacements, IInv, RoundInv
  <2>. QED  BY <1>6, <2>1 DEF EndTurn, EndReplacements, Win, GoOn, DecidedInv
<1>7. ASSUME NEW a \in pending, SkipAction(a) \/ SwitchAction(a)
             \/ MoveAction(a) \/ RequestInactivePokemon(a)
      PROVE  DecidedInv'
  <2>1. queue' = <<>>
    BY <1>7 DEF SkipAction, SwitchAction, MoveAction, RequestInactivePokemon, IInv, RoundInv
  <2>. QED  BY <1>7, <2>1 DEF SkipAction, SwitchAction, MoveAction, RequestInactivePokemon,
               Win, GoOn, DecidedInv
<1>. QED  BY <1>1, <1>2, <1>3, <1>4, <1>5, <1>6, <1>7 DEF Next, Clients, QueueThread

LEMMA NextRounds ==
    ASSUME RInv, [Next]_vars
    PROVE  RInv'
<1>1. IInv' /\ FieldInv'
  BY NextInv, NextField DEF RInv
<1>2. CASE Next
  BY <1>1, <1>2, SlotsNext, AliveNext, DecidedNext DEF RInv
<1>3. CASE UNCHANGED vars
  BY <1>1, <1>3 DEF RInv, vars, SlotsInv, AliveInv, DecidedInv, Alive
<1>. QED  BY <1>2, <1>3

(* The questions of a round and those that have an answer.                 *)
AskedQ == Questions([p \in Party |-> Len(requests[p])])
AnsweredQ == Questions([p \in Party |-> Len(turns[p])])
RoundStep == [Rounds!Next]_(Rounds!vars)

LEMMA QuestionsAre ==
    ASSUME ~terminated
    PROVE  /\ \A q : q \in AskedQ <=>
                \E p \in Party : \E i \in 1 .. Len(requests[p]) : q = <<p, requests[p][i]>>
           /\ \A q : q \in AnsweredQ <=>
                \E p \in Party : \E i \in 1 .. Len(turns[p]) : q = <<p, requests[p][i]>>
BY DEF AskedQ, AnsweredQ, Questions

LEMMA QuestionsAfter ==
    ASSUME ~terminated'
    PROVE  /\ \A q : q \in AskedQ' <=>
                \E p \in Party : \E i \in 1 .. Len(requests'[p]) : q = <<p, requests'[p][i]>>
           /\ \A q : q \in AnsweredQ' <=>
                \E p \in Party : \E i \in 1 .. Len(turns'[p]) : q = <<p, requests'[p][i]>>
BY DEF AskedQ, AnsweredQ, Questions

LEMMA NoQuestions ==
    ASSUME Quiet \/ terminated
    PROVE  AskedQ = {} /\ AnsweredQ = {}
<1>1. CASE terminated
  BY <1>1 DEF AskedQ, AnsweredQ, Questions
<1>2. CASE ~terminated
  <2>1. \A p \in Party : Len(requests[p]) = 0 /\ Len(turns[p]) = 0
    BY <1>2 DEF Quiet
  <2>. QED  BY <1>2, <2>1, QuestionsAre
<1>. QED  BY <1>1, <1>2

LEMMA NoQuestionsAfter ==
    ASSUME Quiet' \/ terminated'
    PROVE  AskedQ' = {} /\ AnsweredQ' = {}
<1>1. CASE terminated'
  BY <1>1 DEF AskedQ, AnsweredQ, Questions
<1>2. CASE ~terminated'
  <2>1. \A p \in Party : Len(requests'[p]) = 0 /\ Len(turns'[p]) = 0
    BY <1>2 DEF Quiet
  <2>. QED  BY <1>2, <2>1, QuestionsAfter
<1>. QED  BY <1>1, <1>2

LEMMA Stutters ==
    ASSUME Phase' = Phase, victory' = victory, AskedQ' = AskedQ, AnsweredQ' = AnsweredQ
    PROVE  RoundStep
BY DEF RoundStep, Rounds!vars, AskedQ, AnsweredQ

(* determineVictory, informVictory and terminate.                          *)
LEMMA WinStep ==
    ASSUME RInv, Win, stage \in {"turn", "replace", "select"}, ~terminated, ~waiting, Quiet,
           UNCHANGED <<requests, turns, forfeit>>
    PROVE  RoundStep
<1>1. Quiet' /\ AskedQ = {} /\ AnsweredQ = {} /\ AskedQ' = {} /\ AnsweredQ' = {}
  <2>1. Quiet'
    BY DEF Quiet
  <2>. QED  BY <2>1, NoQuestions, NoQuestionsAfter
<1>2. Phase \in {"running", "chosen"}
  BY DEF Phase
<1>3. CASE forfeit = NoParty
  <2>1. Phase' = "over" /\ victory' = TRUE
    BY <1>3 DEF Win, Phase
  <2>2. Rounds!Terminate
    BY <1>1, <1>2, <2>1 DEF Rounds!Terminate, AskedQ, AnsweredQ
  <2>. QED  BY <2>2 DEF RoundStep, Rounds!Next
<1>4. CASE forfeit # NoParty
  <2>1. victory = TRUE /\ victory' = victory /\ Phase' = "running"
    BY <1>4 DEF RInv, DecidedInv, IInv, TypeOK, Win, Phase
  <2>2. CASE Phase = "running"
    BY <1>1, <2>1, <2>2, Stutters
  <2>3. CASE Phase = "chosen"
    <3>1. Rounds!Resume
      BY <1>1, <2>1, <2>3 DEF Rounds!Resume, AskedQ, AnsweredQ
    <3>. QED  BY <3>1 DEF RoundStep, Rounds!Next
  <2>. QED  BY <1>2, <2>2, <2>3
<1>. QED  BY <1>3, <1>4

LEMMA ExecuteTurnRound ==
    ASSUME RInv, RInv', ExecuteTurn
    PROVE  RoundStep
<1>1. stage = "idle" /\ queue # <<>> /\ Quiet /\ Quiet'
  BY DEF ExecuteTurn, RInv, IInv, RoundInv, Quiet
<1>2. AskedQ = {} /\ AnsweredQ = {} /\ AskedQ' = {} /\ AnsweredQ' = {}
  BY <1>1, NoQuestions, NoQuestionsAfter
<1>3. UNCHANGED <<victory, terminated>> /\ stage' # "thrown"
  BY DEF ExecuteTurn, RInv, FieldInv, ListsInv, BatchFitsField
<1>4. CASE terminated
  <2>1. Phase = "over" /\ Phase' = "over"
    BY <1>1, <1>3, <1>4 DEF Phase
  <2>. QED  BY <1>2, <1>3, <2>1, Stutters
<1>5. CASE ~terminated
  <2>1. ~victory /\ stage' \in {"turn", "replace"}
    BY <1>1, <1>3, <1>5 DEF ExecuteTurn, RInv, DecidedInv
  <2>2. Phase = "sealed" /\ Phase' = "running"
    BY <1>1, <1>3, <1>5, <2>1 DEF Phase
  <2>3. Rounds!Run
    BY <1>2, <1>3, <2>2 DEF Rounds!Run, AskedQ, AnsweredQ
  <2>. QED  BY <2>3 DEF RoundStep, Rounds!Next
<1>. QED  BY <1>4, <1>5

(* A running turn is one step of the round, however many Pokemon act.      *)
LEMMA ActionRound ==
    ASSUME RInv, NEW a \in pending, SkipAction(a) \/ SwitchAction(a) \/ MoveAction(a)
    PROVE  RoundStep
<1>1. /\ stage \in {"turn", "replace"} /\ UNCHANGED <<requests, turns, forfeit>>
      /\ ~terminated /\ ~waiting /\ Quiet
  BY DEF SkipAction, SwitchAction, MoveAction, RInv, FieldInv, StageInv, IInv, RoundInv,
     SelectionIsUsable
<1>2. CASE Win
  BY <1>1, <1>2, WinStep
<1>3. CASE ~Win
  <2>1. stage' \in {"turn", "replace"} /\ UNCHANGED <<victory, terminated>>
    BY <1>1, <1>3 DEF SkipAction, SwitchAction, MoveAction, GoOn
  <2>2. Phase = "running" /\ Phase' = "running"
    BY <1>1, <2>1 DEF Phase
  <2>3. AskedQ = {} /\ AnsweredQ = {} /\ AskedQ' = {} /\ AnsweredQ' = {}
    <3>1. Quiet'
      BY <1>1 DEF Quiet
    <3>. QED  BY <1>1, <3>1, NoQuestions, NoQuestionsAfter
  <2>. QED  BY <2>1, <2>2, <2>3, Stutters
<1>. QED  BY <1>2, <1>3

LEMMA RequestInactivePokemonRound ==
    ASSUME RInv, RInv', NEW a \in pending, RequestInactivePokemon(a)
    PROVE  RoundStep
<1>. DEFINE slot == CHOOSE s \in Slot : active[a.party][s] = a.mon
            q == <<a.party, slot>>
<1>1. /\ stage = "turn" /\ ~terminated /\ Quiet /\ stage' = "select" /\ waiting' = TRUE
      /\ UNCHANGED <<victory, terminated, turns>> /\ a.party \in Party
  BY DEF RequestInactivePokemon, RInv, FieldInv, StageInv, IInv, RoundInv, TypeOK, Action
<1>2. slot \in Slot
  BY DEF RequestInactivePokemon, CanAct, OnField
<1>. HIDE DEF slot
<1>3. requests'[a.party] = <<slot>> /\ \A p \in Party \ {a.party} : requests'[p] = <<>>
  <2>1. requests' = [requests EXCEPT ![a.party] = Append(requests[a.party], slot)]
    BY DEF RequestInactivePokemon, slot
  <2>2. requests[a.party] = <<>> /\ \A p \in Party : requests[p] = <<>>
    BY <1>1 DEF Quiet
  <2>3. Append(<<>>, slot) = <<slot>>
    OBVIOUS
  <2>. QED  BY <1>1, <2>1, <2>2, <2>3 DEF RInv, IInv, TypeOK
<1>4. AskedQ' = {q}
  <2>1. Len(requests'[a.party]) = 1 /\ requests'[a.party][1] = slot
    BY <1>3
  <2>2. \A p \in Party \ {a.party} : Len(requests'[p]) = 0
    BY <1>3
  <2>3. ASSUME NEW x
        PROVE  x \in AskedQ' <=> x = q
    <3>1. x \in AskedQ' <=>
            \E p \in Party : \E i \in 1 .. Len(requests'[p]) : x = <<p, requests'[p][i]>>
      BY <1>1, QuestionsAfter
    <3>2. ASSUME NEW p \in Party, NEW i \in 1 .. Len(requests'[p])
          PROVE  p = a.party /\ i = 1
      <4>1. p = a.party
        BY <2>2
      <4>2. i \in 1 .. 1
        BY <2>1, <4>1
      <4>. QED  BY <4>1, <4>2
    <3>3. 1 \in 1 .. Len(requests'[a.party])
      BY <2>1
    <3>. QED  BY <1>1, <2>1, <3>1, <3>2, <3>3
  <2>. QED  BY <2>3
<1>5. AnsweredQ' = {}
  <2>1. \A p \in Party : Len(turns'[p]) = 0
    BY <1>1 DEF Quiet
  <2>. QED  BY <1>1, <2>1, QuestionsAfter
<1>6. Phase = "running" /\ Phase' = "paused"
  BY <1>1 DEF Phase
<1>7. q \in Party \X Slot
  BY <1>1, <1>2
<1>. HIDE DEF q
<1>8. Rounds!Pause(q)
  BY <1>1, <1>4, <1>5, <1>6 DEF Rounds!Pause, AskedQ, AnsweredQ
<1>. QED  BY <1>7, <1>8 DEF RoundStep, Rounds!Next

LEMMA ResumeTurnRound ==
    ASSUME RInv, ResumeTurn
    PROVE  RoundStep
<1>1. stage = "select" /\ ~waiting /\ Quiet /\ UNCHANGED <<requests, turns, forfeit>>
  BY DEF ResumeTurn, RInv, IInv, RoundInv
<1>2. AskedQ = {} /\ AnsweredQ = {} /\ AskedQ' = {} /\ AnsweredQ' = {}
  <2>1. Quiet'
    BY <1>1 DEF Quiet
  <2>. QED  BY <1>1, <2>1, NoQuestions, NoQuestionsAfter
<1>3. CASE terminated
  <2>1. Phase = "over" /\ Phase' = "over" /\ UNCHANGED victory
    BY <1>1, <1>3 DEF ResumeTurn, Phase
  <2>. QED  BY <1>2, <2>1, Stutters
<1>4. CASE ~terminated /\ Win
  BY <1>1, <1>4, WinStep
<1>5. CASE ~terminated /\ GoOn("turn", pending)
  <2>1. Phase = "chosen" /\ Phase' = "running" /\ UNCHANGED victory
    BY <1>1, <1>5 DEF GoOn, Phase
  <2>2. Rounds!Resume
    BY <1>2, <2>1 DEF Rounds!Resume, AskedQ, AnsweredQ
  <2>. QED  BY <2>2 DEF RoundStep, Rounds!Next
<1>. QED  BY <1>3, <1>4, <1>5 DEF ResumeTurn

(* When everybody is replaced or nobody can be, there is somebody to ask.  *)
LEMMA SomebodyActs ==
    ASSUME TypeOK', SlotsInv', NEW p \in Party, Alive(p)' # {}, ToReplace(p)' = {}
    PROVE  ActiveSlots(p)' # {}
<1>1. 0 \in Slot /\ active'[p][0] \in Mon(p)
  BY SizesAssumption DEF SlotsInv, Slot
<1>2. CASE active'[p][0] \notin fainted'[p]
  BY <1>1, <1>2 DEF ActiveSlots, Alive
<1>3. CASE active'[p][0] \in fainted'[p]
  <2>1. 0 \in FaintedSlots(p)'
    BY <1>1, <1>3 DEF FaintedSlots
  <2>2. {t \in FaintedSlots(p)' : t < 0} = {}
    <3>1. \A t \in FaintedSlots(p)' : t \in Nat
      BY ConstantTypes DEF FaintedSlots
    <3>2. \A t \in Nat : ~(t < 0)
      OBVIOUS
    <3>. QED  BY <3>1, <3>2
  <2>3. ~(0 < Cardinality(Reserve(p)'))
    <3>1. Cardinality({t \in FaintedSlots(p)' : t < 0}) = 0
      BY <2>2, FS_EmptySet
    <3>. QED  BY <2>1, <3>1 DEF ToReplace
  <2>4. IsFiniteSet(Reserve(p)')
    <3>1. IsFiniteSet(Mon(p))
      BY SizesAssumption, FS_Interval DEF Mon
    <3>. QED  BY <3>1, FS_Subset DEF Reserve, Alive
  <2>5. Reserve(p)' = {}
    BY <2>3, <2>4, FS_CardinalityType, FS_EmptySet
  <2>6. PICK m \in Alive(p)' : m \in OnField(p)'
    BY <2>5 DEF Reserve
  <2>. QED  BY <2>6 DEF OnField, ActiveSlots
<1>. QED  BY <1>2, <1>3

(* requestMoves and requestReplacements open a round with a question.      *)
LEMMA AskNextRound ==
    ASSUME RInv, RInv', AskNext, ~victory, ~terminated, Quiet, queue = <<>>,
           UNCHANGED <<turns, queue, victory, terminated>>, stage \in {"turn", "replace"},
           stage' = "idle"
    PROVE  RoundStep
<1>1. Phase = "running" /\ Phase' = "asking"
  BY DEF Phase
<1>2. PICK p \in Party : Asked(p)' # {}
  <2>1. replacement' = \E p \in Party : ToReplace(p)' # {}
    BY DEF AskNext
  <2>2. CASE \E p \in Party : ToReplace(p)' # {}
    BY <2>1, <2>2 DEF Asked
  <2>3. CASE ~\E p \in Party : ToReplace(p)' # {}
    <3>1. Alive(0)' # {} /\ ToReplace(0)' = {} /\ 0 \in Party
      BY <2>3, ConstantTypes DEF RInv, AliveInv
    <3>2. ActiveSlots(0)' # {}
      BY <3>1, SomebodyActs DEF RInv, IInv
    <3>. QED  BY <2>1, <2>3, <3>1, <3>2 DEF Asked
  <2>. QED  BY <2>2, <2>3
<1>3. requests'[p] = InSlotOrder(Asked(p)')
  BY DEF RInv, FieldInv, ListsInv, RequestsFitField, Collecting
<1>4. 1 \in 1 .. Len(requests'[p])
  <2>1. Asked(p)' \in SUBSET Slot
    BY DEF Asked, ToReplace, FaintedSlots, ActiveSlots
  <2>2. /\ Len(requests'[p]) = Cardinality(Asked(p)') /\ IsFiniteSet(Asked(p)')
        /\ Cardinality(Asked(p)') \in Nat
    BY <1>3, <2>1, SlotOrderType, SlotSets
  <2>3. Cardinality(Asked(p)') # 0
    BY <1>2, <2>2, FS_EmptySet
  <2>. QED  BY <2>2, <2>3
<1>5. AskedQ' # {}
  <2>1. <<p, requests'[p][1]>> \in AskedQ'
    BY <1>4, QuestionsAfter
  <2>. QED  BY <2>1
<1>6. AskedQ' \in SUBSET (Party \X Slot)
  <2>1. ASSUME NEW q \in Party, NEW i \in 1 .. Len(requests'[q])
        PROVE  requests'[q][i] \in Slot
    BY ElementOfSeq DEF RInv, IInv, TypeOK
  <2>. QED  BY <2>1, QuestionsAfter
<1>7. AnsweredQ' = {}
  <2>1. \A q \in Party : Len(turns'[q]) = 0
    BY DEF Quiet
  <2>. QED  BY <2>1, QuestionsAfter
<1>8. Rounds!NextRound(AskedQ')
  BY <1>1, <1>5, <1>7 DEF Rounds!NextRound, Rounds!Ask, AskedQ, AnsweredQ
<1>. QED  BY <1>6, <1>8 DEF RoundStep, Rounds!Next

LEMMA EndRound ==
    ASSUME RInv, RInv', EndTurn \/ EndReplacements
    PROVE  RoundStep
<1>1. /\ stage \in {"turn", "replace"} /\ ~terminated /\ ~waiting /\ queue = <<>> /\ Quiet
      /\ UNCHANGED <<turns, queue, forfeit>>
  BY DEF EndTurn, EndReplacements, RInv, FieldInv, StageInv, IInv, RoundInv, SelectionIsUsable
<1>2. CASE Win /\ UNCHANGED requests
  BY <1>1, <1>2, WinStep
<1>3. CASE AskNext /\ stage' = "idle" /\ UNCHANGED <<victory, terminated>>
  <2>1. CASE victory
    <3>1. Quiet'
      BY <1>1, <1>3, <2>1 DEF AskNext, Quiet
    <3>2. AskedQ = {} /\ AnsweredQ = {} /\ AskedQ' = {} /\ AnsweredQ' = {}
      BY <1>1, <3>1, NoQuestions, NoQuestionsAfter
    <3>3. Phase = "running" /\ Phase' = "ended"
      BY <1>1, <1>3, <2>1 DEF Phase
    <3>4. Rounds!EndClosed
      BY <1>3, <2>1, <3>2, <3>3 DEF Rounds!EndClosed, AskedQ, AnsweredQ
    <3>. QED  BY <3>4 DEF RoundStep, Rounds!Next
  <2>2. CASE ~victory
    BY <1>1, <1>3, <2>2, AskNextRound
  <2>. QED  BY <2>1, <2>2
<1>. QED  BY <1>2, <1>3 DEF EndTurn, EndReplacements, GoOn

(* The slots of a round are different, so that each question is put once.  *)
LEMMA AskedOnce ==
    ASSUME NEW S \in SUBSET Slot, NEW i \in 1 .. Cardinality(S), NEW j \in 1 .. Cardinality(S),
           InSlotOrder(S)[i] = InSlotOrder(S)[j]
    PROVE  i = j
<1>. DEFINE nth(k) == CHOOSE s \in S : Cardinality({t \in S : t < s}) = k - 1
<1>1. Cardinality(S) \in Nat
  BY SlotSets
<1>2. \A k \in 1 .. Cardinality(S) : Cardinality({t \in S : t < nth(k)}) = k - 1
  BY EveryRankIsTaken
<1>3. InSlotOrder(S)[i] = nth(i) /\ InSlotOrder(S)[j] = nth(j)
  BY DEF InSlotOrder
<1>. HIDE DEF nth
<1>4. i - 1 = j - 1
  BY <1>2, <1>3
<1>. QED  BY <1>1, <1>4

(* While players are asked, no party is asked about a slot twice.          *)
LEMMA RequestsDiffer ==
    ASSUME RInv, Collecting \/ (stage = "select" /\ waiting), NEW p \in Party,
           NEW i \in 1 .. Len(requests[p]), NEW j \in 1 .. Len(requests[p]),
           requests[p][i] = requests[p][j]
    PROVE  i = j
<1>1. CASE Collecting
  <2>1. Asked(p) \in SUBSET Slot /\ requests[p] = InSlotOrder(Asked(p))
    BY <1>1 DEF RInv, FieldInv, ListsInv, RequestsFitField, Asked, ToReplace, FaintedSlots,
       ActiveSlots
  <2>2. Len(requests[p]) = Cardinality(Asked(p))
    BY <2>1, SlotOrderType
  <2>. QED  BY <2>1, <2>2, AskedOnce
<1>2. CASE stage = "select" /\ waiting
  <2>1. /\ user.party \in Party /\ Len(requests[user.party]) = 1
        /\ requests[1 - user.party] = <<>>
    BY <1>2 DEF RInv, IInv, RoundInv, SelectionIsUsable, Action
  <2>2. p = user.party \/ p = 1 - user.party
    BY <2>1 DEF Party
  <2>3. CASE p = user.party
    BY <2>1, <2>3
  <2>4. CASE p = 1 - user.party
    <3>1. Len(requests[p]) = 0
      BY <2>1, <2>4
    <3>. QED  BY <3>1
  <2>. QED  BY <2>2, <2>3, <2>4
<1>. QED  BY <1>1, <1>2

(* An answer is given to one question of the round.                        *)
LEMMA HandleTurnRound ==
    ASSUME RInv, RInv', NEW p \in Party, NEW t \in Answers(p), HandleTurn(p, t)
    PROVE  RoundStep
<1>. DEFINE n == Len(turns[p])
            q == <<p, requests[p][n + 1]>>
            ans == Answered(p, t)
<1>1. /\ stage \in {"idle", "select"} /\ ~terminated /\ stage' = stage
      /\ UNCHANGED <<terminated, victory>>
      /\ \/ Len(ans[p]) < Len(requests[p]) /\ turns' = ans /\ UNCHANGED <<queue, requests, waiting>>
         \/ /\ Len(ans[p]) = Len(requests[p]) /\ waiting /\ ~waiting' /\ UNCHANGED queue
            /\ turns' = [turns EXCEPT ![p] = <<>>]
            /\ requests' = [requests EXCEPT ![p] = <<>>]
         \/ /\ ~waiting /\ MaybeExecuteTurn(ans) /\ UNCHANGED waiting
  BY DEF HandleTurn, Unlocked, Answered
<1>2. /\ ~Quiet /\ queue = <<>> /\ (stage = "select" <=> waiting)
      /\ stage = "idle" => ~victory
  <2>1. ~Quiet
    BY DEF HandleTurn, Quiet
  <2>. QED  BY <1>1, <2>1 DEF RInv, IInv, RoundInv, SelectionIsUsable, FieldInv, StageInv
<1>3. Collecting \/ (stage = "select" /\ waiting)
  BY <1>1, <1>2 DEF Collecting
<1>4. \A r \in Party : /\ Len(turns[r]) \in Nat /\ Len(requests[r]) \in Nat
                       /\ Len(turns[r]) <= Len(requests[r])
  BY DEF RInv, IInv, TypeOK, RoundInv
<1>5. /\ n \in Nat /\ n + 1 \in 1 .. Len(requests[p]) /\ n + 1 \notin 1 .. n
      /\ requests[p][n + 1] \in Slot
  <2>1. n \in Nat /\ n + 1 \in 1 .. Len(requests[p]) /\ n + 1 \notin 1 .. n
    BY <1>4 DEF HandleTurn
  <2>. QED  BY <2>1, ElementOfSeq DEF RInv, IInv, TypeOK
<1>6. /\ Len(ans[p]) = n + 1 /\ Len(ans[p]) \in Nat
      /\ \A r \in Party \ {p} : ans[r] = turns[r]
  <2>1. /\ \A r \in Party \ {p} : ans[r] = turns[r]
        /\ ans[p] = Append(turns[p], [type |-> t.type, id |-> t.id, by |-> active[p][requests[p][n + 1]]])
    BY DEF Answered, RInv, IInv, TypeOK
  <2>2. Len(ans[p]) = Len(turns[p]) + 1
    BY <2>1 DEF RInv, IInv, TypeOK
  <2>. QED  BY <1>5, <2>1, <2>2
<1>. HIDE DEF ans
<1>7. q \in AskedQ \ AnsweredQ /\ q \in Party \X Slot
  <2>1. q \in AskedQ
    BY <1>1, <1>5, QuestionsAre
  <2>2. ASSUME NEW r \in Party, NEW i \in 1 .. Len(turns[r]), q = <<r, requests[r][i]>>
        PROVE  FALSE
    <3>1. r = p /\ requests[p][i] = requests[p][n + 1] /\ i \in 1 .. n
      BY <2>2
    <3>2. i \in 1 .. Len(requests[p])
      BY <1>4, <3>1
    <3>3. i = n + 1
      BY <1>3, <1>5, <3>1, <3>2, RequestsDiffer
    <3>. QED  BY <1>5, <3>1, <3>3
  <2>3. q \notin AnsweredQ
    BY <1>1, <2>2, QuestionsAre
  <2>. QED  BY <1>5, <2>1, <2>3
<1>8. \A x : x \in AnsweredQ \cup {q} <=>
            \E r \in Party : \E i \in 1 .. Len(ans[r]) : x = <<r, requests[r][i]>>
  <2>1. ASSUME NEW x, x \in AnsweredQ
        PROVE  \E r \in Party : \E i \in 1 .. Len(ans[r]) : x = <<r, requests[r][i]>>
    <3>1. PICK r \in Party : \E i \in 1 .. Len(turns[r]) : x = <<r, requests[r][i]>>
      BY <1>1, <2>1, QuestionsAre
    <3>2. PICK i \in 1 .. Len(turns[r]) : x = <<r, requests[r][i]>>
      BY <3>1
    <3>3. i \in 1 .. Len(ans[r])
      BY <1>4, <1>5, <1>6
    <3>. QED  BY <3>2, <3>3
  <2>2. \E r \in Party : \E i \in 1 .. Len(ans[r]) : q = <<r, requests[r][i]>>
    <3>1. n + 1 \in 1 .. Len(ans[p])
      BY <1>5, <1>6
    <3>. QED  BY <3>1
  <2>3. ASSUME NEW r \in Party, NEW i \in 1 .. Len(ans[r]), <<r, requests[r][i]>> # q
        PROVE  <<r, requests[r][i]>> \in AnsweredQ
    <3>1. i \in 1 .. Len(turns[r])
      <4>1. CASE r = p
        <5>1. i # n + 1
          BY <2>3, <4>1
        <5>. QED  BY <1>5, <1>6, <4>1, <5>1
      <4>2. CASE r # p
        BY <1>6, <4>2
      <4>. QED  BY <4>1, <4>2
    <3>. QED  BY <1>1, <3>1, QuestionsAre
  <2>. HIDE DEF q
  <2>. QED  BY <2>1, <2>2, <2>3
<1>. HIDE DEF q
<1>9. (\A r \in Party : Len(requests[r]) = Len(ans[r])) => AnsweredQ \cup {q} = AskedQ
  <2>1. ASSUME \A r \in Party : Len(requests[r]) = Len(ans[r]), NEW x
        PROVE  x \in AnsweredQ \cup {q} <=> x \in AskedQ
    <3>1. (\E r \in Party : \E i \in 1 .. Len(ans[r]) : x = <<r, requests[r][i]>>)
          <=> (\E r \in Party : \E i \in 1 .. Len(requests[r]) : x = <<r, requests[r][i]>>)
      BY <2>1
    <3>. QED  BY <1>1, <1>8, <3>1, QuestionsAre
  <2>. QED  BY <2>1
<1>10. ASSUME NEW r \in Party, Len(requests[r]) # Len(ans[r])
       PROVE  AnsweredQ \cup {q} # AskedQ
  <2>. DEFINE x == <<r, requests[r][Len(requests[r])]>>
  <2>1. Len(ans[r]) < Len(requests[r]) /\ Len(ans[r]) \in Nat
    BY <1>4, <1>5, <1>6, <1>10
  <2>2. /\ Len(requests[r]) \in 1 .. Len(requests[r])
        /\ Len(requests[r]) \notin 1 .. Len(ans[r])
        /\ 1 .. Len(ans[r]) \subseteq 1 .. Len(requests[r])
    BY <1>4, <2>1
  <2>3. x \in AskedQ
    BY <1>1, <2>2, QuestionsAre
  <2>4. ASSUME NEW u \in Party, NEW i \in 1 .. Len(ans[u]), x = <<u, requests[u][i]>>
        PROVE  FALSE
    <3>1. u = r /\ requests[r][i] = requests[r][Len(requests[r])] /\ i \in 1 .. Len(ans[r])
      BY <2>4
    <3>2. i = Len(requests[r])
      BY <1>3, <2>2, <3>1, RequestsDiffer
    <3>. QED  BY <2>2, <3>1, <3>2
  <2>5. x \notin AnsweredQ \cup {q}
    BY <1>8, <2>4
  <2>. QED  BY <2>3, <2>5
<1>11. CASE Len(ans[p]) < Len(requests[p]) /\ turns' = ans /\ UNCHANGED <<queue, requests, waiting>>
  <2>1. AnsweredQ \cup {q} # AskedQ
    BY <1>4, <1>6, <1>10, <1>11
  <2>2. AskedQ' = AskedQ /\ AnsweredQ' = AnsweredQ \cup {q}
    <3>1. AskedQ' = AskedQ
      BY <1>1, <1>11 DEF AskedQ, Questions
    <3>2. \A x : x \in AnsweredQ' <=>
              \E r \in Party : \E i \in 1 .. Len(ans[r]) : x = <<r, requests[r][i]>>
      BY <1>1, <1>11, QuestionsAfter
    <3>. QED  BY <1>8, <3>1, <3>2
  <2>3. Phase' = Phase /\ Phase \in {"asking", "paused"}
    BY <1>1, <1>2, <1>11 DEF Phase
  <2>4. Rounds!Answer(q)
    BY <1>1, <1>7, <2>1, <2>2, <2>3 DEF Rounds!Answer, AskedQ, AnsweredQ
  <2>. QED  BY <1>7, <2>4 DEF RoundStep, Rounds!Next
<1>12. CASE /\ Len(ans[p]) = Len(requests[p]) /\ waiting /\ ~waiting' /\ UNCHANGED queue
            /\ turns' = [turns EXCEPT ![p] = <<>>]
            /\ requests' = [requests EXCEPT ![p] = <<>>]
  <2>0. /\ user.party \in Party /\ requests[1 - user.party] = <<>>
        /\ \A r \in Party : turns[r] = <<>>
    BY <1>2, <1>12 DEF RInv, IInv, RoundInv, SelectionIsUsable, Action
  <2>1. \A r \in Party \ {p} : requests[r] = <<>> /\ turns[r] = <<>>
    <3>1. requests[p] # <<>>
      BY <1>5
    <3>2. p = user.party /\ \A r \in Party \ {p} : r = 1 - user.party
      BY <2>0, <3>1 DEF Party
    <3>. QED  BY <2>0, <3>2
  <2>2. \A r \in Party : Len(requests[r]) = Len(ans[r])
    BY <1>6, <1>12, <2>1
  <2>3. AnsweredQ \cup {q} = AskedQ
    BY <1>9, <2>2
  <2>4. Quiet'
    BY <1>12, <2>1 DEF Quiet, RInv, IInv, TypeOK
  <2>5. AskedQ' = {} /\ AnsweredQ' = {}
    BY <2>4, NoQuestionsAfter
  <2>6. Phase = "paused" /\ Phase' = "chosen"
    BY <1>1, <1>2, <1>12 DEF Phase
  <2>7. Rounds!Answer(q)
    BY <1>1, <1>7, <2>3, <2>5, <2>6 DEF Rounds!Answer, AskedQ, AnsweredQ
  <2>. QED  BY <1>7, <2>7 DEF RoundStep, Rounds!Next
<1>13. CASE ~waiting /\ MaybeExecuteTurn(ans) /\ UNCHANGED waiting
  <2>1. CASE \A r \in Party : Len(requests[r]) = Len(ans[r])
    <3>1. AnsweredQ \cup {q} = AskedQ
      BY <1>9, <2>1
    <3>2. Quiet' /\ queue' = Append(queue, ans[0] \o ans[1])
      BY <1>13, <2>1 DEF MaybeExecuteTurn, Quiet
    <3>3. AskedQ' = {} /\ AnsweredQ' = {} /\ queue' # <<>>
      BY <1>2, <3>2, NoQuestionsAfter
    <3>4. Phase = "asking" /\ Phase' = "sealed"
      BY <1>1, <1>2, <1>13, <3>3 DEF Phase
    <3>5. Rounds!Answer(q)
      BY <1>1, <1>7, <3>1, <3>3, <3>4 DEF Rounds!Answer, AskedQ, AnsweredQ
    <3>. QED  BY <1>7, <3>5 DEF RoundStep, Rounds!Next
  <2>2. CASE ~\A r \in Party : Len(requests[r]) = Len(ans[r])
    <3>1. AnsweredQ \cup {q} # AskedQ
      BY <1>10, <2>2
    <3>2. turns' = ans /\ UNCHANGED <<queue, requests>>
      BY <1>13, <2>2 DEF MaybeExecuteTurn
    <3>3. AskedQ' = AskedQ /\ AnsweredQ' = AnsweredQ \cup {q}
      <4>1. AskedQ' = AskedQ
        BY <1>1, <3>2 DEF AskedQ, Questions
      <4>2. \A x : x \in AnsweredQ' <=>
                \E r \in Party : \E i \in 1 .. Len(ans[r]) : x = <<r, requests[r][i]>>
        BY <1>1, <3>2, QuestionsAfter
      <4>. QED  BY <1>8, <4>1, <4>2
    <3>4. Phase' = Phase /\ Phase = "asking"
      BY <1>1, <1>2, <1>13, <3>2 DEF Phase
    <3>5. Rounds!Answer(q)
      BY <1>1, <1>7, <3>1, <3>3, <3>4 DEF Rounds!Answer, AskedQ, AnsweredQ
    <3>. QED  BY <1>7, <3>5 DEF RoundStep, Rounds!Next
  <2>. QED  BY <2>1, <2>2
<1>. QED  BY <1>1, <1>11, <1>12, <1>13

(* handleCancelTurn takes one answer back.                                 *)
LEMMA HandleCancelTurnRound ==
    ASSUME RInv, NEW p \in Party, HandleCancelTurn(p)
    PROVE  RoundStep
<1>. DEFINE n == Len(turns[p])
            q == <<p, requests[p][n]>>
<1>1. turns[p] \in Seq(Turn) /\ turns[p] # <<>> /\ n \in Nat \ {0}
  BY EmptySeq DEF HandleCancelTurn, RInv, IInv, TypeOK
<1>2. /\ stage = "idle" /\ queue = <<>> /\ ~terminated /\ ~victory
      /\ UNCHANGED <<requests, victory, terminated, queue, stage>>
  BY <1>1 DEF HandleCancelTurn, Unlocked, RInv, IInv, RoundInv, Quiet, FieldInv, StageInv
<1>3. Len(turns'[p]) = n - 1 /\ \A r \in Party \ {p} : turns'[r] = turns[r]
  <2>1. turns' = [turns EXCEPT ![p] = SubSeq(turns[p], 1, n - 1)]
    BY DEF HandleCancelTurn
  <2>2. Len(SubSeq(turns[p], 1, n - 1)) = n - 1
    BY <1>1
  <2>. QED  BY <2>1, <2>2 DEF RInv, IInv, TypeOK
<1>4. /\ Len(requests[p]) \in Nat /\ n <= Len(requests[p]) /\ requests[p] \in Seq(Slot)
  BY DEF RInv, IInv, TypeOK, RoundInv
<1>5. q \in AnsweredQ /\ q \in Party \X Slot
  <2>1. n \in 1 .. n /\ n \in 1 .. Len(requests[p])
    BY <1>1, <1>4
  <2>2. requests[p][n] \in Slot
    BY <1>4, <2>1, ElementOfSeq
  <2>. QED  BY <1>2, <2>1, <2>2, QuestionsAre
<1>6. ASSUME NEW r \in Party, NEW i \in 1 .. Len(turns'[r])
      PROVE  i \in 1 .. Len(turns[r]) /\ <<r, requests[r][i]>> # q
  <2>1. CASE r # p
    BY <1>3, <2>1
  <2>2. CASE r = p
    <3>1. i \in 1 .. n - 1
      BY <1>3, <2>2
    <3>2. i \in 1 .. n /\ i \in 1 .. Len(requests[p]) /\ n \in 1 .. Len(requests[p]) /\ i # n
      BY <1>1, <1>4, <3>1
    <3>3. Collecting
      BY <1>2 DEF Collecting
    <3>4. requests[p][i] # requests[p][n]
      BY <3>2, <3>3, RequestsDiffer
    <3>. QED  BY <2>2, <3>2, <3>4
  <2>. QED  BY <2>1, <2>2
<1>7. ASSUME NEW r \in Party, NEW i \in 1 .. Len(turns[r]), <<r, requests[r][i]>> # q
      PROVE  i \in 1 .. Len(turns'[r])
  <2>1. CASE r # p
    BY <1>3, <2>1
  <2>2. CASE r = p
    <3>1. i # n
      BY <1>7, <2>2
    <3>. QED  BY <1>1, <1>3, <2>2, <3>1
  <2>. QED  BY <2>1, <2>2
<1>. HIDE DEF q
<1>8. AskedQ' = AskedQ
  BY <1>2 DEF AskedQ, Questions
<1>9. AnsweredQ' = AnsweredQ \ {q}
  <2>1. ASSUME NEW x, x \in AnsweredQ'
        PROVE  x \in AnsweredQ /\ x # q
    <3>1. PICK r \in Party : \E i \in 1 .. Len(turns'[r]) : x = <<r, requests[r][i]>>
      BY <1>2, <2>1, QuestionsAfter
    <3>. QED  BY <1>2, <1>6, <3>1, QuestionsAre
  <2>2. ASSUME NEW x \in AnsweredQ, x # q
        PROVE  x \in AnsweredQ'
    <3>1. PICK r \in Party : \E i \in 1 .. Len(turns[r]) : x = <<r, requests[r][i]>>
      BY <1>2, QuestionsAre
    <3>2. PICK i \in 1 .. Len(turns[r]) : x = <<r, requests[r][i]>>
      BY <3>1
    <3>3. i \in 1 .. Len(turns'[r])
      BY <1>7, <2>2, <3>2
    <3>. QED  BY <1>2, <3>2, <3>3, QuestionsAfter
  <2>. QED  BY <2>1, <2>2
<1>10. Phase = "asking" /\ Phase' = "asking"
  BY <1>2 DEF Phase
<1>11. Rounds!Retract(q)
  BY <1>2, <1>5, <1>8, <1>9, <1>10 DEF Rounds!Retract, AskedQ, AnsweredQ
<1>. QED  BY <1>5, <1>11 DEF RoundStep, Rounds!Next

(* A player who leaves closes the round; getRandomInactivePokemon answers  *)
(* for him what a suspended turn waits for.                                *)
LEMMA ForfeitRound ==
    ASSUME RInv, RInv', (\E p \in Party : HandleForfeit(p)) \/ FinishForfeit
    PROVE  RoundStep
<1>1. /\ stage \in {"idle", "select"} /\ UNCHANGED <<stage, queue>>
      /\ \/ PickForWaiting /\ UNCHANGED terminated /\ victory' = TRUE
         \/ ~waiting /\ terminated' = TRUE /\ UNCHANGED <<requests, turns, waiting>>
            /\ victory' = TRUE
  BY DEF HandleForfeit, FinishForfeit, Unlocked, RInv, DecidedInv, IInv, TypeOK
<1>2. CASE terminated
  <2>1. victory' = victory /\ terminated' = terminated
    BY <1>2 DEF HandleForfeit, FinishForfeit, RInv, IInv, TypeOK
  <2>2. Phase = "over" /\ Phase' = "over"
    BY <1>1, <1>2, <2>1 DEF Phase
  <2>3. AskedQ = {} /\ AnsweredQ = {} /\ AskedQ' = {} /\ AnsweredQ' = {}
    BY <1>2, <2>1, NoQuestions, NoQuestionsAfter
  <2>. QED  BY <2>1, <2>2, <2>3, Stutters
<1>3. CASE ~terminated /\ ~waiting /\ terminated' = TRUE /\ victory' = TRUE
  <2>1. AskedQ' = {} /\ AnsweredQ' = {}
    BY <1>3, NoQuestionsAfter
  <2>2. Phase \notin {"paused", "over"} /\ Phase' = "over"
    BY <1>1, <1>3 DEF Phase
  <2>3. Rounds!Terminate
    BY <1>3, <2>1, <2>2 DEF Rounds!Terminate, AskedQ, AnsweredQ
  <2>. QED  BY <2>3 DEF RoundStep, Rounds!Next
<1>4. CASE ~terminated /\ PickForWaiting /\ UNCHANGED terminated /\ victory' = TRUE
  <2>1. stage = "select" /\ waiting /\ ~waiting'
    BY <1>4 DEF PickForWaiting, RInv, IInv, SelectionIsUsable
  <2>2. Quiet'
    BY <1>1, <2>1 DEF RInv, IInv, RoundInv
  <2>3. AskedQ' = {} /\ AnsweredQ' = {}
    BY <2>2, NoQuestionsAfter
  <2>4. Phase = "paused" /\ Phase' = "chosen"
    BY <1>1, <1>4, <2>1 DEF Phase
  <2>5. Rounds!Close
    BY <1>4, <2>3, <2>4 DEF Rounds!Close, AskedQ, AnsweredQ
  <2>. QED  BY <2>5 DEF RoundStep, Rounds!Next
<1>. QED  BY <1>1, <1>2, <1>3, <1>4

LEMMA NextRound ==
    ASSUME RInv, RInv', [Next]_vars
    PROVE  RoundStep
<1>1. ASSUME NEW p \in Party, NEW t \in Answers(p), HandleTurn(p, t)
      PROVE  RoundStep
  BY <1>1, HandleTurnRound
<1>2. ASSUME NEW p \in Party, HandleCancelTurn(p)
      PROVE  RoundStep
  BY <1>2, HandleCancelTurnRound
<1>3. CASE (\E p \in Party : HandleForfeit(p)) \/ FinishForfeit
  BY <1>3, ForfeitRound
<1>4. CASE ExecuteTurn
  BY <1>4, ExecuteTurnRound
<1>5. ASSUME NEW a \in pending, SkipAction(a) \/ SwitchAction(a)
             \/ MoveAction(a) \/ RequestInactivePokemon(a)
      PROVE  RoundStep
  BY <1>5, ActionRound, RequestInactivePokemonRound
<1>6. CASE ResumeTurn \/ EndTurn \/ EndReplacements
  BY <1>6, ResumeTurnRound, EndRound
<1>7. CASE UNCHANGED vars
  <2>1. Phase' = Phase /\ AskedQ' = AskedQ /\ AnsweredQ' = AnsweredQ /\ victory' = victory
    BY <1>7 DEF vars, Phase, AskedQ, AnsweredQ, Questions
  <2>. QED  BY <2>1, Stutters
<1>. QED  BY <1>1, <1>2, <1>3, <1>4, <1>5, <1>6, <1>7
          DEF Next, Clients, QueueThread

(* beginBattle opens the first round.                                      *)
LEMMA FirstRound == Init => Rounds!Init
<1>. SUFFICES ASSUME Init PROVE Rounds!Init
  OBVIOUS
<1>1. Phase = "asking" /\ victory = FALSE /\ ~terminated
  BY DEF Init, Phase
<1>2. IInv /\ FieldInv /\ SlotsInv
  BY InitInv, InitField, InitRounds
<1>3. AnsweredQ = {}
  <2>1. \A p \in Party : Len(turns[p]) = 0
    BY DEF Init
  <2>. QED  BY <1>1, <2>1, QuestionsAre
<1>4. AskedQ \in SUBSET (Party \X Slot)
  <2>1. ASSUME NEW q \in Party, NEW i \in 1 .. Len(requests[q])
        PROVE  requests[q][i] \in Slot
    BY <1>2, ElementOfSeq DEF IInv, TypeOK
  <2>. QED  BY <1>1, <2>1, QuestionsAre
<1>5. AskedQ # {}
  <2>1. 0 \in Slot /\ 0 \in ActiveSlots(0) /\ 0 \in Party
    <3>1. 0 \in Slot /\ 0 \in Party
      BY SizesAssumption, ConstantTypes DEF Slot
    <3>2. active[0][0] \in Mon(0) /\ fainted[0] = {}
      BY <1>2, <3>1 DEF SlotsInv, Init
    <3>. QED  BY <3>1, <3>2 DEF ActiveSlots, Alive
  <2>2. ActiveSlots(0) \in SUBSET Slot /\ requests[0] = InSlotOrder(ActiveSlots(0))
    BY <2>1 DEF ActiveSlots, Init
  <2>3. Len(requests[0]) = Cardinality(ActiveSlots(0)) /\ Cardinality(ActiveSlots(0)) \in Nat
    BY <2>2, SlotOrderType, SlotSets
  <2>4. Cardinality(ActiveSlots(0)) # 0
    BY <2>1, <2>2, SlotSets, FS_EmptySet
  <2>5. 1 \in 1 .. Len(requests[0])
    BY <2>3, <2>4
  <2>6. <<0, requests[0][1]>> \in AskedQ
    BY <1>1, <2>1, <2>5, QuestionsAre
  <2>. QED  BY <2>6
<1>6. AskedQ \in (SUBSET (Party \X Slot)) \ {{}}
  BY <1>4, <1>5
<1>. QED  BY <1>1, <1>3, <1>6 DEF Rounds!Init, AskedQ, AnsweredQ

(* Collecting and executing turns is a series of rounds as TurnRounds      *)
(* describes them: a turn is posted when, and only when, each question has *)
(* one answer, no answer changes after that, a suspended turn asks one     *)
(* question more, and nobody is asked once the battle is decided.          *)
THEOREM Refinement == Spec => ImplementsRounds
<1>1. Init => RInv
  BY InitInv, InitField, InitRounds DEF RInv
<1>2. RInv /\ [Next]_vars => RInv'
  BY NextRounds
<1>3. RInv /\ RInv' /\ [Next]_vars => [Rounds!Next]_(Rounds!vars)
  BY NextRound DEF RoundStep
<1>. QED  BY <1>1, <1>2, <1>3, FirstRound, PTL DEF Spec, ImplementsRounds, Rounds!Spec

=============================================================================
